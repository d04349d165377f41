--------------------------- MODULE PreprocProofs ---------------------------
(***************************************************************************)
(* Theorems about Preproc, for every number of runs that the sides ask for *)
(* and every number of runs that an evaluation takes: that the sides agree *)
(* and report what they do not agree on, and the refinement of Renewal.    *)
(***************************************************************************)
EXTENDS Preproc, SequenceTheorems, TLAPS

----------------------------------------------------------------------------
(* The inductive invariant.  The runs of both sides never change.          *)

\* The steps of each side, by how many batches of OTs are behind it.
ClientBefore == {"start", "echo", "binary"}
ClientAfter  == {"pads", "proof", "ready"}
ServerBefore == {"start", "hello", "check", "binary"}
ServerAfter  == {"pads", "bhat", "prove", "ready"}

Types ==
    /\ cpc \in ClientBefore \union {"masks", "delta"} \union ClientAfter \union {"failed"}
    /\ spc \in ServerBefore \union {"masks", "delta"} \union ServerAfter \union {"failed"}
    /\ ctau \in Nat /\ stau \in Nat /\ cvoprf \in BOOLEAN /\ svoprf \in BOOLEAN
    /\ cc \in Nat /\ cd \in Nat /\ sd \in Nat /\ copened \in Nat /\ sopened \in Nat
    /\ stheirs \in Nat /\ ots \in 0 .. 2
    /\ hello \in Seq([tau : Nat, voprf : BOOLEAN])
    /\ control \in Seq(Nat) /\ masks \in Seq(Nat) /\ pads \in Seq(Nat) /\ proofs \in Seq(Nat)
    /\ sc \in Seq(Nat) /\ cancelled \in BOOLEAN

\* The OTs take both sides on together, and only sides that agreed.
OtInv ==
    /\ cpc \in ClientBefore => ots = 0
    /\ cpc \in {"masks", "delta"} => ots = 1
    /\ cpc \in ClientAfter => ots = 2
    /\ spc \in ServerBefore => ots = 0
    /\ spc \in {"masks", "delta"} => ots = 1
    /\ spc \in ServerAfter => ots = 2
    /\ ots > 0 => ctau = stau

\* hello and echo: the hello is there until the server takes it, and what it said is what the
\* server goes by; the echo is there until the client takes it.
HelloInv ==
    /\ cpc = "start" => Len(hello) = 0 /\ copened = 0 /\ Len(control) = 0
    /\ copened > 0 /\ cvoprf => evaluations_for(ctau) > 0
    /\ copened > 0 => ctau > 0
    /\ cpc \notin {"start", "failed"} => copened > 0
    /\ spc = "start" => sopened = 0
    /\ spc \in {"start", "hello"} =>
          /\ Len(control) = 0 /\ cpc \in {"start", "echo", "failed"}
          /\ copened > 0 => Len(hello) # 0 \/ cancelled
    /\ Len(hello) # 0 => /\ Len(hello) = 1 /\ copened > 0
                         /\ hello[1].tau = ctau /\ hello[1].voprf = cvoprf
    /\ spc \notin {"start", "hello", "failed"} => stheirs = ctau /\ svoprf = cvoprf /\ copened > 0
    /\ spc \notin {"start", "hello", "check", "failed"} => stau = ctau
    /\ Len(control) # 0 => svoprf = cvoprf /\ stheirs = ctau
    /\ cpc \notin {"start", "echo", "failed"} => svoprf = cvoprf /\ stau = ctau /\ stheirs = ctau
    /\ cpc \in {"start", "echo"} /\ spc = "failed" /\ Len(control) = 0 =>
          serr \in {"ZeroTau", "cancelled"}
    /\ cpc = "echo" => /\ Len(control) <= 1 /\ (Len(control) # 0 => control[1] = stau)
                       /\ spc \notin {"start", "hello", "failed"} => Len(control) = 1
    /\ cpc \in {"binary", "masks", "delta"} => Len(control) = 0
    /\ cpc = "pads" /\ Len(control) # 0 => spc \in {"prove", "ready", "failed"}
    /\ serr = "ZeroTau" => stau = 0
    /\ serr = "cancelled" => cancelled

\* The commitments arrive in order, the masks' before the server goes on, the pads' before the
\* client does, and the sums after all of them.
CommitInv ==
    /\ Len(sc) + Len(masks) = cc
    /\ \A v \in 1 .. Len(sc) : sc[v] = v
    /\ \A v \in 1 .. Len(masks) : masks[v] = Len(sc) + v
    /\ cd + Len(pads) = sd
    /\ \A v \in 1 .. Len(pads) : pads[v] = cd + v
    /\ spc \in {"delta"} \union ServerAfter /\ svoprf => Len(sc) = evaluations_for(stau)
    /\ Len(proofs) # 0 => /\ spc \in {"ready", "failed"} /\ svoprf
                          /\ Len(proofs) = 1 /\ proofs[1] = Len(sc) /\ Len(sc) = evaluations_for(stau)
    /\ cpc \in {"proof", "ready"} /\ cvoprf => cd = evaluations_for(ctau)
    /\ (cpc = "proof" => cvoprf) /\ (spc = "prove" => svoprf)

\* A server that failed while its client goes on past the echo was cancelled, unless a check of
\* its own failed it before the OTs.
EndInv ==
    /\ spc = "failed" /\ cpc # "failed" /\ ots > 0 => serr = "cancelled"
    /\ cpc \in {"proof", "ready"} => spc \in {"prove", "ready", "failed"}
    /\ cpc = "ready" => spc = "ready" \/ serr = "cancelled"
    /\ cpc = "ready" /\ cvoprf => Len(sc) = cd

\* Nobody fails who agrees with the other and is not cancelled.
CleanInv ==
    ~cancelled /\ ctau = stau /\ copened > 0 => cpc # "failed" /\ spc # "failed"

\* How many streams each side has opened.
OpenInv ==
    /\ cpc = "echo" => copened = 3
    /\ cpc \notin {"start", "echo", "failed"} => copened = IF cvoprf THEN 5 ELSE 3
    /\ spc \in {"hello", "check"} => sopened = 3
    /\ spc \notin {"start", "hello", "check", "failed"} => sopened = IF svoprf THEN 5 ELSE 3
    /\ ctau # stau /\ ~cancelled => copened \in {0, 3} /\ sopened \in {0, 3}

Inv == Types /\ OtInv /\ HelloInv /\ CommitInv /\ EndInv /\ CleanInv /\ OpenInv /\ MismatchReported

(* Taking the first message of a stream.                                   *)
LEMMA TakeFirst ==
  ASSUME NEW S, NEW s \in Seq(S), s # <<>>
  PROVE  /\ Len(s) \in Nat /\ Len(s) # 0 /\ Head(s) = s[1] /\ Head(s) \in S
         /\ Tail(s) \in Seq(S) /\ Len(Tail(s)) = Len(s) - 1
         /\ \A i \in 1 .. Len(s) - 1 : Tail(s)[i] = s[i + 1]
  BY HeadTailProperties, LenProperties, EmptySeq

(* Putting one more message on a stream.                                   *)
LEMMA PutLast ==
  ASSUME NEW S, NEW s \in Seq(S), NEW x \in S
  PROVE  /\ Len(s) \in Nat /\ Append(s, x) \in Seq(S) /\ Len(Append(s, x)) = Len(s) + 1
         /\ Append(s, x)[Len(s) + 1] = x
         /\ \A i \in 1 .. Len(s) : Append(s, x)[i] = s[i]
  BY AppendProperties, LenProperties

(* What the streams are.                                                   *)
LEMMA StreamFacts ==
  ASSUME Types
  PROVE  /\ Len(hello) \in Nat /\ Len(control) \in Nat /\ Len(masks) \in Nat
         /\ Len(pads) \in Nat /\ Len(proofs) \in Nat /\ Len(sc) \in Nat
         /\ hello = <<>> <=> Len(hello) = 0
         /\ control = <<>> <=> Len(control) = 0
         /\ masks = <<>> <=> Len(masks) = 0
         /\ pads = <<>> <=> Len(pads) = 0
         /\ proofs = <<>> <=> Len(proofs) = 0
  BY LenProperties, EmptySeq DEF Types

\* The hello that the client sends.
Greeting == <<[tau |-> ctau, voprf |-> cvoprf]>>

(* What is in it.                                                          *)
LEMMA GreetingFacts ==
  ASSUME Types
  PROVE  /\ Greeting \in Seq([tau : Nat, voprf : BOOLEAN]) /\ Len(Greeting) = 1
         /\ Greeting[1].tau = ctau /\ Greeting[1].voprf = cvoprf
  BY DEF Types, Greeting

(* Every step keeps the types.                                             *)
LEMMA KeepTypes == ASSUME Types, Next PROVE Types'
  <1> USE StreamFacts
      DEF Types, evaluations_for,
          ClientBefore, ClientAfter, ServerBefore, ServerAfter
  <1>1. CASE SendHello
    <2>1. /\ cpc = "start"
          /\ \/ /\ cpc' = "failed" /\ hello' = hello /\ copened' = copened
                /\ cerr' \in {"ZeroTau", "VoprfTauTooSmall"}
             \/ /\ cpc' = "echo" /\ copened' = copened + 3 /\ hello' = Greeting
                /\ ctau > 0 /\ (cvoprf => evaluations_for(ctau) > 0) /\ cerr' = cerr
          /\ UNCHANGED <<ctau, cvoprf, cc, cd, server, control, masks, pads, proofs, ots, cancelled>>
      BY <1>1 DEF SendHello, ClientFails, Greeting
    <2> QED
      BY <2>1, GreetingFacts DEF server
  <1>2. CASE RecvEcho
    BY <1>2 DEF RecvEcho, ClientFails, server
  <1>3. CASE SendMasks
    BY <1>3 DEF SendMasks, server
  <1>4. CASE MasksSent
    BY <1>4 DEF MasksSent, server, streams
  <1>5. CASE RecvPads
    BY <1>5 DEF RecvPads, ClientFails, server
  <1>6. CASE RecvBhat
    BY <1>6 DEF RecvBhat, server
  <1>7. CASE Finish
    BY <1>7 DEF Finish, ClientFails, server
  <1>8. CASE ServerClosed
    BY <1>8 DEF ServerClosed, ClientFails, server, streams
  <1>9. CASE ClientCancelled
    BY <1>9 DEF ClientCancelled, ClientFails, ClientEnded, server, streams
  <1>10. CASE OpenServer
    BY <1>10 DEF OpenServer, ServerFails, client, streams
  <1>11. CASE RecvHello
    <2>1. /\ spc = "hello" /\ spc' = "check" /\ hello # <<>> /\ hello' = Tail(hello)
          /\ stheirs' = Head(hello).tau /\ svoprf' = Head(hello).voprf /\ control' = Append(control, stau)
          /\ UNCHANGED <<client, serr, stau, sc, sd, sopened, masks, pads, proofs, ots, cancelled>>
      BY <1>11 DEF RecvHello
    <2>2. /\ Head(hello) = hello[1] /\ Head(hello) \in [tau : Nat, voprf : BOOLEAN]
          /\ hello' \in Seq([tau : Nat, voprf : BOOLEAN]) /\ Len(hello') = Len(hello) - 1
      BY <2>1, TakeFirst
    <2>3. control' \in Seq(Nat) /\ Len(control') = Len(control) + 1 /\ control'[Len(control) + 1] = stau
      BY <2>1, PutLast
    <2> QED
      BY <2>1, <2>2, <2>3 DEF client
  <1>12. CASE CheckTau
    BY <1>12 DEF CheckTau, ServerFails, client, streams
  <1>13. CASE RecvMasks
    BY <1>13 DEF RecvMasks, client
  <1>14. CASE MasksReceived
    BY <1>14 DEF MasksReceived, ServerFails, client, streams
  <1>15. CASE SendPads
    BY <1>15 DEF SendPads, client
  <1>16. CASE PadsSent
    BY <1>16 DEF PadsSent, client, streams
  <1>17. CASE SendBhat
    BY <1>17 DEF SendBhat, client
  <1>18. CASE Prove
    BY <1>18 DEF Prove, client
  <1>19. CASE ClientClosed
    BY <1>19 DEF ClientClosed, ServerFails, client, streams
  <1>20. CASE ServerCancelled
    BY <1>20 DEF ServerCancelled, ServerFails, ServerEnded, client, streams
  <1>21. CASE BinaryOts
    BY <1>21 DEF BinaryOts, streams
  <1>22. CASE DeltaOts
    BY <1>22 DEF DeltaOts, streams
  <1>23. CASE ServerCancelledLate
    <2>1. /\ spc' = "failed" /\ cancelled' = TRUE
          /\ control' \in {control, Append(control, stau)} /\ proofs' \in {proofs, Append(proofs, Len(sc))}
          /\ UNCHANGED <<client, stau, svoprf, sc, sd, sopened, stheirs, hello, masks, pads, ots>>
      BY <1>23 DEF ServerCancelledLate, ServerFails
    <2>2. Append(control, stau) \in Seq(Nat) /\ Append(proofs, Len(sc)) \in Seq(Nat)
      BY PutLast
    <2> QED
      BY <2>1, <2>2 DEF client
  <1>24. CASE OpenClientOt \/ OpenServerOt
    <2>1. UNCHANGED <<client, server, streams, ots, cancelled>>
      BY <1>24 DEF OpenClientOt, OpenServerOt
    <2> QED
      BY <2>1 DEF client, server, streams
  <1> QED
    BY <1>1, <1>2, <1>3, <1>4, <1>5, <1>6, <1>7, <1>8, <1>9, <1>10, <1>11,
       <1>12, <1>13, <1>14, <1>15, <1>16, <1>17, <1>18, <1>19, <1>20, <1>21, <1>22, <1>23, <1>24
       DEF Next

(* The OTs move both sides on together.                                    *)
LEMMA KeepOtInv == ASSUME Types, OtInv, HelloInv, Next PROVE OtInv'
  <1> USE StreamFacts
      DEF Types, OtInv, HelloInv, evaluations_for,
          ClientBefore, ClientAfter, ServerBefore, ServerAfter
  <1>1. CASE SendHello
    BY <1>1 DEF SendHello, ClientFails, server
  <1>2. CASE RecvEcho
    BY <1>2 DEF RecvEcho, ClientFails, server
  <1>3. CASE SendMasks
    BY <1>3 DEF SendMasks, server
  <1>4. CASE MasksSent
    BY <1>4 DEF MasksSent, server, streams
  <1>5. CASE RecvPads
    BY <1>5 DEF RecvPads, ClientFails, server
  <1>6. CASE RecvBhat
    BY <1>6 DEF RecvBhat, server
  <1>7. CASE Finish
    BY <1>7 DEF Finish, ClientFails, server
  <1>8. CASE ServerClosed
    BY <1>8 DEF ServerClosed, ClientFails, server, streams
  <1>9. CASE ClientCancelled
    BY <1>9 DEF ClientCancelled, ClientFails, ClientEnded, server, streams
  <1>10. CASE OpenServer
    BY <1>10 DEF OpenServer, ServerFails, client, streams
  <1>11. CASE RecvHello
    BY <1>11 DEF RecvHello, client
  <1>12. CASE CheckTau
    BY <1>12 DEF CheckTau, ServerFails, client, streams
  <1>13. CASE RecvMasks
    BY <1>13 DEF RecvMasks, client
  <1>14. CASE MasksReceived
    BY <1>14 DEF MasksReceived, ServerFails, client, streams
  <1>15. CASE SendPads
    BY <1>15 DEF SendPads, client
  <1>16. CASE PadsSent
    BY <1>16 DEF PadsSent, client, streams
  <1>17. CASE SendBhat
    BY <1>17 DEF SendBhat, client
  <1>18. CASE Prove
    BY <1>18 DEF Prove, client
  <1>19. CASE ClientClosed
    BY <1>19 DEF ClientClosed, ServerFails, client, streams
  <1>20. CASE ServerCancelled
    BY <1>20 DEF ServerCancelled, ServerFails, ServerEnded, client, streams
  <1>21. CASE BinaryOts
    BY <1>21 DEF BinaryOts, streams
  <1>22. CASE DeltaOts
    BY <1>22 DEF DeltaOts, streams
  <1>23. CASE ServerCancelledLate
    BY <1>23 DEF ServerCancelledLate, ServerFails, client
  <1>24. CASE OpenClientOt \/ OpenServerOt
    <2>1. UNCHANGED <<client, server, streams, ots, cancelled>>
      BY <1>24 DEF OpenClientOt, OpenServerOt
    <2> QED
      BY <2>1 DEF client, server, streams
  <1> QED
    BY <1>1, <1>2, <1>3, <1>4, <1>5, <1>6, <1>7, <1>8, <1>9, <1>10, <1>11,
       <1>12, <1>13, <1>14, <1>15, <1>16, <1>17, <1>18, <1>19, <1>20, <1>21, <1>22, <1>23, <1>24
       DEF Next

(* The client leaves with its hello, or with the error of an early return. *)
LEMMA HelloSendHello == ASSUME Types, OtInv, HelloInv, SendHello PROVE HelloInv'
  <1>1. /\ cpc = "start"
        /\ \/ cpc' = "failed" /\ hello' = hello /\ copened' = copened
           \/ /\ cpc' = "echo" /\ copened' = copened + 3 /\ hello' = Greeting
              /\ ctau > 0 /\ (cvoprf => evaluations_for(ctau) > 0)
        /\ UNCHANGED <<ctau, cvoprf, server, control, ots, cancelled>>
    BY DEF SendHello, ClientFails, Greeting
  <1>2. Len(hello) = 0 /\ copened = 0 /\ Len(control) = 0 /\ spc \in {"start", "hello", "failed"}
    BY <1>1 DEF HelloInv
  <1>3. Len(hello') # 0 => Len(hello') = 1 /\ hello'[1].tau = ctau /\ hello'[1].voprf = cvoprf
    <2>1. CASE hello' = hello
      BY <1>2, <2>1
    <2>2. CASE hello' = Greeting
      BY <2>2, GreetingFacts
    <2> QED BY <1>1, <2>1, <2>2
  <1>4. cpc' = "echo" => Len(hello') # 0
    <2>1. cpc' = "echo" => hello' = Greeting
      BY <1>1
    <2>2. Len(Greeting) = 1
      BY GreetingFacts
    <2> QED BY <2>1, <2>2
  <1> QED
    BY <1>1, <1>2, <1>3, <1>4 DEF HelloInv, server, evaluations_for

(* The server takes the hello and answers it.                              *)
LEMMA HelloRecvHello == ASSUME Types, OtInv, HelloInv, RecvHello PROVE HelloInv'
  <1>1. /\ spc = "hello" /\ spc' = "check" /\ hello # <<>> /\ hello' = Tail(hello)
        /\ stheirs' = Head(hello).tau /\ svoprf' = Head(hello).voprf /\ control' = Append(control, stau)
        /\ UNCHANGED <<client, serr, stau, sopened, ots, cancelled>>
    BY DEF RecvHello
  <1>2. Head(hello) = hello[1] /\ Len(hello') = Len(hello) - 1 /\ Len(hello) # 0
    BY <1>1, TakeFirst DEF Types
  <1>3. Len(control') = Len(control) + 1 /\ control'[Len(control) + 1] = stau
    BY <1>1, PutLast DEF Types
  <1>4. Len(hello) = 1 /\ Len(control) = 0 /\ cpc \in {"echo", "failed"}
    BY <1>1, <1>2 DEF HelloInv
  <1>5. stheirs' = ctau /\ svoprf' = cvoprf /\ Len(hello') = 0
    BY <1>1, <1>2, <1>4 DEF HelloInv
  <1>6. Len(control') = 1 /\ control'[1] = stau
    BY <1>3, <1>4
  <1>7. copened > 0
    BY <1>1, <1>2 DEF HelloInv
  <1> QED
    BY <1>1, <1>4, <1>5, <1>6, <1>7 DEF HelloInv, client, evaluations_for

(* The client takes the echo.                                              *)
LEMMA HelloRecvEcho == ASSUME Types, OtInv, HelloInv, RecvEcho PROVE HelloInv'
  <1>1. /\ cpc = "echo" /\ control # <<>> /\ control' = Tail(control)
        /\ \/ cpc' = "failed" /\ copened' = copened
           \/ Head(control) = ctau /\ cpc' = "binary" /\ copened' \in {copened, copened + 2}
        /\ UNCHANGED <<ctau, cvoprf, server, hello, ots, cancelled>>
    BY DEF RecvEcho, ClientFails, Types
  <1>2. Len(control) # 0 /\ Head(control) = control[1] /\ Len(control') = Len(control) - 1
    BY <1>1, TakeFirst DEF Types
  <1>3. /\ Len(control) <= 1 /\ control[1] = stau /\ spc \notin {"start", "hello"}
        /\ svoprf = cvoprf /\ stheirs = ctau /\ copened > 0
    BY <1>1, <1>2 DEF HelloInv
  <1>4. Len(control') = 0 /\ Head(control) = stau
    BY <1>2, <1>3, StreamFacts
  <1>5. copened' > 0
    BY <1>1, <1>3 DEF Types
  <1> QED
    BY <1>1, <1>3, <1>4, <1>5 DEF HelloInv, server, evaluations_for

(* The server goes on only with the client's number of runs.               *)
LEMMA HelloCheckTau == ASSUME Types, OtInv, HelloInv, CheckTau PROVE HelloInv'
  <1>1. /\ spc = "check" /\ spc' \in {"failed", "binary"}
        /\ spc' = "binary" => stheirs = stau /\ serr' = serr
        /\ spc' = "failed" => serr' \in {"TauMismatch", "VoprfTauTooSmall"}
        /\ UNCHANGED <<client, stau, svoprf, stheirs, streams, ots, cancelled>>
    BY DEF CheckTau, ServerFails
  <1>2. /\ stheirs = ctau /\ svoprf = cvoprf /\ copened > 0 /\ cpc # "start"
        /\ (cpc = "echo" => Len(control) = 1) /\ (cpc = "pads" => Len(control) = 0)
    BY <1>1 DEF HelloInv
  <1> QED
    BY <1>1, <1>2 DEF HelloInv, client, streams, evaluations_for

(* What each side knows of the other's hello and echo stays right.         *)
LEMMA KeepHelloInv == ASSUME Types, OtInv, HelloInv, Next PROVE HelloInv'
  <1> USE StreamFacts
      DEF Types, OtInv, HelloInv, evaluations_for,
          ClientBefore, ClientAfter, ServerBefore, ServerAfter
  <1>1. CASE SendHello
    BY <1>1, HelloSendHello
  <1>2. CASE RecvEcho
    BY <1>2, HelloRecvEcho
  <1>3. CASE SendMasks
    BY <1>3 DEF SendMasks, server
  <1>4. CASE MasksSent
    BY <1>4 DEF MasksSent, server, streams
  <1>5. CASE RecvPads
    BY <1>5 DEF RecvPads, ClientFails, server
  <1>6. CASE RecvBhat
    BY <1>6 DEF RecvBhat, server
  <1>7. CASE Finish
    BY <1>7 DEF Finish, ClientFails, server
  <1>8. CASE ServerClosed
    BY <1>8 DEF ServerClosed, ClientFails, server, streams
  <1>9. CASE ClientCancelled
    BY <1>9 DEF ClientCancelled, ClientFails, ClientEnded, server, streams
  <1>10. CASE OpenServer
    BY <1>10 DEF OpenServer, ServerFails, client, streams
  <1>11. CASE RecvHello
    BY <1>11, HelloRecvHello
  <1>12. CASE CheckTau
    BY <1>12, HelloCheckTau
  <1>13. CASE RecvMasks
    BY <1>13 DEF RecvMasks, client
  <1>14. CASE MasksReceived
    BY <1>14 DEF MasksReceived, ServerFails, client, streams
  <1>15. CASE SendPads
    BY <1>15 DEF SendPads, client
  <1>16. CASE PadsSent
    BY <1>16 DEF PadsSent, client, streams
  <1>17. CASE SendBhat
    BY <1>17 DEF SendBhat, client
  <1>18. CASE Prove
    BY <1>18 DEF Prove, client
  <1>19. CASE ClientClosed
    BY <1>19 DEF ClientClosed, ServerFails, client, streams
  <1>20. CASE ServerCancelled
    BY <1>20 DEF ServerCancelled, ServerFails, ServerEnded, client, streams
  <1>21. CASE BinaryOts
    BY <1>21 DEF BinaryOts, streams
  <1>22. CASE DeltaOts
    BY <1>22 DEF DeltaOts, streams
  <1>23. CASE ServerCancelledLate
    BY <1>23 DEF ServerCancelledLate, ServerFails, client
  <1>24. CASE OpenClientOt \/ OpenServerOt
    <2>1. UNCHANGED <<client, server, streams, ots, cancelled>>
      BY <1>24 DEF OpenClientOt, OpenServerOt
    <2> QED
      BY <2>1 DEF client, server, streams
  <1> QED
    BY <1>1, <1>2, <1>3, <1>4, <1>5, <1>6, <1>7, <1>8, <1>9, <1>10, <1>11,
       <1>12, <1>13, <1>14, <1>15, <1>16, <1>17, <1>18, <1>19, <1>20, <1>21, <1>22, <1>23, <1>24
       DEF Next

(* One more commitment travels to the server.                              *)
LEMMA CommitSendMasks == ASSUME Types, OtInv, HelloInv, CommitInv, SendMasks PROVE CommitInv'
  <1>1. /\ masks' = Append(masks, cc + 1) /\ cc' = cc + 1
        /\ UNCHANGED <<cpc, ctau, cvoprf, cd, server, pads, proofs>>
    BY DEF SendMasks
  <1>2. /\ Len(masks) \in Nat /\ Len(masks') = Len(masks) + 1 /\ masks'[Len(masks) + 1] = cc + 1
        /\ \A i \in 1 .. Len(masks) : masks'[i] = masks[i]
    BY <1>1, PutLast DEF Types
  <1>3. Len(sc) \in Nat /\ Len(sc) + Len(masks) = cc /\ \A v \in 1 .. Len(masks) : masks[v] = Len(sc) + v
    BY StreamFacts DEF CommitInv
  <1>4. (\A v \in 1 .. Len(masks') : masks'[v] = Len(sc) + v) /\ Len(sc) + Len(masks') = cc'
    BY <1>1, <1>2, <1>3
  <1> QED
    BY <1>1, <1>4 DEF CommitInv, server, evaluations_for, ServerAfter

(* The server takes the next commitment.                                   *)
LEMMA CommitRecvMasks == ASSUME Types, OtInv, HelloInv, CommitInv, RecvMasks PROVE CommitInv'
  <1>1. /\ spc = "masks" /\ masks # <<>> /\ masks' = Tail(masks) /\ sc' = Append(sc, Head(masks))
        /\ UNCHANGED <<client, spc, stau, svoprf, sd, pads, proofs>>
    BY DEF RecvMasks
  <1>2. /\ Len(masks) \in Nat /\ Len(masks) # 0 /\ Head(masks) = masks[1] /\ Head(masks) \in Nat
        /\ Len(masks') = Len(masks) - 1
        /\ \A i \in 1 .. Len(masks) - 1 : masks'[i] = masks[i + 1]
    BY <1>1, TakeFirst DEF Types
  <1>3. /\ Len(sc) \in Nat /\ Len(sc') = Len(sc) + 1 /\ sc'[Len(sc) + 1] = Head(masks)
        /\ \A i \in 1 .. Len(sc) : sc'[i] = sc[i]
    BY <1>1, <1>2, PutLast DEF Types
  <1>4. /\ Len(sc) + Len(masks) = cc /\ \A v \in 1 .. Len(sc) : sc[v] = v
        /\ \A v \in 1 .. Len(masks) : masks[v] = Len(sc) + v
    BY DEF CommitInv
  <1>5. Head(masks) = Len(sc) + 1
    BY <1>2, <1>3, <1>4
  <1>6. \A v \in 1 .. Len(sc') : sc'[v] = v
    BY <1>3, <1>4, <1>5
  <1>7. (\A v \in 1 .. Len(masks') : masks'[v] = Len(sc') + v) /\ Len(sc') + Len(masks') = cc
    BY <1>2, <1>3, <1>4
  <1>8. Len(proofs) = 0
    BY <1>1, StreamFacts DEF CommitInv
  <1> QED
    BY <1>1, <1>6, <1>7, <1>8 DEF CommitInv, client, evaluations_for, ServerAfter

(* The client takes the next commitment, which is the one it expects.      *)
LEMMA CommitRecvPads == ASSUME Types, OtInv, HelloInv, CommitInv, RecvPads PROVE CommitInv'
  <1>1. /\ cpc = "pads" /\ pads # <<>> /\ pads' = Tail(pads)
        /\ Head(pads) = cd + 1 => cd' = cd + 1 /\ cpc' = cpc
        /\ UNCHANGED <<ctau, cvoprf, cc, server, masks, proofs>>
    BY DEF RecvPads, ClientFails
  <1>2. /\ Len(pads) \in Nat /\ Len(pads) # 0 /\ Head(pads) = pads[1] /\ Len(pads') = Len(pads) - 1
        /\ \A i \in 1 .. Len(pads) - 1 : pads'[i] = pads[i + 1]
    BY <1>1, TakeFirst DEF Types
  <1>3. cd \in Nat /\ cd + Len(pads) = sd /\ \A v \in 1 .. Len(pads) : pads[v] = cd + v
    BY DEF CommitInv, Types
  <1>4. cd' = cd + 1 /\ cpc' = cpc
    BY <1>1, <1>2, <1>3
  <1>5. (\A v \in 1 .. Len(pads') : pads'[v] = cd' + v) /\ cd' + Len(pads') = sd
    BY <1>2, <1>3, <1>4
  <1> QED
    BY <1>1, <1>4, <1>5 DEF CommitInv, server, evaluations_for, ServerAfter

(* One more commitment travels to the client.                              *)
LEMMA CommitSendPads == ASSUME Types, OtInv, HelloInv, CommitInv, SendPads PROVE CommitInv'
  <1>1. /\ pads' = Append(pads, sd + 1) /\ sd' = sd + 1
        /\ UNCHANGED <<client, spc, stau, svoprf, sc, masks, proofs>>
    BY DEF SendPads
  <1>2. /\ Len(pads) \in Nat /\ Len(pads') = Len(pads) + 1 /\ pads'[Len(pads) + 1] = sd + 1
        /\ \A i \in 1 .. Len(pads) : pads'[i] = pads[i]
    BY <1>1, PutLast DEF Types
  <1>3. cd \in Nat /\ cd + Len(pads) = sd /\ \A v \in 1 .. Len(pads) : pads[v] = cd + v
    BY DEF CommitInv, Types
  <1>4. \A v \in 1 .. Len(pads') : pads'[v] = cd + v
    BY <1>2, <1>3
  <1>5. cd + Len(pads') = sd'
    BY <1>1, <1>2, <1>3
  <1> QED
    BY <1>1, <1>4, <1>5 DEF CommitInv, client, evaluations_for, ServerAfter

(* The commitments stay in order on their streams.                         *)
LEMMA KeepCommitInv == ASSUME Types, OtInv, HelloInv, CommitInv, Next PROVE CommitInv'
  <1> USE StreamFacts
      DEF Types, OtInv, HelloInv, CommitInv, evaluations_for,
          ClientBefore, ClientAfter, ServerBefore, ServerAfter
  <1>1. CASE SendHello
    BY <1>1 DEF SendHello, ClientFails, server
  <1>2. CASE RecvEcho
    BY <1>2 DEF RecvEcho, ClientFails, server
  <1>3. CASE SendMasks
    BY <1>3, CommitSendMasks
  <1>4. CASE MasksSent
    BY <1>4 DEF MasksSent, server, streams
  <1>5. CASE RecvPads
    BY <1>5, CommitRecvPads
  <1>6. CASE RecvBhat
    BY <1>6 DEF RecvBhat, server
  <1>7. CASE Finish
    BY <1>7 DEF Finish, ClientFails, server
  <1>8. CASE ServerClosed
    BY <1>8 DEF ServerClosed, ClientFails, server, streams
  <1>9. CASE ClientCancelled
    BY <1>9 DEF ClientCancelled, ClientFails, ClientEnded, server, streams
  <1>10. CASE OpenServer
    BY <1>10 DEF OpenServer, ServerFails, client, streams
  <1>11. CASE RecvHello
    BY <1>11 DEF RecvHello, client
  <1>12. CASE CheckTau
    BY <1>12 DEF CheckTau, ServerFails, client, streams
  <1>13. CASE RecvMasks
    BY <1>13, CommitRecvMasks
  <1>14. CASE MasksReceived
    BY <1>14 DEF MasksReceived, ServerFails, client, streams
  <1>15. CASE SendPads
    BY <1>15, CommitSendPads
  <1>16. CASE PadsSent
    BY <1>16 DEF PadsSent, client, streams
  <1>17. CASE SendBhat
    BY <1>17 DEF SendBhat, client
  <1>18. CASE Prove
    <2>1. /\ spc = "prove" /\ spc' = "ready" /\ proofs' = Append(proofs, Len(sc))
          /\ UNCHANGED <<client, stau, svoprf, sc, sd, masks, pads>>
      BY <1>18 DEF Prove
    <2>2. Len(proofs) = 0
      BY <2>1
    <2>3. Len(proofs') = 1 /\ proofs'[1] = Len(sc)
      <3>1. Len(proofs') = Len(proofs) + 1 /\ proofs'[Len(proofs) + 1] = Len(sc)
        BY <2>1, PutLast
      <3> QED
        BY <2>2, <3>1
    <2> QED
      BY <2>1, <2>3 DEF client
  <1>19. CASE ClientClosed
    BY <1>19 DEF ClientClosed, ServerFails, client, streams
  <1>20. CASE ServerCancelled
    BY <1>20 DEF ServerCancelled, ServerFails, ServerEnded, client, streams
  <1>21. CASE BinaryOts
    BY <1>21 DEF BinaryOts, streams
  <1>22. CASE DeltaOts
    BY <1>22 DEF DeltaOts, streams
  <1>23. CASE ServerCancelledLate
    <2>1. /\ spc \in {"bhat", "prove"} /\ spc' = "failed"
          /\ proofs' = proofs \/ (spc = "prove" /\ proofs' = Append(proofs, Len(sc)))
          /\ UNCHANGED <<client, stau, svoprf, sc, sd, masks, pads>>
      BY <1>23 DEF ServerCancelledLate, ServerFails
    <2>2. Len(proofs) = 0
      BY <2>1
    <2>3. Len(Append(proofs, Len(sc))) = 1 /\ Append(proofs, Len(sc))[1] = Len(sc)
      <3>1. /\ Len(Append(proofs, Len(sc))) = Len(proofs) + 1
            /\ Append(proofs, Len(sc))[Len(proofs) + 1] = Len(sc)
        BY PutLast
      <3> QED
        BY <2>2, <3>1
    <2>4. Len(proofs') # 0 => svoprf /\ Len(proofs') = 1 /\ proofs'[1] = Len(sc)
      BY <2>1, <2>2, <2>3
    <2> QED
      BY <2>1, <2>4 DEF client
  <1>24. CASE OpenClientOt \/ OpenServerOt
    <2>1. UNCHANGED <<client, server, streams, ots, cancelled>>
      BY <1>24 DEF OpenClientOt, OpenServerOt
    <2> QED
      BY <2>1 DEF client, server, streams
  <1> QED
    BY <1>1, <1>2, <1>3, <1>4, <1>5, <1>6, <1>7, <1>8, <1>9, <1>10, <1>11,
       <1>12, <1>13, <1>14, <1>15, <1>16, <1>17, <1>18, <1>19, <1>20, <1>21, <1>22, <1>23, <1>24
       DEF Next

(* A client ends well only with a server that ended well or was cancelled  *)
(* at the very end.                                                        *)
LEMMA KeepEndInv == ASSUME Types, OtInv, HelloInv, CommitInv, EndInv, Next PROVE EndInv'
  <1> USE StreamFacts
      DEF Types, OtInv, HelloInv, CommitInv, EndInv, evaluations_for,
          ClientBefore, ClientAfter, ServerBefore, ServerAfter
  <1>1. CASE SendHello
    BY <1>1 DEF SendHello, ClientFails, server
  <1>2. CASE RecvEcho
    BY <1>2 DEF RecvEcho, ClientFails, server
  <1>3. CASE SendMasks
    BY <1>3 DEF SendMasks, server
  <1>4. CASE MasksSent
    BY <1>4 DEF MasksSent, server, streams
  <1>5. CASE RecvPads
    BY <1>5 DEF RecvPads, ClientFails, server
  <1>6. CASE RecvBhat
    BY <1>6 DEF RecvBhat, server
  <1>7. CASE Finish
    BY <1>7 DEF Finish, ClientFails, server
  <1>8. CASE ServerClosed
    BY <1>8 DEF ServerClosed, ClientFails, server, streams
  <1>9. CASE ClientCancelled
    BY <1>9 DEF ClientCancelled, ClientFails, ClientEnded, server, streams
  <1>10. CASE OpenServer
    BY <1>10 DEF OpenServer, ServerFails, client, streams
  <1>11. CASE RecvHello
    BY <1>11 DEF RecvHello, client
  <1>12. CASE CheckTau
    BY <1>12 DEF CheckTau, ServerFails, client, streams
  <1>13. CASE RecvMasks
    BY <1>13 DEF RecvMasks, client
  <1>14. CASE MasksReceived
    BY <1>14 DEF MasksReceived, ServerFails, client, streams
  <1>15. CASE SendPads
    BY <1>15 DEF SendPads, client
  <1>16. CASE PadsSent
    BY <1>16 DEF PadsSent, client, streams
  <1>17. CASE SendBhat
    BY <1>17 DEF SendBhat, client
  <1>18. CASE Prove
    BY <1>18 DEF Prove, client
  <1>19. CASE ClientClosed
    BY <1>19 DEF ClientClosed, ServerFails, client, streams
  <1>20. CASE ServerCancelled
    BY <1>20 DEF ServerCancelled, ServerFails, ServerEnded, client, streams
  <1>21. CASE BinaryOts
    BY <1>21 DEF BinaryOts, streams
  <1>22. CASE DeltaOts
    BY <1>22 DEF DeltaOts, streams
  <1>23. CASE ServerCancelledLate
    BY <1>23 DEF ServerCancelledLate, ServerFails, client
  <1>24. CASE OpenClientOt \/ OpenServerOt
    <2>1. UNCHANGED <<client, server, streams, ots, cancelled>>
      BY <1>24 DEF OpenClientOt, OpenServerOt
    <2> QED
      BY <2>1 DEF client, server, streams
  <1> QED
    BY <1>1, <1>2, <1>3, <1>4, <1>5, <1>6, <1>7, <1>8, <1>9, <1>10, <1>11,
       <1>12, <1>13, <1>14, <1>15, <1>16, <1>17, <1>18, <1>19, <1>20, <1>21, <1>22, <1>23, <1>24
       DEF Next

(* Sides that agree do not fail each other.                                *)
LEMMA KeepCleanInv == ASSUME Types, OtInv, HelloInv, CommitInv, CleanInv, Next PROVE CleanInv'
  <1> USE StreamFacts
      DEF Types, OtInv, HelloInv, CommitInv, CleanInv, evaluations_for,
          ClientBefore, ClientAfter, ServerBefore, ServerAfter
  <1>1. CASE SendHello
    <2>1. /\ cpc = "start"
          /\ \/ /\ cpc' = "failed" /\ hello' = hello /\ copened' = copened
                /\ cerr' \in {"ZeroTau", "VoprfTauTooSmall"}
             \/ /\ cpc' = "echo" /\ copened' = copened + 3 /\ hello' = Greeting
                /\ ctau > 0 /\ (cvoprf => evaluations_for(ctau) > 0) /\ cerr' = cerr
          /\ UNCHANGED <<ctau, cvoprf, cc, cd, server, control, masks, pads, proofs, ots, cancelled>>
      BY <1>1 DEF SendHello, ClientFails, Greeting
    <2> QED
      BY <2>1 DEF server
  <1>2. CASE RecvEcho
    BY <1>2 DEF RecvEcho, ClientFails, server
  <1>3. CASE SendMasks
    BY <1>3 DEF SendMasks, server
  <1>4. CASE MasksSent
    BY <1>4 DEF MasksSent, server, streams
  <1>5. CASE RecvPads
    BY <1>5 DEF RecvPads, ClientFails, server
  <1>6. CASE RecvBhat
    BY <1>6 DEF RecvBhat, server
  <1>7. CASE Finish
    BY <1>7 DEF Finish, ClientFails, server
  <1>8. CASE ServerClosed
    BY <1>8 DEF ServerClosed, ClientFails, server, streams
  <1>9. CASE ClientCancelled
    BY <1>9 DEF ClientCancelled, ClientFails, ClientEnded, server, streams
  <1>10. CASE OpenServer
    BY <1>10 DEF OpenServer, ServerFails, client, streams
  <1>11. CASE RecvHello
    BY <1>11 DEF RecvHello, client
  <1>12. CASE CheckTau
    BY <1>12 DEF CheckTau, ServerFails, client, streams
  <1>13. CASE RecvMasks
    BY <1>13 DEF RecvMasks, client
  <1>14. CASE MasksReceived
    BY <1>14 DEF MasksReceived, ServerFails, client, streams
  <1>15. CASE SendPads
    BY <1>15 DEF SendPads, client
  <1>16. CASE PadsSent
    BY <1>16 DEF PadsSent, client, streams
  <1>17. CASE SendBhat
    BY <1>17 DEF SendBhat, client
  <1>18. CASE Prove
    BY <1>18 DEF Prove, client
  <1>19. CASE ClientClosed
    BY <1>19 DEF ClientClosed, ServerFails, client, streams
  <1>20. CASE ServerCancelled
    BY <1>20 DEF ServerCancelled, ServerFails, ServerEnded, client, streams
  <1>21. CASE BinaryOts
    BY <1>21 DEF BinaryOts, streams
  <1>22. CASE DeltaOts
    BY <1>22 DEF DeltaOts, streams
  <1>23. CASE ServerCancelledLate
    BY <1>23 DEF ServerCancelledLate, ServerFails, client
  <1>24. CASE OpenClientOt \/ OpenServerOt
    <2>1. UNCHANGED <<client, server, streams, ots, cancelled>>
      BY <1>24 DEF OpenClientOt, OpenServerOt
    <2> QED
      BY <2>1 DEF client, server, streams
  <1> QED
    BY <1>1, <1>2, <1>3, <1>4, <1>5, <1>6, <1>7, <1>8, <1>9, <1>10, <1>11,
       <1>12, <1>13, <1>14, <1>15, <1>16, <1>17, <1>18, <1>19, <1>20, <1>21, <1>22, <1>23, <1>24
       DEF Next

(* The streams that each side opens are counted by where it is.            *)
LEMMA KeepOpenInv == ASSUME Types, OtInv, HelloInv, OpenInv, Next PROVE OpenInv'
  <1> USE StreamFacts
      DEF Types, OtInv, HelloInv, OpenInv, evaluations_for,
          ClientBefore, ClientAfter, ServerBefore, ServerAfter
  <1>1. CASE SendHello
    BY <1>1 DEF SendHello, ClientFails, server
  <1>2. CASE RecvEcho
    BY <1>2 DEF RecvEcho, ClientFails, server
  <1>3. CASE SendMasks
    BY <1>3 DEF SendMasks, server
  <1>4. CASE MasksSent
    BY <1>4 DEF MasksSent, server, streams
  <1>5. CASE RecvPads
    BY <1>5 DEF RecvPads, ClientFails, server
  <1>6. CASE RecvBhat
    BY <1>6 DEF RecvBhat, server
  <1>7. CASE Finish
    BY <1>7 DEF Finish, ClientFails, server
  <1>8. CASE ServerClosed
    BY <1>8 DEF ServerClosed, ClientFails, server, streams
  <1>9. CASE ClientCancelled
    BY <1>9 DEF ClientCancelled, ClientFails, ClientEnded, server, streams
  <1>10. CASE OpenServer
    BY <1>10 DEF OpenServer, ServerFails, client, streams
  <1>11. CASE RecvHello
    BY <1>11 DEF RecvHello, client
  <1>12. CASE CheckTau
    BY <1>12 DEF CheckTau, ServerFails, client, streams
  <1>13. CASE RecvMasks
    BY <1>13 DEF RecvMasks, client
  <1>14. CASE MasksReceived
    BY <1>14 DEF MasksReceived, ServerFails, client, streams
  <1>15. CASE SendPads
    BY <1>15 DEF SendPads, client
  <1>16. CASE PadsSent
    BY <1>16 DEF PadsSent, client, streams
  <1>17. CASE SendBhat
    BY <1>17 DEF SendBhat, client
  <1>18. CASE Prove
    BY <1>18 DEF Prove, client
  <1>19. CASE ClientClosed
    BY <1>19 DEF ClientClosed, ServerFails, client, streams
  <1>20. CASE ServerCancelled
    BY <1>20 DEF ServerCancelled, ServerFails, ServerEnded, client, streams
  <1>21. CASE BinaryOts
    BY <1>21 DEF BinaryOts, streams
  <1>22. CASE DeltaOts
    BY <1>22 DEF DeltaOts, streams
  <1>23. CASE ServerCancelledLate
    BY <1>23 DEF ServerCancelledLate, ServerFails, client
  <1>24. CASE OpenClientOt \/ OpenServerOt
    <2>1. UNCHANGED <<client, server, streams, ots, cancelled>>
      BY <1>24 DEF OpenClientOt, OpenServerOt
    <2> QED
      BY <2>1 DEF client, server, streams
  <1> QED
    BY <1>1, <1>2, <1>3, <1>4, <1>5, <1>6, <1>7, <1>8, <1>9, <1>10, <1>11,
       <1>12, <1>13, <1>14, <1>15, <1>16, <1>17, <1>18, <1>19, <1>20, <1>21, <1>22, <1>23, <1>24
       DEF Next

(* A disagreement ends in TauMismatch, before any OT.                      *)
LEMMA KeepMismatchReported == ASSUME Types, OtInv, HelloInv, MismatchReported, Next PROVE MismatchReported'
  <1> USE StreamFacts
      DEF Types, OtInv, HelloInv, MismatchReported, evaluations_for,
          ClientBefore, ClientAfter, ServerBefore, ServerAfter
  <1>1. CASE SendHello
    <2>1. /\ cpc = "start"
          /\ \/ /\ cpc' = "failed" /\ hello' = hello /\ copened' = copened
                /\ cerr' \in {"ZeroTau", "VoprfTauTooSmall"}
             \/ /\ cpc' = "echo" /\ copened' = copened + 3 /\ hello' = Greeting
                /\ ctau > 0 /\ (cvoprf => evaluations_for(ctau) > 0) /\ cerr' = cerr
          /\ UNCHANGED <<ctau, cvoprf, cc, cd, server, control, masks, pads, proofs, ots, cancelled>>
      BY <1>1 DEF SendHello, ClientFails, Greeting
    <2> QED
      BY <2>1 DEF server
  <1>2. CASE RecvEcho
    BY <1>2 DEF RecvEcho, ClientFails, server
  <1>3. CASE SendMasks
    BY <1>3 DEF SendMasks, server
  <1>4. CASE MasksSent
    BY <1>4 DEF MasksSent, server, streams
  <1>5. CASE RecvPads
    BY <1>5 DEF RecvPads, ClientFails, server
  <1>6. CASE RecvBhat
    BY <1>6 DEF RecvBhat, server
  <1>7. CASE Finish
    BY <1>7 DEF Finish, ClientFails, server
  <1>8. CASE ServerClosed
    BY <1>8 DEF ServerClosed, ClientFails, server, streams
  <1>9. CASE ClientCancelled
    BY <1>9 DEF ClientCancelled, ClientFails, ClientEnded, server, streams
  <1>10. CASE OpenServer
    BY <1>10 DEF OpenServer, ServerFails, client, streams
  <1>11. CASE RecvHello
    BY <1>11 DEF RecvHello, client
  <1>12. CASE CheckTau
    BY <1>12 DEF CheckTau, ServerFails, client, streams
  <1>13. CASE RecvMasks
    BY <1>13 DEF RecvMasks, client
  <1>14. CASE MasksReceived
    BY <1>14 DEF MasksReceived, ServerFails, client, streams
  <1>15. CASE SendPads
    BY <1>15 DEF SendPads, client
  <1>16. CASE PadsSent
    BY <1>16 DEF PadsSent, client, streams
  <1>17. CASE SendBhat
    BY <1>17 DEF SendBhat, client
  <1>18. CASE Prove
    BY <1>18 DEF Prove, client
  <1>19. CASE ClientClosed
    BY <1>19 DEF ClientClosed, ServerFails, client, streams
  <1>20. CASE ServerCancelled
    BY <1>20 DEF ServerCancelled, ServerFails, ServerEnded, client, streams
  <1>21. CASE BinaryOts
    BY <1>21 DEF BinaryOts, streams
  <1>22. CASE DeltaOts
    BY <1>22 DEF DeltaOts, streams
  <1>23. CASE ServerCancelledLate
    BY <1>23 DEF ServerCancelledLate, ServerFails, client
  <1>24. CASE OpenClientOt \/ OpenServerOt
    <2>1. UNCHANGED <<client, server, streams, ots, cancelled>>
      BY <1>24 DEF OpenClientOt, OpenServerOt
    <2> QED
      BY <2>1 DEF client, server, streams
  <1> QED
    BY <1>1, <1>2, <1>3, <1>4, <1>5, <1>6, <1>7, <1>8, <1>9, <1>10, <1>11,
       <1>12, <1>13, <1>14, <1>15, <1>16, <1>17, <1>18, <1>19, <1>20, <1>21, <1>22, <1>23, <1>24
       DEF Next

(* Init establishes the invariant.                                         *)
LEMMA PreprocInit == Init => Inv
  <1> SUFFICES ASSUME Init PROVE Inv
    OBVIOUS
  <1>1. /\ Len(hello) = 0 /\ Len(control) = 0 /\ Len(masks) = 0 /\ Len(pads) = 0 /\ Len(proofs) = 0
        /\ Len(sc) = 0
    BY DEF Init
  <1>2. Types
    <2>1. /\ hello \in Seq([tau : Nat, voprf : BOOLEAN]) /\ control \in Seq(Nat) /\ masks \in Seq(Nat)
          /\ pads \in Seq(Nat) /\ proofs \in Seq(Nat) /\ sc \in Seq(Nat)
      BY EmptySeq DEF Init
    <2>2. ctau \in Nat /\ stau \in Nat
      BY PreprocAssumption DEF Init
    <2>3. cvoprf \in BOOLEAN /\ svoprf \in BOOLEAN /\ cancelled \in BOOLEAN
      BY DEF Init
    <2>4. /\ cpc \in ClientBefore /\ spc \in ServerBefore /\ ots \in 0 .. 2
          /\ cc \in Nat /\ cd \in Nat /\ sd \in Nat /\ copened \in Nat /\ sopened \in Nat /\ stheirs \in Nat
      BY DEF Init, ClientBefore, ServerBefore
    <2> QED
      BY <2>1, <2>2, <2>3, <2>4 DEF Types
  <1>3. OtInv /\ EndInv /\ CleanInv /\ OpenInv /\ MismatchReported
    BY DEF Init, OtInv, EndInv, CleanInv, OpenInv, MismatchReported,
       ClientBefore, ClientAfter, ServerBefore, ServerAfter
  <1>4. HelloInv
    BY <1>1 DEF Init, HelloInv
  <1>5. CommitInv
    BY <1>1 DEF Init, CommitInv, ServerAfter
  <1> QED
    BY <1>2, <1>3, <1>4, <1>5 DEF Inv

(* Every step keeps the invariant.                                         *)
LEMMA PreprocNext == Inv /\ [Next]_vars => Inv'
  <1>1. Inv /\ UNCHANGED vars => Inv'
    BY DEF Inv, Types, OtInv, HelloInv, CommitInv, EndInv, CleanInv, OpenInv, MismatchReported,
       ClientBefore, ClientAfter, ServerBefore, ServerAfter, evaluations_for,
       vars, client, server, streams
  <1>2. ASSUME Inv, Next PROVE Inv'
    BY <1>2, KeepTypes, KeepOtInv, KeepHelloInv, KeepCommitInv, KeepEndInv, KeepCleanInv, KeepOpenInv,
       KeepMismatchReported DEF Inv
  <1> QED
    BY <1>1, <1>2

(* A client that has its state shares it with a server that got to the end *)
(* with the same number of runs and the same mode.                         *)
THEOREM PreprocAgreement == Spec => []Agreement
  <1>1. Inv => Agreement
    BY DEF Inv, OtInv, HelloInv, CommitInv, EndInv, Agreement, ClientAfter
  <1> QED
    BY PreprocInit, PreprocNext, <1>1, PTL DEF Spec

(* Two sides that ask for different numbers of runs both say so, and no OT *)
(* runs.                                                                   *)
THEOREM PreprocMismatch == Spec => []MismatchReported
  <1>1. Inv => MismatchReported
    BY DEF Inv
  <1> QED
    BY PreprocInit, PreprocNext, <1>1, PTL DEF Spec

(* Both sides opened the same streams when both ended and nobody was       *)
(* cancelled, so that the next ones pair up again.                         *)
THEOREM PreprocStreams == Spec => []StreamsInStep
  <1>1. Inv => StreamsInStep
    <2> SUFFICES ASSUME Inv, ~cancelled, ClientEnded, ServerEnded, copened > 0, sopened > 0
                 PROVE  copened = sopened
      BY DEF StreamsInStep
    <2>1. CASE ctau = stau
      <3>1. cpc = "ready" /\ spc = "ready"
        BY <2>1 DEF Inv, CleanInv, ClientEnded, ServerEnded
      <3>2. svoprf = cvoprf
        BY <3>1 DEF Inv, HelloInv
      <3> QED
        BY <3>1, <3>2 DEF Inv, OpenInv
    <2>2. CASE ctau # stau
      BY <2>2 DEF Inv, OpenInv
    <2> QED
      BY <2>1, <2>2
  <1> QED
    BY PreprocInit, PreprocNext, <1>1, PTL DEF Spec

(* Nobody fails who asked for what the other asked for and is not          *)
(* cancelled: the order of hello and echo, of the commitments and of the   *)
(* sums never makes a side refuse what the other sent.                     *)
THEOREM PreprocSucceeds == Spec => []CleanInv
  <1>1. Inv => CleanInv
    BY DEF Inv
  <1> QED
    BY PreprocInit, PreprocNext, <1>1, PTL DEF Spec

----------------------------------------------------------------------------
(***************************************************************************)
(* The refinement of Renewal.  Its exchange is the second batch of OTs,    *)
(* its last message the server's last one in either mode; what each side   *)
(* returns is what it returns here.  All other steps are stutters.         *)
(***************************************************************************)

\* Before the second batch of OTs no last message left.
LEMMA SentLater ==
    ASSUME ots # 2
    PROVE  LastSent = FALSE
BY DEF LastSent

\* A step that neither puts the last message on its stream nor takes it from there.
LEMMA SentFrame ==
    ASSUME UNCHANGED <<svoprf, control, proofs, ots>>,
           cpc' = "ready" <=> cpc = "ready", spc' = "ready" <=> spc = "ready"
    PROVE  LastSent' = LastSent
BY DEF LastSent

\* What Renewal sees of a state changes only with the results, the OTs and the last message.
LEMMA RenewalFrame ==
    ASSUME UNCHANGED <<ctau, stau>>, (ots' = 2) = (ots = 2), LastSent' = LastSent,
           Result(cpc', cerr') = Result(cpc, cerr), Result(spc', serr') = Result(spc, serr)
    PROVE  UNCHANGED Renewed!vars
BY DEF Renewed!vars

\* A side that fails says TauMismatch only when the two asked for different numbers of runs.
LEMMA RenewalClientFails ==
    ASSUME ~ClientEnded, cpc' = "failed", cerr' = "TauMismatch" => ctau # stau,
           UNCHANGED <<ctau, stau, server, ots>>, LastSent' = LastSent
    PROVE  Renewed!Next
<1>1. Result(cpc, cerr) = "none" /\ Result(spc', serr') = Result(spc, serr)
  BY DEF Result, ClientEnded, server
<1>2. CASE cerr' = "TauMismatch"
  <2>1. Result(cpc', cerr') = "mismatch"
    BY <1>2 DEF Result
  <2> QED BY <1>1, <1>2, <2>1 DEF Renewed!Next, Renewed!ClientMismatch
<1>3. CASE cerr' # "TauMismatch"
  <2>1. Result(cpc', cerr') = "failed"
    BY <1>3 DEF Result
  <2> QED BY <1>1, <2>1 DEF Renewed!Next, Renewed!ClientFails
<1> QED BY <1>2, <1>3

LEMMA RenewalServerFails ==
    ASSUME ~ServerEnded, spc' = "failed", serr' = "TauMismatch" => ctau # stau,
           UNCHANGED <<ctau, stau, cpc, cerr, ots>>, LastSent' = LastSent
    PROVE  Renewed!Next
<1>1. Result(spc, serr) = "none" /\ Result(cpc', cerr') = Result(cpc, cerr)
  BY DEF Result, ServerEnded
<1>2. CASE serr' = "TauMismatch"
  <2>1. Result(spc', serr') = "mismatch"
    BY <1>2 DEF Result
  <2> QED BY <1>1, <1>2, <2>1 DEF Renewed!Next, Renewed!ServerMismatch
<1>3. CASE serr' # "TauMismatch"
  <2>1. Result(spc', serr') = "failed"
    BY <1>3 DEF Result
  <2> QED BY <1>1, <2>1 DEF Renewed!Next, Renewed!ServerFails
<1> QED BY <1>2, <1>3

\* A step on the way of either side changes no result.
LEMMA RenewalStutters ==
    ASSUME ~ClientEnded, cpc' \notin {"ready", "failed"}, UNCHANGED <<ctau, stau, spc, serr, ots>>,
           LastSent' = LastSent
    PROVE  UNCHANGED Renewed!vars
<1>1. Result(cpc, cerr) = "none" /\ Result(cpc', cerr') = "none" /\ Result(spc', serr') = Result(spc, serr)
  BY DEF Result, ClientEnded
<1> QED BY <1>1, RenewalFrame

LEMMA RenewalServerStutters ==
    ASSUME ~ServerEnded, spc' \notin {"ready", "failed"}, UNCHANGED <<ctau, stau, cpc, cerr, ots>>,
           LastSent' = LastSent
    PROVE  UNCHANGED Renewed!vars
<1>1. Result(spc, serr) = "none" /\ Result(spc', serr') = "none" /\ Result(cpc', cerr') = Result(cpc, cerr)
  BY DEF Result, ServerEnded
<1> QED BY <1>1, RenewalFrame

\* The client has its state: the last message was there to be read.
LEMMA RenewalClientReturns ==
    ASSUME LastSent, ~ClientEnded, cpc' = "ready", UNCHANGED <<ctau, stau, server, ots>>
    PROVE  Renewed!Next
<1>1. ots = 2 /\ LastSent'
  BY DEF LastSent
<1>2. Result(cpc, cerr) = "none" /\ Result(cpc', cerr') = "state" /\ Result(spc', serr') = Result(spc, serr)
  BY DEF Result, ClientEnded, server
<1>3. LastSent' = LastSent
  BY <1>1
<1> QED BY <1>2, <1>3 DEF Renewed!Next, Renewed!ClientReturns

(* The client's steps.                                                     *)
LEMMA RenewalClientSteps ==
    ASSUME Inv,
           \/ SendHello \/ RecvEcho \/ SendMasks \/ MasksSent \/ RecvPads \/ RecvBhat \/ Finish
           \/ ServerClosed \/ ClientCancelled
    PROVE  Renewed!Next \/ UNCHANGED Renewed!vars
<1>1. CASE SendHello
  <2>1. /\ cpc = "start" /\ ots # 2 /\ ots' # 2
    BY <1>1 DEF SendHello, Inv, OtInv, ClientBefore
  <2>2. LastSent' = LastSent /\ ~ClientEnded
    BY <2>1 DEF LastSent, ClientEnded
  <2>3. UNCHANGED <<ctau, stau, server, ots, spc, serr>>
    BY <1>1 DEF SendHello, server
  <2>4. (cpc' = "failed" /\ cerr' # "TauMismatch") \/ cpc' = "echo"
    BY <1>1 DEF SendHello, ClientFails
  <2> QED BY <2>2, <2>3, <2>4, RenewalClientFails, RenewalStutters
<1>2. CASE RecvEcho
  <2>1. /\ cpc = "echo" /\ ots # 2 /\ ots' # 2
    BY <1>2 DEF RecvEcho, Inv, OtInv, ClientBefore
  <2>2. LastSent' = LastSent /\ ~ClientEnded
    BY <2>1 DEF LastSent, ClientEnded
  <2>3. UNCHANGED <<ctau, stau, server, ots, spc, serr>>
    BY <1>2 DEF RecvEcho, server
  <2>4. Head(control) = stau
    <3>1. Len(control) # 0 /\ Head(control) = control[1]
      BY <1>2, TakeFirst DEF RecvEcho, Inv, Types
    <3> QED BY <2>1, <3>1 DEF Inv, HelloInv
  <2>5. (cpc' = "failed" /\ ctau # stau) \/ cpc' = "binary"
    BY <1>2, <2>4 DEF RecvEcho, ClientFails
  <2> QED BY <2>2, <2>3, <2>5, RenewalClientFails, RenewalStutters
<1>3. CASE SendMasks \/ MasksSent
  <2>1. /\ cpc \in {"masks", "delta"} /\ cpc' \in {"masks", "delta"}
        /\ UNCHANGED <<ctau, stau, server, ots, spc, serr, svoprf, control, proofs>>
    BY <1>3 DEF SendMasks, MasksSent, server, streams
  <2>2. LastSent' = LastSent /\ ~ClientEnded
    BY <2>1, SentFrame DEF ClientEnded
  <2> QED BY <2>1, <2>2, RenewalStutters
<1>4. CASE RecvPads
  <2>1. /\ cpc = "pads" /\ ((cpc' = "failed" /\ cerr' # "TauMismatch") \/ cpc' = cpc)
        /\ UNCHANGED <<ctau, stau, server, ots, spc, serr, svoprf, control, proofs>>
    BY <1>4 DEF RecvPads, ClientFails, server
  <2>2. LastSent' = LastSent /\ ~ClientEnded
    BY <2>1, SentFrame DEF ClientEnded
  <2> QED BY <2>1, <2>2, RenewalClientFails, RenewalStutters
<1>5. CASE RecvBhat
  <2>1. /\ cpc = "pads" /\ ots = 2 /\ svoprf = cvoprf /\ control # <<>>
        /\ cpc' = (IF cvoprf THEN "proof" ELSE "ready")
        /\ UNCHANGED <<ctau, stau, server, ots, spc, serr, svoprf, proofs>>
    BY <1>5 DEF RecvBhat, server, Inv, OtInv, HelloInv, ClientAfter
  <2>2. ~ClientEnded
    BY <2>1 DEF ClientEnded
  <2>3. CASE cvoprf
    <3>1. LastSent' = LastSent
      BY <2>1, <2>3 DEF LastSent
    <3>2. cpc' \notin {"ready", "failed"}
      BY <2>1, <2>3
    <3> QED BY <2>1, <2>2, <3>1, <3>2, RenewalStutters
  <2>4. CASE ~cvoprf
    <3>1. LastSent /\ cpc' = "ready"
      BY <2>1, <2>4 DEF LastSent
    <3> QED BY <2>1, <2>2, <3>1, RenewalClientReturns
  <2> QED BY <2>3, <2>4
<1>6. CASE Finish
  <2>1. /\ cpc = "proof" /\ cvoprf /\ ots = 2 /\ svoprf = cvoprf /\ proofs # <<>>
        /\ UNCHANGED <<ctau, stau, server, ots, spc, serr>>
    BY <1>6 DEF Finish, server, Inv, OtInv, HelloInv, CommitInv, ClientAfter
  <2>2. LastSent /\ ~ClientEnded
    BY <2>1 DEF LastSent, ClientEnded
  <2>3. Head(proofs) = evaluations_for(ctau)
    <3>1. Len(proofs) # 0 /\ Head(proofs) = proofs[1]
      BY <2>1, TakeFirst DEF Inv, Types
    <3>2. stau = ctau
      BY <2>1 DEF Inv, OtInv
    <3> QED BY <3>1, <3>2 DEF Inv, CommitInv
  <2>4. cpc' = "ready"
    BY <1>6, <2>3 DEF Finish
  <2> QED BY <2>1, <2>2, <2>4, RenewalClientReturns
<1>7. CASE ServerClosed \/ ClientCancelled
  <2>1. /\ ~ClientEnded /\ cpc' = "failed" /\ cerr' # "TauMismatch"
        /\ UNCHANGED <<ctau, stau, server, ots, spc, svoprf, control, proofs>>
    BY <1>7 DEF ServerClosed, ClientCancelled, ClientFails, ClientEnded, server, streams
  <2>2. LastSent' = LastSent
    BY <2>1, SentFrame DEF ClientEnded
  <2> QED BY <2>1, <2>2, RenewalClientFails
<1> QED BY <1>1, <1>2, <1>3, <1>4, <1>5, <1>6, <1>7

(* The server's steps.                                                     *)
LEMMA RenewalServerSteps ==
    ASSUME Inv,
           \/ OpenServer \/ RecvHello \/ CheckTau \/ RecvMasks \/ MasksReceived \/ SendPads \/ PadsSent
           \/ SendBhat \/ Prove \/ ClientClosed \/ ServerCancelled \/ ServerCancelledLate
    PROVE  Renewed!Next \/ UNCHANGED Renewed!vars
<1>1. CASE OpenServer \/ RecvHello \/ CheckTau
  <2>1. /\ spc \in {"start", "hello", "check"} /\ ots # 2 /\ ots' = ots
        /\ UNCHANGED <<ctau, stau, cpc, cerr, ots>>
    BY <1>1 DEF OpenServer, RecvHello, CheckTau, client, Inv, OtInv, ServerBefore
  <2>2. LastSent' = LastSent /\ ~ServerEnded
    BY <2>1 DEF LastSent, ServerEnded
  <2>3. \/ spc' \in {"hello", "check", "binary"}
        \/ spc' = "failed" /\ (serr' = "TauMismatch" => ctau # stau)
    BY <1>1 DEF OpenServer, RecvHello, CheckTau, ServerFails, Inv, HelloInv
  <2> QED BY <2>1, <2>2, <2>3, RenewalServerFails, RenewalServerStutters
<1>2. CASE RecvMasks \/ MasksReceived \/ SendPads \/ PadsSent
  <2>1. /\ spc \in {"masks", "pads"}
        /\ spc' \in {"masks", "delta", "pads", "bhat"} \/ (spc' = "failed" /\ serr' # "TauMismatch")
        /\ UNCHANGED <<ctau, stau, cpc, cerr, ots, svoprf, control, proofs>>
    BY <1>2 DEF RecvMasks, MasksReceived, SendPads, PadsSent, ServerFails, client, streams
  <2>2. LastSent' = LastSent /\ ~ServerEnded
    BY <2>1, SentFrame DEF ServerEnded
  <2> QED BY <2>1, <2>2, RenewalServerFails, RenewalServerStutters
<1>3. CASE ClientClosed \/ ServerCancelled
  <2>1. /\ ~ServerEnded /\ spc' = "failed" /\ serr' # "TauMismatch"
        /\ UNCHANGED <<ctau, stau, cpc, cerr, ots, svoprf, control, proofs>>
    BY <1>3 DEF ClientClosed, ServerCancelled, ServerFails, ServerEnded, client, streams
  <2>2. LastSent' = LastSent
    BY <2>1, SentFrame DEF ServerEnded
  <2> QED BY <2>1, <2>2, RenewalServerFails
<1>4. CASE SendBhat /\ svoprf
  <2>1. /\ spc = "bhat" /\ spc' = "prove" /\ svoprf
        /\ UNCHANGED <<ctau, stau, cpc, cerr, ots, svoprf, proofs>>
    BY <1>4 DEF SendBhat, client
  <2>2. LastSent' = LastSent /\ ~ServerEnded
    BY <2>1 DEF LastSent, ServerEnded
  <2> QED BY <2>1, <2>2, RenewalServerStutters
<1>5. CASE (SendBhat /\ ~svoprf) \/ Prove
  <2>1. /\ spc \in {"bhat", "prove"} /\ spc' = "ready" /\ ots = 2
        /\ UNCHANGED <<ctau, stau, cpc, cerr, ots>>
    BY <1>5 DEF SendBhat, Prove, client, Inv, OtInv, ServerAfter
  <2>2. /\ Result(spc, serr) = "none" /\ Result(spc', serr') = "state"
        /\ Result(cpc', cerr') = Result(cpc, cerr)
    BY <2>1 DEF Result
  <2>3. LastSent' = TRUE
    BY <2>1 DEF LastSent
  <2> QED BY <2>1, <2>2, <2>3 DEF Renewed!Next, Renewed!ServerReturns
<1>6. CASE ServerCancelledLate
  <2>1. /\ spc \in {"bhat", "prove"} /\ spc' = "failed" /\ serr' = "cancelled" /\ ots = 2
        /\ UNCHANGED <<ctau, stau, cpc, cerr, ots, svoprf>>
    BY <1>6 DEF ServerCancelledLate, ServerFails, client, Inv, OtInv, ServerAfter
  <2>2. /\ Result(spc, serr) = "none" /\ Result(spc', serr') = "failed"
        /\ Result(cpc', cerr') = Result(cpc, cerr)
    BY <2>1 DEF Result
  <2>3. (IF svoprf THEN proofs' ELSE control') # <<>>
    <3>1. Append(control, stau) # <<>> /\ Append(proofs, Len(sc)) # <<>>
      <4>1. /\ control \in Seq(Nat) /\ proofs \in Seq(Nat) /\ stau \in Nat /\ Len(sc) \in Nat
        BY StreamFacts DEF Inv, Types
      <4>2. /\ Len(Append(control, stau)) = Len(control) + 1 /\ Len(control) \in Nat
            /\ Len(Append(proofs, Len(sc))) = Len(proofs) + 1 /\ Len(proofs) \in Nat
        BY <4>1, PutLast
      <4>3. Len(<<>>) = 0
        OBVIOUS
      <4>4. Len(Append(control, stau)) # Len(<<>>) /\ Len(Append(proofs, Len(sc))) # Len(<<>>)
        BY <4>2, <4>3
      <4> QED BY <4>4, Zenon
    <3>2. spc = "prove" => svoprf
      BY DEF Inv, CommitInv
    <3> QED BY <1>6, <3>1, <3>2 DEF ServerCancelledLate
  <2>4. LastSent' = TRUE
    BY <2>1, <2>3 DEF LastSent
  <2> QED BY <2>1, <2>2, <2>4 DEF Renewed!Next, Renewed!ServerFails
<1> QED BY <1>1, <1>2, <1>3, <1>4, <1>5, <1>6

(* Opening the streams of the OTs is unseen.                               *)
LEMMA RenewalOpens ==
    ASSUME OpenClientOt \/ OpenServerOt
    PROVE  UNCHANGED Renewed!vars
<1>1. UNCHANGED <<client, server, streams, ots>>
  BY DEF OpenClientOt, OpenServerOt
<1> QED BY <1>1 DEF client, server, streams, Renewed!vars, Result, LastSent

(* The OTs, of which the second batch is the exchange.                     *)
LEMMA RenewalOts ==
    ASSUME Inv, BinaryOts \/ DeltaOts
    PROVE  Renewed!Next \/ UNCHANGED Renewed!vars
<1>1. /\ cpc \in {"binary", "delta"} /\ spc \in {"binary", "delta"} /\ ots # 2
      /\ cpc' \in {"masks", "pads"} /\ spc' \in {"masks", "pads"}
      /\ UNCHANGED <<ctau, stau, cerr, serr, svoprf, control, proofs>>
  BY DEF BinaryOts, DeltaOts, streams, Inv, OtInv, ClientBefore
<1>2. /\ Result(cpc, cerr) = "none" /\ Result(cpc', cerr') = "none"
      /\ Result(spc, serr) = "none" /\ Result(spc', serr') = "none"
  BY <1>1 DEF Result
<1>3. LastSent = FALSE
  BY <1>1, SentLater
<1>4. CASE BinaryOts
  <2>1. ots' = 1
    BY <1>4 DEF BinaryOts
  <2>2. LastSent' = FALSE
    BY <2>1 DEF LastSent
  <2>3. (ots' = 2) = (ots = 2)
    BY <1>1, <2>1
  <2>4. LastSent' = LastSent
    BY <1>3, <2>2
  <2>5. Result(cpc', cerr') = Result(cpc, cerr) /\ Result(spc', serr') = Result(spc, serr)
    BY <1>2
  <2> QED BY <1>1, <2>3, <2>4, <2>5, RenewalFrame
<1>5. CASE DeltaOts
  <2>1. ots = 1 /\ ots' = 2 /\ ctau = stau /\ control = <<>> /\ proofs = <<>>
    <3>1. cpc = "delta" /\ spc = "delta" /\ ots' = 2
      BY <1>5 DEF DeltaOts
    <3>2. ots = 1 /\ ctau = stau /\ Len(control) = 0 /\ Len(proofs) = 0
      BY <3>1, StreamFacts DEF Inv, OtInv, HelloInv, CommitInv
    <3> QED BY <3>1, <3>2, StreamFacts DEF Inv
  <2>2. LastSent' = FALSE
    BY <1>1, <2>1 DEF LastSent
  <2> QED BY <1>1, <1>2, <1>3, <2>1, <2>2 DEF Renewed!Next, Renewed!Exchange
<1> QED BY <1>4, <1>5

(* Preprocessing implements Renewal: through hello and echo, the OTs and a *)
(* VOPRF's commitments and proof, each side's result comes as Renewal says,*)
(* whichever side fails or is cancelled, also with the last message on its *)
(* way.                                                                    *)
THEOREM PreprocImplementsRenewal == Spec => ImplementsRenewal
<1>1. Init => Renewed!Init
  <2> SUFFICES ASSUME Init PROVE Renewed!Init
    OBVIOUS
  <2>1. ctau \in Nat /\ stau \in Nat
    BY PreprocAssumption DEF Init
  <2>2. Result(cpc, cerr) = "none" /\ Result(spc, serr) = "none" /\ ots # 2
    BY DEF Init, Result
  <2> QED BY <2>1, <2>2, SentLater DEF Renewed!Init
<1>2. Inv /\ [Next]_vars => [Renewed!Next]_(Renewed!vars)
  <2>1. ASSUME Inv, Next PROVE Renewed!Next \/ UNCHANGED Renewed!vars
    BY <2>1, RenewalClientSteps, RenewalServerSteps, RenewalOpens, RenewalOts DEF Next
  <2>2. ASSUME UNCHANGED vars PROVE UNCHANGED Renewed!vars
    BY <2>2 DEF vars, client, server, streams, Renewed!vars, Result, LastSent
  <2> QED BY <2>1, <2>2
<1>3. Spec => []Inv
  BY PreprocInit, PreprocNext, PTL DEF Spec
<1> QED BY <1>1, <1>2, <1>3, PTL DEF Spec, ImplementsRenewal, Renewed!Spec
=============================================================================
