---------------------------- MODULE MCEvaluation ----------------------------
(* Evaluation with p = 2 and DELTA = 4: two calls of two runs, binary OTs  *)
(* rounded up on both sides, and a mixing function for the hashes.         *)
EXTENDS Evaluation

MCKeys        == [Coords -> Bit]
MCBinaryCoins == {[i \in 0 .. BINARY_OT_COUNT - 1 |-> bit(x, i)] : x \in {0, 3, 5, 6}}
MCDeltaCoins  ==
    {[i \in 0 .. required_binary_ot_count(Tau) - 1 |-> bit((c + s * (i \div LOG_DELTA)) % DELTA, i % LOG_DELTA)] :
        c \in Zdelta, s \in {0, 1}}
MCCalls       == [tag : {<<1>>, <<1, 2>>}, input : {<<3>>, <<2, 3>>}]

MCXof(seed, position) ==
    LET h == seed.hashed
        x == IF seed.domain = "mask" THEN 3 * h.ot + 5 * h.bit + 1
             ELSE Partial([i \in DOMAIN h |-> i * h[i]], Len(h))
    IN  (((x * x + 7 * position + 3) * (x + 2 * position + 1)) \div 5) % 256
MCLead(block) ==
    Partial([i \in 1 .. LOG_DELTA |-> i * block.blocks[i - 1].ot + block.blocks[i - 1].bit], LOG_DELTA)
        + block.choice \div 2
=============================================================================
