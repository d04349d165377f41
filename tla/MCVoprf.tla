------------------------------ MODULE MCVoprf ------------------------------
(* Voprf with two keygens, two calls of two runs, p = 2 and DELTA = 4, and *)
(* the mixing of MCEvaluation for the hashes.                              *)
EXTENDS Voprf

MCKeyOf       == <<<<0, 1>>, <<1, 0>>>>
MCBinaryCoins == {[i \in 0 .. BINARY_OT_COUNT - 1 |-> bit(x, i)] : x \in {1, 3}}
MCDeltaCoins  ==
    {[i \in 0 .. required_binary_ot_count(Tau) - 1 |-> bit((c + i \div LOG_DELTA) % DELTA, i % LOG_DELTA)] :
        c \in {1, 2}}
MCCalls       == {[tag |-> <<1>>, input |-> <<3>>], [tag |-> <<2>>, input |-> <<2, 3>>]}

MCXof(seed, position) ==
    LET h == seed.hashed
        x == IF seed.domain = "mask" THEN 3 * h.ot + 5 * h.bit + 1
             ELSE Partial([i \in DOMAIN h |-> i * h[i]], Len(h))
    IN  (((x * x + 7 * position + 3) * (x + 2 * position + 1)) \div 5) % 256
MCLead(block) ==
    Partial([i \in 1 .. LOG_DELTA |-> i * block.blocks[i - 1].ot + block.blocks[i - 1].bit], LOG_DELTA)
        + block.choice \div 2
=============================================================================
