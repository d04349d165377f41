------------------------------ MODULE DeltaOt ------------------------------
(***************************************************************************)
(* 1-out-of-DELTA random OT from LOG_DELTA binary ones                     *)
(* (pool-oprf/src/delta_ot.rs).  Indices start at 0, as in the code.       *)
(*                                                                         *)
(* A block of a binary OT is named by the batch, the OT and the bit it     *)
(* belongs to: blocks are random, so two of them are never equal.  A block *)
(* that is a hash is what was hashed.                                      *)
(***************************************************************************)
EXTENDS PoolArith, Sums

CONSTANTS
    LOG_DELTA,
    BASE_OT_COUNT   \* the binary OTs of a batch are a multiple of this

ASSUME DeltaOtAssumption ==
    /\ LOG_DELTA \in Nat \ {0} /\ BASE_OT_COUNT \in Nat \ {0}
    /\ DELTA = Pow2(LOG_DELTA)

ChoiceBits == 0 .. LOG_DELTA - 1

next_multiple_of(n, k) == ((n + k - 1) \div k) * k

required_binary_ot_count(delta_ot_count) == next_multiple_of(LOG_DELTA * delta_ot_count, BASE_OT_COUNT)

\* The bits, least significant first, or'ed into the choice.
choice_from_bits(bits) == FromBits(bits, LOG_DELTA)

derive_ot_block(blocks, choice) == [blocks |-> blocks, choice |-> choice]

select_and_derive_ot_blockBroken(pairs, choice) ==
    derive_ot_block([i \in ChoiceBits |-> pairs[i][bit(choice, LOG_DELTA - 1 - i)]], choice)
select_and_derive_ot_block(pairs, choice) ==
    derive_ot_block([i \in ChoiceBits |-> pairs[i][bit(choice, i)]], choice)

\* as_chunks and take: the first chunks of LOG_DELTA, at most delta_ot_count; the rest is padding.
chunks(items, binary_ot_count, delta_ot_count) ==
    LET whole == binary_ot_count \div LOG_DELTA
    IN  [k \in 0 .. (IF whole < delta_ot_count THEN whole ELSE delta_ot_count) - 1 |->
            [i \in ChoiceBits |-> items[k * LOG_DELTA + i]]]

delta_ot_send(pairs, delta_ot_count) ==
    LET ots == chunks(pairs, required_binary_ot_count(delta_ot_count), delta_ot_count)
    IN  [k \in DOMAIN ots |-> [choice \in Zdelta |-> select_and_derive_ot_block(ots[k], choice)]]

delta_ot_receive(ot_blocks, binary_choices, delta_ot_count) ==
    LET count   == required_binary_ot_count(delta_ot_count)
        bits    == chunks(binary_choices, count, delta_ot_count)
        blocks  == chunks(ot_blocks, count, delta_ot_count)
        choices == [k \in DOMAIN bits |-> choice_from_bits(bits[k])]
    IN  [choices |-> choices,
         blocks  |-> [k \in DOMAIN bits |-> derive_ot_block(blocks[k], choices[k])]]

----------------------------------------------------------------------------
(* External: count binary random OTs (cryprot-ot).  The sender has a pair  *)
(* for each, the receiver one block of each pair, the one of its bit.      *)

OtBlock(batch, i, c) == [batch |-> batch, ot |-> i, bit |-> c]
OtPairs(batch, count) == [i \in 0 .. count - 1 |-> [c \in Bit |-> OtBlock(batch, i, c)]]
OtChosen(batch, choices) == [i \in DOMAIN choices |-> OtBlock(batch, i, choices[i])]
=============================================================================
