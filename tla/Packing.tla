------------------------------ MODULE Packing ------------------------------
(***************************************************************************)
(* Bit-packed vectors on the wire (pool-oprf/src/packing.rs): LOG_Q bits   *)
(* for an element, least significant first, across the boundaries of       *)
(* bytes.  A vector travels as its length and its bytes.                   *)
(***************************************************************************)
EXTENDS Sums

CONSTANTS
    LOG_Q,
    ByteBits        \* bits of a byte; fewer than 8 make short vectors cross many boundaries

ASSUME PackingAssumption == LOG_Q \in Nat \ {0} /\ ByteBits \in Nat \ {0}

\* Bytes that len elements take.
PackedSize(len) == (len * LOG_Q + ByteBits - 1) \div ByteBits

\* Bit n of what pack writes: the elements, values[1] first, then zeros up to a whole byte.
writtenBroken(values, len, n) ==
    IF n < len * LOG_Q THEN bit(values[n \div LOG_Q + 1], LOG_Q - 1 - (n % LOG_Q)) ELSE 0
written(values, len, n) ==
    IF n < len * LOG_Q THEN bit(values[n \div LOG_Q + 1], n % LOG_Q) ELSE 0

\* The bytes are indexed from 0.
pack(values, len) ==
    [b \in 0 .. PackedSize(len) - 1 |->
        FromBits([j \in 0 .. ByteBits - 1 |-> written(values, len, b * ByteBits + j)], ByteBits)]

\* unpack ends without a value when size bytes run out before len elements.
RunsOut(size, len) == len * LOG_Q > size * ByteBits

unpack(bytes, len) ==
    LET read(n) == bit(bytes[n \div ByteBits], n % ByteBits)
    IN  [k \in 1 .. len |-> FromBits([i \in 0 .. LOG_Q - 1 |-> read((k - 1) * LOG_Q + i)], LOG_Q)]

serialize(values, len) == [count |-> len, size |-> PackedSize(len), bytes |-> pack(values, len)]

\* Refused: another count, or too few bytes.  Bytes after the last element are not read.
DeserializeOk(message, len) == message.count = len /\ ~RunsOut(message.size, len)

deserialize(message, len) == unpack(message.bytes, len)
=============================================================================
