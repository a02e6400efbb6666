------------------------------ MODULE MCMatter ------------------------------
(* Files of two images for each bank.  A header is two cells and the pack  *)
(* header six; blocks are up to three cells, and the buffer takes eight.   *)
EXTENDS MatterOta, Sequences

MCId == 1 .. Byte \div 2

\* The file with these payload sizes, and info cells of MP info behind them.
StartOf(size, k) ==
    LET s[j \in 1 .. k] == IF j = 1 THEN PACK_HEADER_LEN1 + SUB_HEADER * Len(size)
                           ELSE s[j - 1] + MP_HEADER_SIZE + size[j - 1]
    IN  s[k]
File(size, info, lacks) ==
    [num    |-> Len(size),
     size   |-> size,
     id     |-> [k \in 1 .. Len(size) |-> ((k - 1) % (Len(size) \div 2)) + 1],
     start  |-> [k \in 1 .. Len(size) + 1 |-> StartOf(size, k)],
     lacks  |-> lacks,
     length |-> StartOf(size, Len(size) + 1) + info]

\* Payloads from one cell to more than the buffer, an MP header without its
\* items, and more images than a uint8_t counts.
MCFiles == {File(<<4, 1, 3, 2>>, 0, {}), File(<<1, 2, 1, 9>>, 2, {}),
            File(<<2, 5, 1, 1>>, 1, {2}), File([k \in 1 .. Byte |-> 1], 0, {})}

\* Payloads of the least size, when blocks are larger than an MP header and it.
MCSmall == {File(<<1, 1, 1, 1>>, 0, {})}
=============================================================================
