------------------------------- MODULE BitVal -------------------------------
(***************************************************************************)
(* xfs_db's bit-field codec (src/db/bit.c): getbit_l and setbit_l read and *)
(* write one bit of a byte buffer, most significant bit of each byte       *)
(* first; getbitval decodes an nbits-wide field at bit offset bitoff into  *)
(* an int64_t, by a fast path for byte-aligned 8/16/32/64-bit fields and   *)
(* bit by bit otherwise; setbitval writes a field, by memcpy when offset   *)
(* and width are whole bytes and bit by bit otherwise.                     *)
(*                                                                         *)
(* The byte width NBBY is a constant (8 in the code).  Everything scales   *)
(* with it: the aligned cases are 1, 2, 4 and 8 bytes and int64_t is 8     *)
(* bytes, W bits, so NBBY = 2 keeps every case of the code with 16-bit     *)
(* "int64" values.  The buffer is the state; the command that changes it   *)
(* is a setbitval write, and getbitval is checked in every state.          *)
(***************************************************************************)
EXTENDS Naturals, Integers, Sequences, Bitwise

CONSTANTS
  NBBY,           \* bits per byte (8 in the code)
  BufBytes,       \* size of the buffer, in bytes
  InitBufs,       \* buffer contents the object can start with (on-disk data)
  MaxWrites,      \* bound on the setbitval writes explored
  HostBigEndian   \* the build's __BYTE_ORDER (BOOLEAN)

VARIABLES
  buf,            \* the object: [0..BufBytes-1 -> Byte]
  writes,         \* number of setbitval calls so far (bounded)
  lastWrite       \* the most recent setbitval call: [off, n, v]

vars == <<buf, writes, lastWrite>>

Byte == 0..(2^NBBY - 1)
W == 8 * NBBY                       \* bits of an int64_t
BufBits == BufBytes * NBBY
NoWrite == [off |-> 0, n |-> 0, v |-> 0]

\* An unsigned W-bit pattern as the int64_t that holds it.
Int64(x) == LET m == x % 2^W IN IF m >= 2^(W - 1) THEN m - 2^W ELSE m

\* The (__sN) cast of an n-bit unsigned value.
SignedN(u, n) == IF u >= 2^(n - 1) THEN u - 2^n ELSE u

\* ~0ULL << n
HighOnes(n) == 2^W - 2^n

-----------------------------------------------------------------------------
(* getbit_l and setbit_l.  ptr is a byte index into the buffer.            *)

\* Plausible bug: shift = 8 - bit, one position too far left.
GetBitLShift(b, ptr, bit) ==
  LET shift == NBBY - (bit % NBBY)
  IN  (b[ptr + bit \div NBBY] & 2^shift) \div 2^shift

GetBitL(b, ptr, bit) ==
  LET shift == NBBY - 1 - (bit % NBBY)
  IN  (b[ptr + bit \div NBBY] & 2^shift) \div 2^shift

\* Plausible bug: the clear path masks with mask instead of ~mask.
SetBitLNoComplement(b, ptr, bit, val) ==
  LET i == ptr + bit \div NBBY
      mask == 2^(NBBY - 1 - (bit % NBBY))
  IN  [b EXCEPT ![i] = IF val # 0 THEN @ | mask ELSE @ & mask]

\* ~mask is stored back through a char: only the byte's own bits remain.
SetBitL(b, ptr, bit, val) ==
  LET i == ptr + bit \div NBBY
      mask == 2^(NBBY - 1 - (bit % NBBY))
  IN  [b EXCEPT ![i] = IF val # 0 THEN @ | mask ELSE @ & (2^NBBY - 1 - mask)]

-----------------------------------------------------------------------------
(* getbitval                                                               *)

\* get_unaligned_be{16,32,64}: k bytes from ptr, most significant first.
RECURSIVE GetUnalignedBE(_, _, _)
GetUnalignedBE(b, ptr, k) ==
  IF k = 0 THEN 0 ELSE GetUnalignedBE(b, ptr, k - 1) * 2^NBBY + b[ptr + k - 1]

\* The sign-extension test of the scrape loop, per byte order: the
\* little-endian build tests the first bit read (i == 0), the big-endian
\* build the last one (i == nbits - 1).
SignBitStep(i, nbits) == IF HostBigEndian THEN i = nbits - 1 ELSE i = 0

\* scrape_bits: the loop over i, rval as an unsigned W-bit value.
RECURSIVE ScrapeBits(_, _, _, _, _, _, _)
ScrapeBits(b, ptr, bit, nbits, signext, i, rval) ==
  IF i = nbits THEN rval
  ELSE LET on   == GetBitL(b, ptr, bit + i) = 1
           ext  == on /\ SignBitStep(i, nbits) /\ signext /\ nbits < W
           r1   == IF ~ext THEN rval
                   ELSE IF HostBigEndian THEN rval | HighOnes(nbits)
                   ELSE HighOnes(nbits)
           r2   == IF on THEN r1 | 2^(nbits - i - 1) ELSE r1
       IN  ScrapeBits(b, ptr, bit, nbits, signext, i + 1, r2)

\* Plausible bug: the 16-bit (2-byte) case forgets the signed cast.
GetBitValNo16Sign(b, bitoff, nbits, signext) ==
  LET p   == bitoff \div NBBY
      bit == bitoff % NBBY
      u   == GetUnalignedBE(b, p, nbits \div NBBY)
  IN  IF bit = 0 /\ nbits \in {NBBY, 2 * NBBY, 4 * NBBY, 8 * NBBY}
      THEN IF nbits = 8 * NBBY THEN Int64(u)
           ELSE IF signext /\ nbits # 2 * NBBY THEN SignedN(u, nbits) ELSE u
      ELSE Int64(ScrapeBits(b, p, bit, nbits, signext, 0, 0))

\* getbitval(obj, bitoff, nbits, flags), signext = flags & BVSIGNED.
GetBitVal(b, bitoff, nbits, signext) ==
  LET p   == bitoff \div NBBY
      bit == bitoff % NBBY
      u   == GetUnalignedBE(b, p, nbits \div NBBY)
  IN  IF bit = 0 /\ nbits \in {NBBY, 2 * NBBY, 4 * NBBY, 8 * NBBY}
      THEN IF nbits = 8 * NBBY THEN Int64(u)
           ELSE IF signext THEN SignedN(u, nbits) ELSE u
      ELSE Int64(ScrapeBits(b, p, bit, nbits, signext, 0, 0))

-----------------------------------------------------------------------------
(* setbitval                                                               *)

\* The input setbitval expects: the value big-endian, shifted so that its
\* first bit is the first bit of ibuf, in byteize_up(nbits) bytes.
IBuf(v, n) ==
  LET nb  == (n + NBBY - 1) \div NBBY
      big == v * 2^(nb * NBBY - n)
  IN  [j \in 0..(nb - 1) |-> (big \div 2^(NBBY * (nb - 1 - j))) % 2^NBBY]

\* The bit-by-bit loop: setbit_l(out, bit + bitoff, getbit_l(in, bit)).
RECURSIVE SetBitsFrom(_, _, _, _, _)
SetBitsFrom(b, bitoff, nbits, in, bit) ==
  IF bit = nbits THEN b
  ELSE SetBitsFrom(SetBitL(b, 0, bit + bitoff, GetBitL(in, 0, bit)),
                   bitoff, nbits, in, bit + 1)

SetBitValBuf(b, bitoff, nbits, in) ==
  IF bitoff % NBBY # 0 \/ nbits % NBBY # 0
  THEN SetBitsFrom(b, bitoff, nbits, in, 0)
  ELSE LET p == bitoff \div NBBY
       IN  [j \in DOMAIN b |->
              IF j \in p..(p + nbits \div NBBY - 1) THEN in[j - p] ELSE b[j]]

\* The values a write is tried with: zero, one, the sign bit, all ones.
WriteValues(n) == {0, 1, 2^(n - 1), 2^n - 1}

SetBitVal(off, n, v) ==
  /\ writes < MaxWrites
  /\ buf' = SetBitValBuf(buf, off, n, IBuf(v, n))
  /\ writes' = writes + 1
  /\ lastWrite' = [off |-> off, n |-> n, v |-> v]

Init ==
  /\ buf \in InitBufs
  /\ writes = 0
  /\ lastWrite = NoWrite

Next ==
  \E n \in 1..W, off \in 0..BufBits : \E v \in WriteValues(n) :
    /\ off + n <= BufBits
    /\ SetBitVal(off, n, v)

Spec == Init /\ [][Next]_vars

-----------------------------------------------------------------------------
(* Properties, against a reference reading of the buffer as one big-endian *)
(* bit string.                                                             *)

BufValue(b) == GetUnalignedBE(b, 0, BufBytes)

\* Bits off .. off+n-1 of the buffer, the first one most significant.
Field(b, off, n) == (BufValue(b) \div 2^(BufBits - off - n)) % 2^n

\* getbitval returns the field's value for every offset and width, the
\* byte-aligned fast path and the bit loop alike: zero-extended, or
\* sign-extended from the field's first bit when BVSIGNED is set, as an
\* int64_t.
GetBitValDecodes ==
  \A n \in 1..W, off \in 0..BufBits, signext \in BOOLEAN :
    off + n <= BufBits =>
      GetBitVal(buf, off, n, signext) =
        Int64(IF signext /\ n < W THEN SignedN(Field(buf, off, n), n)
                                  ELSE Field(buf, off, n))

\* A setbitval call leaves the value written in the field and every bit
\* outside the field as it was.
SetBitValWrites ==
  [][ writes' # writes =>
        /\ Field(buf', lastWrite'.off, lastWrite'.n) = lastWrite'.v
        /\ \A k \in 0..(BufBits - 1) :
             k \notin lastWrite'.off..(lastWrite'.off + lastWrite'.n - 1) =>
               Field(buf', k, 1) = Field(buf, k, 1) ]_vars

=============================================================================
