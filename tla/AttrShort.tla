------------------------------ MODULE AttrShort ------------------------------
(***************************************************************************)
(* xfs_db's view of a shortform attribute fork (src/db/attrshort.c): the   *)
(* field tables of the header and of each entry, and the count, offset    *)
(* and size functions that locate the entries by walking them from the    *)
(* first one.  Offsets and sizes are in bits (bitize), as xfs_db's field  *)
(* machinery wants them; every field is read with getbitval (db/bit.c),   *)
(* whose two paths are taken from BitVal with 8-bit bytes.                *)
(*                                                                         *)
(* The object is the bytes of the inode's attr fork followed by whatever  *)
(* lies after it in the inode buffer, ObjBytes in all.  Printing the fork *)
(* (the field walk of db/print.c and fprint.c, outside src/) is one step  *)
(* that records what the print shows.  The on-disk layout helpers of      *)
(* libxfs (xfs_attr_sf_firstentry, _nextentry, _entsize) are outside      *)
(* src/ and are written from the on-disk format.                          *)
(***************************************************************************)
EXTENDS Naturals, Sequences, SequencesExt, Bitwise

CONSTANTS
  ObjBytes,       \* bytes of the object xfs_db reads the fork from
  ParentRecSize,  \* sizeof(struct xfs_parent_rec): 12
  SfForks,        \* forks the kernel wrote: sequences of [flags, name, value]
  CorruptObjs     \* objects whose header or entries are damaged

VARIABLE
  sfOut           \* what the last print showed, with the object printed

BV == INSTANCE BitVal WITH NBBY <- 8, BufBytes <- ObjBytes, InitBufs <- {},
        MaxWrites <- 0, HostBigEndian <- FALSE, buf <- <<>>, writes <- 0,
        lastWrite <- [off |-> 0, n |-> 0, v |-> 0]

NoPrint == [kind |-> "none"]

Bitize(x) == x * 8
Byteize(x) == x \div 8

\* struct xfs_attr_sf_hdr { __be16 totsize; __u8 count; __u8 padding; }
\* struct xfs_attr_sf_entry { __u8 namelen, valuelen, flags; nameval[] }
SfHdrSize == 4
EOFFnamelen == Bitize(0)
EOFFvaluelen == Bitize(1)
EOFFflags == Bitize(2)
EOFFnameval == Bitize(3)

XFS_ATTR_ROOT_BIT == 1
XFS_ATTR_SECURE_BIT == 2
XFS_ATTR_PARENT_BIT == 3
XFS_ATTR_PARENT == 2^XFS_ATTR_PARENT_BIT
XFS_ATTR_NSP_ONDISK_MASK == 2^XFS_ATTR_ROOT_BIT + 2^XFS_ATTR_SECURE_BIT + XFS_ATTR_PARENT

-----------------------------------------------------------------------------
(* The on-disk walk (libxfs), byte offsets into the object                 *)

SfFirstEntry(hdr) == hdr + SfHdrSize
SfEntSize(b, e) == 3 + b[e] + b[e + 1]
SfNextEntry(b, e) == e + SfEntSize(b, e)

\* for (i = 0; i < idx; i++) e = xfs_attr_sf_nextentry(e);
RECURSIVE WalkEntries(_, _, _)
WalkEntries(b, e, idx) == IF idx = 0 THEN e ELSE WalkEntries(b, SfNextEntry(b, e), idx - 1)

-----------------------------------------------------------------------------
(* attrshort.c: count, offset and size functions, startoff in bits         *)

AttrShortformListCount(b, startoff) == b[Byteize(startoff) + 2]

AttrShortformListOffset(b, startoff, idx) ==
  LET hdr == Byteize(startoff)
  IN  Bitize(WalkEntries(b, SfFirstEntry(hdr), idx) - hdr)

AttrSfEntrySize(b, startoff, idx) ==
  LET hdr == Byteize(startoff)
  IN  Bitize(SfEntSize(b, WalkEntries(b, SfFirstEntry(hdr), idx)))

AttrshortSize(b, startoff) ==
  LET hdr == Byteize(startoff)
  IN  Bitize(WalkEntries(b, SfFirstEntry(hdr), b[hdr + 2]) - hdr)

AttrSfEntryNameCount(b, startoff) == b[Byteize(startoff)]

IsParent(flags) == (flags & XFS_ATTR_NSP_ONDISK_MASK) = XFS_ATTR_PARENT

AttrSfEntryValueCount(b, startoff) ==
  LET e == Byteize(startoff)
  IN  IF IsParent(b[e + 2]) THEN 0 ELSE b[e + 1]

AttrSfEntryPptrCount(b, startoff) ==
  IF IsParent(b[Byteize(startoff) + 2]) THEN 1 ELSE 0

AttrSfEntryValueOffset(b, startoff, idx) ==
  Bitize(3 + b[Byteize(startoff)])

\* Plausible bug: the flag bit counted from the least significant end.
FlagFieldOffLsb(bit) == EOFFflags + bit

\* The root, secure and parent fields of attr_sf_entry_flds: getbitval
\* numbers bits from the most significant end of each byte.
FlagFieldOff(bit) == EOFFflags + 8 - bit - 1

-----------------------------------------------------------------------------
(* The print of the fork: every field of attr_shortform_flds, as fprint    *)
(* shows it, read with getbitval.                                          *)

\* getbitval(obj, off, n, 0) for the fields read here (n <= 16): the fast
\* path's big-endian read when off and n are whole bytes, else the scrape
\* loop; the final int64_t cast leaves such values alone.
Uint(b, off, n) ==
  IF off % 8 = 0 /\ n \in {8, 16}
  THEN BV!GetUnalignedBE(b, off \div 8, n \div 8)
  ELSE BV!ScrapeBits(b, off \div 8, off % 8, n, FALSE, 0, 0)

\* FLDT_CHARNS: n characters from bit offset off.
Chars(b, off, n) == [k \in 1..n |-> Uint(b, off + Bitize(k - 1), 8)]

\* One element of "list", the entry at bit offset off of the object.
PrintEntry(b, hdr, idx) ==
  LET off == hdr + AttrShortformListOffset(b, hdr, idx)
      voff == off + AttrSfEntryValueOffset(b, off, 0)
  IN  [namelen  |-> Uint(b, off + EOFFnamelen, 8),
       valuelen |-> Uint(b, off + EOFFvaluelen, 8),
       root     |-> Uint(b, off + FlagFieldOff(XFS_ATTR_ROOT_BIT), 1),
       secure   |-> Uint(b, off + FlagFieldOff(XFS_ATTR_SECURE_BIT), 1),
       parent   |-> Uint(b, off + FlagFieldOff(XFS_ATTR_PARENT_BIT), 1),
       name     |-> Chars(b, off + EOFFnameval, AttrSfEntryNameCount(b, off)),
       pptr     |-> [k \in 1..AttrSfEntryPptrCount(b, off) |-> Chars(b, voff, ParentRecSize)],
       value    |-> Chars(b, voff, AttrSfEntryValueCount(b, off)),
       size     |-> AttrSfEntrySize(b, hdr, idx)]

PrintFork(b) ==
  [totsize |-> Uint(b, 0, 16),
   count   |-> Uint(b, 16, 8),
   list    |-> [i \in 1..AttrShortformListCount(b, 0) |-> PrintEntry(b, 0, i - 1)],
   size    |-> AttrshortSize(b, 0)]

-----------------------------------------------------------------------------
(* The forks the kernel writes (reference)                                  *)

EntryBytes(e) == <<Len(e.name), Len(e.value), e.flags>> \o e.name \o e.value

Totsize(fork) == SfHdrSize + FoldLeft(LAMBDA acc, e : acc + Len(EntryBytes(e)), 0, fork)

\* The fork's bytes, then zeros up to ObjBytes, as getbitval's buffer.
Encode(fork) ==
  LET s == <<Totsize(fork) \div 256, Totsize(fork) % 256, Len(fork), 0>>
             \o FlattenSeq([i \in 1..Len(fork) |-> EntryBytes(fork[i])])
  IN  [j \in 0..(ObjBytes - 1) |-> IF j < Len(s) THEN s[j + 1] ELSE 0]

-----------------------------------------------------------------------------

\* What printing each object shows (the print depends only on the object).
KernelPrint == [fork \in SfForks |-> PrintFork(Encode(fork))]
CorruptPrint == [b \in CorruptObjs |-> PrintFork(b)]

\* xfs_db prints the attr fork of an inode: one the kernel wrote, or a
\* damaged one.
PrintAttrShort ==
  \/ \E fork \in SfForks :
       sfOut' = [kind |-> "kernel", fork |-> fork, shown |-> KernelPrint[fork]]
  \/ \E b \in CorruptObjs :
       sfOut' = [kind |-> "corrupt", fork |-> <<>>, shown |-> CorruptPrint[b]]

Init == sfOut = NoPrint

Next == PrintAttrShort

-----------------------------------------------------------------------------
(* Properties                                                              *)

Bit(x, k) == (x \div 2^k) % 2

\* What the print of a kernel-written fork must show: its size, count and
\* every entry in order with its flag bits, name, and either its value or
\* (for a parent pointer) one parent record.
Expected(fork) ==
  [totsize |-> Totsize(fork),
   count   |-> Len(fork),
   list    |-> [i \in 1..Len(fork) |->
                 LET e == fork[i]
                 IN  [namelen  |-> Len(e.name),
                      valuelen |-> Len(e.value),
                      root     |-> Bit(e.flags, XFS_ATTR_ROOT_BIT),
                      secure   |-> Bit(e.flags, XFS_ATTR_SECURE_BIT),
                      parent   |-> Bit(e.flags, XFS_ATTR_PARENT_BIT),
                      name     |-> e.name,
                      pptr     |-> IF IsParent(e.flags) THEN <<e.value>> ELSE <<>>,
                      value    |-> IF IsParent(e.flags) THEN <<>> ELSE e.value,
                      size     |-> Bitize(Len(EntryBytes(e)))]],
   size    |-> Bitize(Totsize(fork))]

\* The field tables, the entry walk and getbitval's bit order together
\* decode every fork the kernel writes: the print of a shortform attr
\* fork shows exactly its entries, flags and values.
AttrShortPrintsEntries ==
  sfOut.kind = "kernel" => sfOut.shown = Expected(sfOut.fork)

\* Every entry xfs_db prints lies inside the fork's totsize (the entries
\* are contiguous from the header on).
AttrShortWithinFork ==
  sfOut.kind # "none" =>
    LET l == sfOut.shown.list
    IN  Bitize(SfHdrSize) + FoldLeft(LAMBDA acc, e : acc + e.size, 0, l)
          <= Bitize(sfOut.shown.totsize)

=============================================================================
