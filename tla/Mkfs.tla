-------------------------------- MODULE Mkfs --------------------------------
(***************************************************************************)
(* mkfs/mkfs.c: the file-system image the kernel boots from, and whether   *)
(* the kernel's own rules (which block is free, where a file's bytes are)  *)
(* find in it what mkfs put there.                                         *)
(*                                                                         *)
(* A block holds BSIZE units.  A unit is a byte of a file, a directory     *)
(* entry or an address, so an indirect block has BSIZE addresses; a byte   *)
(* is coded by its file and offset, an entry by its inode number.  The     *)
(* host's files are assumed to open and the image to be large enough.      *)
(***************************************************************************)
EXTENDS Integers, Sequences, SequencesExt

CONSTANTS BSIZE, NDIRECT,
          nmeta,      \* blocks before the first data block
          FSSIZE, NINODES,
          FileSizes   \* the sizes of the files that may be put in

VARIABLES
  dinode,       \* dinode[i]: type, nlink, size, addrs
  sect,         \* sect[b]: the units of block b
  freeinode, freeblock,
  bitmap,       \* the blocks marked in the bitmap
  sizes,        \* sizes of the files put in so far
  mdone

mkvars == <<dinode, sect, freeinode, freeblock, bitmap, sizes, mdone>>

NINDIRECT == BSIZE
MAXFILE == NDIRECT + NINDIRECT
ROOTINO == 1
Zeroes == [u \in 0..(BSIZE - 1) |-> 0]
NoInode == [type |-> "free", nlink |-> 0, size |-> 0, addrs |-> [a \in 0..NDIRECT |-> 0]]
Byte(inum, off) == 1000 * inum + off

\* An image in the making: the inodes, the blocks and the two counters.
Image == [dinode |-> dinode, sect |-> sect, freeinode |-> freeinode, freeblock |-> freeblock]

ialloc(m, type) ==
  [m EXCEPT !.freeinode = @ + 1,
            !.dinode[m.freeinode] = [NoInode EXCEPT !.type = type, !.nlink = 1]]

\* The image with address slot a of inode i filled, and then entry x of its
\* indirect block, each with the next free block unless it has one.
Direct(m, i, a) ==
  IF m.dinode[i].addrs[a] # 0 THEN m
  ELSE [m EXCEPT !.dinode[i].addrs[a] = m.freeblock, !.freeblock = @ + 1]

Indirect(m, i, x) ==
  LET d == Direct(m, i, NDIRECT)  b == d.dinode[i].addrs[NDIRECT]
  IN IF d.sect[b][x] # 0 THEN d
     ELSE [d EXCEPT !.sect[b][x] = d.freeblock, !.freeblock = @ + 1]

\* bmap's rule: the block of file block fbn.
BlockOf(m, i, fbn) ==
  IF fbn < NDIRECT THEN m.dinode[i].addrs[fbn]
  ELSE IF m.dinode[i].addrs[NDIRECT] = 0 THEN 0
  ELSE m.sect[m.dinode[i].addrs[NDIRECT]][fbn - NDIRECT]

\* Mutant: the offset in the block is that of the piece, not of the file.
append1_front(m, i, v) ==
  LET fbn == m.dinode[i].size \div BSIZE
      n == IF fbn < NDIRECT THEN Direct(m, i, fbn) ELSE Indirect(m, i, fbn - NDIRECT)
  IN [n EXCEPT !.sect[BlockOf(n, i, fbn)][0] = v, !.dinode[i].size = @ + 1]

\* One unit of iappend's loop; pieces are cut at block boundaries, so a
\* piece is its units one after another.
append1(m, i, v) ==
  LET off == m.dinode[i].size
      fbn == off \div BSIZE
      n == IF fbn < NDIRECT THEN Direct(m, i, fbn) ELSE Indirect(m, i, fbn - NDIRECT)
  IN [n EXCEPT !.sect[BlockOf(n, i, fbn)][off - fbn * BSIZE] = v, !.dinode[i].size = off + 1]

iappend(m, i, vs) == FoldLeft(LAMBDA img, v : append1(img, i, v), m, vs)

-----------------------------------------------------------------------------
(* main.                                                                   *)

Blank == [dinode |-> [i \in 1..NINODES |-> NoInode], sect |-> [b \in 0..(FSSIZE - 1) |-> Zeroes],
          freeinode |-> 1, freeblock |-> nmeta]

Becomes(m) == /\ dinode' = m.dinode /\ sect' = m.sect
              /\ freeinode' = m.freeinode /\ freeblock' = m.freeblock

\* The zeroed image with its root directory, "." and ".." in it.
MInit ==
  LET m == iappend(ialloc(Blank, "T_DIR"), ROOTINO, <<ROOTINO, ROOTINO>>) IN
  /\ dinode = m.dinode /\ sect = m.sect
  /\ freeinode = m.freeinode /\ freeblock = m.freeblock
  /\ bitmap = {} /\ sizes = <<>> /\ mdone = FALSE

\* One turn of the loop over argv.  iappend asserts fbn < MAXFILE.
add_file(size) ==
  LET i == freeinode
      m == iappend(ialloc(Image, "T_FILE"), ROOTINO, <<i>>)
  IN /\ ~mdone /\ i <= NINODES
     /\ size <= MAXFILE * BSIZE /\ dinode[ROOTINO].size < MAXFILE * BSIZE
     /\ Becomes(iappend(m, i, [k \in 1..size |-> Byte(i, k - 1)]))
     /\ sizes' = Append(sizes, size)
     /\ UNCHANGED <<bitmap, mdone>>

\* The blocks balloc marks in the bitmap.
balloc(used) == 0..(used - 1)

\* The root's size becomes whole blocks, and one more block if it was that.
finish ==
  /\ ~mdone
  /\ dinode' = [dinode EXCEPT ![ROOTINO].size = ((@ \div BSIZE) + 1) * BSIZE]
  /\ bitmap' = balloc(freeblock)
  /\ mdone' = TRUE
  /\ UNCHANGED <<sect, freeinode, freeblock, sizes>>

MNext == finish \/ \E size \in FileSizes : add_file(size)
MSpec == MInit /\ [][MNext]_mkvars

-----------------------------------------------------------------------------
(* Properties.                                                             *)

Inodes == {i \in 1..NINODES : dinode[i].type # "free"}

\* A use of a block: <<i, fbn>> as block fbn of inode i, <<i, MAXFILE>> as
\* its indirect block.
UsedBy(u) == IF u[2] = MAXFILE THEN dinode[u[1]].addrs[NDIRECT] ELSE BlockOf(Image, u[1], u[2])
Uses == {u \in Inodes \X (0..MAXFILE) : UsedBy(u) # 0}

\* The kernel's allocator may hand out every block the bitmap leaves clear:
\* each data block mkfs used has one use, and the blocks marked are the ones
\* used and the metadata, no fewer and no more.
BitmapExact ==
  /\ \A u, v \in Uses : UsedBy(u) = UsedBy(v) => u = v
  /\ mdone => bitmap = 0..(nmeta - 1) \cup {UsedBy(u) : u \in Uses}

\* Each file reads back, through the addresses in its inode, as the bytes
\* that were put in, and the root as its entries and then empty slots, also
\* after main has rounded its size up.  Where that leaves the root's last block
\* without an address, the kernel's bmap gives it a block of zeros.
Unit(i, off) == LET b == BlockOf(Image, i, off \div BSIZE)
                IN IF b = 0 THEN 0 ELSE sect[b][off % BSIZE]
Entries == <<ROOTINO, ROOTINO>> \o [k \in 1..Len(sizes) |-> ROOTINO + k]
ImageReadsBack ==
  /\ \A k \in 1..Len(sizes) :
       /\ dinode[ROOTINO + k].size = sizes[k]
       /\ \A off \in 0..(sizes[k] - 1) : Unit(ROOTINO + k, off) = Byte(ROOTINO + k, off)
  /\ dinode[ROOTINO].size >= Len(Entries)
  /\ \A off \in 0..(dinode[ROOTINO].size - 1) :
       off < MAXFILE * BSIZE =>
         Unit(ROOTINO, off) = IF off < Len(Entries) THEN Entries[off + 1] ELSE 0
=============================================================================
