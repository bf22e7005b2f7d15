------------------------------- MODULE File --------------------------------
(***************************************************************************)
(* The contents of files: blocks and their bitmap (balloc, bfree, bmap,    *)
(* itrunc, readi, writei of kernel/fs.c), the file table (kernel/file.c)   *)
(* and the calls on file descriptors (kernel/sysfile.c).                   *)
(*                                                                         *)
(* A step is one readi or one writei, under the inode's lock.  The bytes  *)
(* written to a file are its own, so that they can be told from another    *)
(* file's and from zeros; content is what the file should hold.  Names and *)
(* links are in module Dir: here a file has a name or has none.            *)
(***************************************************************************)
EXTENDS Integers, Sequences, FiniteSets
LOCAL INSTANCE FiniteSetsExt
LOCAL INSTANCE SequencesExt

CONSTANTS Proc, Inode, NFILE, NOFILE,
          NBlocks, BSIZE, NDIRECT, NINDIRECT, MAXOPBLOCKS,
          BPB,      \* blocks to a block of the bitmap
          Sizes,    \* the n of a read or a write
          Faults,   \* the bytes of a chunk that user memory may lack
          Zero      \* the byte 0

File == 1..NFILE
Block == 1..NBlocks
None == 0
MAXFILE == NDIRECT + NINDIRECT
NoBytes == [k \in 0..(BSIZE - 1) |-> Zero]
NoAddrs == [k \in 0..NDIRECT |-> None]
NoInd == [k \in 0..(NINDIRECT - 1) |-> None]
NoFile == [ref |-> 0, ip |-> None, off |-> 0]
NoWrite == [f |-> None, left |-> 0]

VARIABLES
  bitmap, data, ind,  \* blocks in use; their bytes, or their block numbers
  addrs, size, named, \* inodes
  ftable, ofile,      \* the file table; p->ofile, as how often p has a file open
  writing,            \* the write a process is in: its file and the bytes left
  content,            \* what was written to a file
  faulted,            \* files a copy from user space has failed in
  toobig,             \* a transaction logged more than MAXOPBLOCKS blocks
  fpanic

store == <<bitmap, data, ind, addrs, size, toobig>>
fvars == <<store, named, ftable, ofile, writing, content, faulted, fpanic>>

FInit ==
  /\ bitmap = {} /\ data = [b \in Block |-> NoBytes] /\ ind = [b \in Block |-> NoInd]
  /\ addrs = [i \in Inode |-> NoAddrs] /\ size = [i \in Inode |-> 0]
  /\ named = [i \in Inode |-> FALSE]
  /\ ftable = [f \in File |-> NoFile]
  /\ ofile = [p \in Proc |-> [f \in File |-> 0]]
  /\ writing = [p \in Proc |-> NoWrite]
  /\ content = [i \in Inode |-> <<>>]
  /\ faulted = {} /\ toobig = FALSE /\ fpanic = FALSE

-----------------------------------------------------------------------------
(* Blocks.  A store m is what a transaction works on: the bitmap, the      *)
(* blocks, one inode, and the set of blocks it has logged.                 *)

Logs(m, b) == [m EXCEPT !.logged = @ \cup {b}]
BBlock(b) == <<"bitmap", b \div BPB>>

\* Mutant: the block is not zeroed.
balloc_dirty(m) ==
  IF m.bitmap = Block THEN [m EXCEPT !.panic = TRUE, !.new = None]
  ELSE LET b == Min(Block \ m.bitmap) IN
       [m EXCEPT !.bitmap = @ \cup {b}, !.new = b, !.ind[b] = NoInd,
                 !.logged = @ \cup {BBlock(b), <<"block", b>>}]

\* The first free block, marked and zeroed; none panics.
balloc(m) ==
  IF m.bitmap = Block THEN [m EXCEPT !.panic = TRUE, !.new = None]
  ELSE LET b == Min(Block \ m.bitmap) IN
       [m EXCEPT !.bitmap = @ \cup {b}, !.new = b, !.data[b] = NoBytes, !.ind[b] = NoInd,
                 !.logged = @ \cup {BBlock(b), <<"block", b>>}]

bfree(m, b) ==
  IF b \notin m.bitmap THEN [m EXCEPT !.panic = TRUE]
  ELSE [m EXCEPT !.bitmap = @ \ {b}, !.logged = @ \cup {BBlock(b)}]

\* The block of the file's bn-th block, in .new; allocated when there is none.
bmap(m, bn) ==
  LET k == bn - NDIRECT
      direct(n, a) == [a EXCEPT !.addrs[n] = a.new]
      entry(x, a) == IF a.panic THEN a
                     ELSE Logs([a EXCEPT !.ind[x][k] = a.new], <<"block", x>>)
      indirect(top, x) == IF top.panic THEN top
                          ELSE IF top.ind[x][k] # None THEN [top EXCEPT !.new = top.ind[x][k]]
                          ELSE entry(x, balloc(top))
      through(top) == indirect(top, top.addrs[NDIRECT])
  IN IF bn < NDIRECT
     THEN IF m.addrs[bn] # None THEN [m EXCEPT !.new = m.addrs[bn]] ELSE direct(bn, balloc(m))
     ELSE through(IF m.addrs[NDIRECT] # None THEN m ELSE direct(NDIRECT, balloc(m)))

\* The blocks of a file: its data, and the block of numbers.
DataBlocks(ad, in) ==
  ({ad[k] : k \in 0..(NDIRECT - 1)}
   \cup (IF ad[NDIRECT] = None THEN {} ELSE {in[ad[NDIRECT]][k] : k \in 0..(NINDIRECT - 1)})) \ {None}

\* Mutant: the block of block numbers is not freed.
itrunc_indirect(m) ==
  [FoldSet(LAMBDA b, s : bfree(s, b), m, DataBlocks(m.addrs, m.ind)) EXCEPT
     !.addrs = NoAddrs, !.size = 0]

\* Every block is freed, the block of numbers last.
itrunc(m) ==
  LET d == FoldSet(LAMBDA b, s : bfree(s, b), m, DataBlocks(m.addrs, m.ind))
      x == m.addrs[NDIRECT]
  IN Logs([(IF x = None THEN d ELSE bfree(d, x)) EXCEPT !.addrs = NoAddrs, !.size = 0], <<"inode">>)

\* The bytes of this turn: to the end of the block.
Bytes(off, n) == IF n < BSIZE - (off % BSIZE) THEN n ELSE BSIZE - (off % BSIZE)

\* writei's loop: n bytes c at off, a block at a time.  Byte number bad of the
\* call cannot be copied: the ones before it are in the buffer by then, which
\* is released without a log_write, and the loop ends.
RECURSIVE WriteFrom(_, _, _, _, _)
WriteFrom(m, off, n, c, bad) ==
  LET k == Bytes(off, n)
      put(b, l) == [b EXCEPT !.data[b.new] = [j \in 0..(BSIZE - 1) |->
                       IF off % BSIZE <= j /\ j < (off % BSIZE) + l THEN c ELSE @[j]]]
      turn(b) == IF b.panic THEN [b EXCEPT !.off = off]
                 ELSE IF bad < k THEN [put(b, bad) EXCEPT !.off = off]
                 ELSE WriteFrom(Logs(put(b, k), <<"block", b.new>>), off + k, n - k, c, bad - k)
  IN IF n = 0 \/ m.panic THEN [m EXCEPT !.off = off] ELSE turn(bmap(m, off \div BSIZE))

\* The size after a write that ended at off.
Grown(old, off) == IF off > old THEN off ELSE old

\* writei with its checks and the inode written back: the store, and n or -1.
writei(m, off, n, c, bad) ==
  IF off > m.size \/ off + n > MAXFILE * BSIZE THEN [m |-> m, r |-> -1]
  ELSE LET update(w) == IF n > 0 THEN Logs([w EXCEPT !.size = Grown(@, w.off)], <<"inode">>)
                        ELSE w
       IN [m |-> update(WriteFrom(m, off, n, c, bad)), r |-> n]

\* readi: the bytes that off and n name in the file, up to its end.
BlockAt(i, bn) ==
  CASE bn < NDIRECT -> addrs[i][bn]
    [] bn >= NDIRECT /\ addrs[i][NDIRECT] = None -> None
    [] OTHER -> ind[addrs[i][NDIRECT]][bn - NDIRECT]
readi(i, off, n) ==
  LET end == IF off + n > size[i] THEN size[i] ELSE off + n
  IN [k \in 1..(end - off) |-> data[BlockAt(i, (off + k - 1) \div BSIZE)][(off + k - 1) % BSIZE]]

Store(i) == [bitmap |-> bitmap, data |-> data, ind |-> ind, addrs |-> addrs[i], size |-> size[i],
             logged |-> {}, new |-> None, off |-> 0, panic |-> FALSE]
Commit(i, m) ==
  /\ bitmap' = m.bitmap /\ data' = m.data /\ ind' = m.ind
  /\ addrs' = [addrs EXCEPT ![i] = m.addrs] /\ size' = [size EXCEPT ![i] = m.size]
  /\ toobig' = (toobig \/ Cardinality(m.logged) > MAXOPBLOCKS) /\ fpanic' = m.panic

-----------------------------------------------------------------------------
(* The file table and the descriptors.                                     *)

Idle(p) == writing[p] = NoWrite
Fds(p) == MapThenSumSet(LAMBDA f : ofile[p][f], File)

\* p has a descriptor left.
fdalloc(p) == Fds(p) < NOFILE

\* p makes a call on a descriptor of file f.
argfd(p, f) == Idle(p) /\ ofile[p][f] > 0

FreeFiles == {f \in File : ftable[f].ref = 0}
filealloc == Min(FreeFiles)

filedup(f) == [ftable EXCEPT ![f].ref = @ + 1]

\* iput of an inode without a name that no entry of table t refers to.
Free(i, t, hasName) ==
  IF hasName \/ \E f \in File : t[f].ip = i
  THEN UNCHANGED <<store, content, faulted, fpanic>>
  ELSE /\ Commit(i, itrunc(Store(i)))
       /\ content' = [content EXCEPT ![i] = <<>>]
       /\ faulted' = faulted \ {i}

\* open, with or without O_CREATE: filealloc and fdalloc find room.
sys_open(p, i) ==
  /\ Idle(p) /\ FreeFiles # {} /\ fdalloc(p)
  /\ named' = [named EXCEPT ![i] = TRUE]
  /\ named[i] \/ \A f \in File : ftable[f].ip # i
  /\ ftable' = [ftable EXCEPT ![filealloc] = [ref |-> 1, ip |-> i, off |-> 0]]
  /\ ofile' = [ofile EXCEPT ![p][filealloc] = 1]
  /\ UNCHANGED <<store, writing, content, faulted, fpanic>>

\* dup, and what fork does for the child's descriptors: filedup.
sys_dup(p, q, f) ==
  /\ argfd(p, f) /\ Idle(q) /\ fdalloc(q)
  /\ ftable' = filedup(f)
  /\ ofile' = [ofile EXCEPT ![q][f] = @ + 1]
  /\ UNCHANGED <<store, named, writing, content, faulted, fpanic>>

unlink(i) ==
  /\ named[i]
  /\ named' = [named EXCEPT ![i] = FALSE]
  /\ Free(i, ftable, FALSE)
  /\ UNCHANGED <<ftable, ofile, writing>>

\* close: the last descriptor frees the table's entry, and iput frees the
\* file when it has no name and no other entry of the table refers to it.
fileclose(p, f) ==
  LET i == ftable[f].ip
      last == ftable[f].ref = 1
      t == [ftable EXCEPT ![f] = IF last THEN NoFile ELSE [@ EXCEPT !.ref = @ - 1]]
  IN
  /\ argfd(p, f)
  /\ ofile' = [ofile EXCEPT ![p][f] = @ - 1]
  /\ ftable' = t
  /\ IF last THEN Free(i, t, named[i]) ELSE UNCHANGED <<store, content, faulted, fpanic>>
  /\ UNCHANGED <<named, writing>>

fileread(p, f, n) ==
  /\ argfd(p, f) /\ ftable[f].off <= size[ftable[f].ip]
  /\ ftable' = [ftable EXCEPT ![f].off = @ + Len(readi(ftable[f].ip, @, n))]
  /\ UNCHANGED <<store, named, ofile, writing, content, faulted, fpanic>>

\* filewrite begins; the loop below does it.
filewrite(p, f, n) ==
  /\ argfd(p, f)
  /\ writing' = [writing EXCEPT ![p] = [f |-> f, left |-> n]]
  /\ UNCHANGED <<store, named, ftable, ofile, content, faulted, fpanic>>

\* The most bytes a transaction writes.
Limit == ((MAXOPBLOCKS - 1 - 1 - 2) \div 2) * BSIZE

Chunk(p) == IF writing[p].left > Limit THEN Limit ELSE writing[p].left

\* How far the offset moves.
Moves(r, n1) == IF r > 0 THEN r ELSE 0

\* s with c at positions from+1..to.
Over(s, from, to, c) ==
  [k \in 1..(IF to > Len(s) THEN to ELSE Len(s)) |-> IF from < k /\ k <= to THEN c ELSE s[k]]

\* One turn of filewrite's loop, a transaction; byte bad of it cannot be copied
\* from user space, if there is one.  The offset moves by what writei returns.
write_chunk(p, bad) ==
  LET f == writing[p].f
      i == ftable[f].ip
      n1 == Chunk(p)
      off == ftable[f].off
  IN
  /\ ~Idle(p) /\ bad \in 0..n1
  /\ \E w \in {writei(Store(i), off, n1, i, bad)} :
       /\ Commit(i, w.m)
       /\ ftable' = [ftable EXCEPT ![f].off = @ + Moves(w.r, n1)]
       /\ writing' = [writing EXCEPT ![p] = IF w.r < 0 \/ @.left = n1 THEN NoWrite
                                           ELSE [@ EXCEPT !.left = @ - n1]]
       /\ IF w.r < 0 THEN UNCHANGED <<content, faulted>>
          ELSE /\ content' = [content EXCEPT ![i] = Over(@, off, w.m.off, i)]
               /\ faulted' = IF bad < n1 THEN faulted \cup {i} ELSE faulted
  /\ UNCHANGED <<named, ofile>>

\* The chunk's first byte that cannot be copied; its length if all can.
Faulty(p, bad) == bad \in Faults \/ bad = Chunk(p)

FNext ==
  /\ ~fpanic
  /\ \/ \E i \in Inode : unlink(i)
     \/ \E p \in Proc :
          \/ \E i \in Inode : sys_open(p, i)
          \/ \E bad \in 0..Limit : Faulty(p, bad) /\ write_chunk(p, bad)
          \/ \E f \in File :
               \/ fileclose(p, f)
               \/ \E q \in Proc : sys_dup(p, q, f)
               \/ \E n \in Sizes : fileread(p, f, n) \/ filewrite(p, f, n)

FSpec == FInit /\ [][FNext]_fvars

-----------------------------------------------------------------------------
(* Properties.                                                             *)

Blocks(i) == DataBlocks(addrs[i], ind) \cup ({addrs[i][NDIRECT]} \ {None})

\* A block is in one place of one file, and the bitmap has exactly those: no
\* sequence of writes, failed writes, unlinks of open files and closes makes
\* two files share a block or loses one.
BlocksAccounted ==
  ~fpanic =>
    /\ bitmap = UNION {Blocks(i) : i \in Inode}
    /\ \A i, j \in Inode : i # j => Blocks(i) \cap Blocks(j) = {}
    /\ \A i \in Inode : addrs[i][NDIRECT] \notin DataBlocks(addrs[i], ind)

\* A file reads back as what was written to it, at every offset and length,
\* across block boundaries and the indirect block, also when a copy from user
\* space has failed half-way and the file has grown since.
ReadsBack ==
  ~fpanic => \A i \in Inode : readi(i, 0, MAXFILE * BSIZE) = content[i]

\* The bytes of a file's blocks past its end are 0, or of a write to the same
\* file that failed, whoever had the block before: nothing of a deleted file
\* can come back.
NothingOldPastEnd ==
  ~fpanic => \A i \in Inode : \A off \in size[i]..(MAXFILE * BSIZE - 1) :
    LET b == BlockAt(i, off \div BSIZE)
    IN b # None => data[b][off % BSIZE] \in {Zero} \cup ({i} \cap faulted)

\* An offset is never past the end of its file, so that writei's holes check
\* never fails a write, unless a copy from user space failed: then writei
\* returns n all the same and the offset moves past what was written.
OffsetInFile ==
  ~fpanic => \A f \in File : (ftable[f].ref > 0 /\ ftable[f].ip \notin faulted) =>
    ftable[f].off <= size[ftable[f].ip]

\* "write a few blocks at a time to avoid exceeding the maximum log
\* transaction size, including i-node, indirect block, allocation blocks, and
\* 2 blocks of slop": no turn of the loop logs more than MAXOPBLOCKS blocks,
\* even when every block has its own block of the bitmap.
ChunkFitsLog == ~toobig

\* An entry of the file table counts the descriptors that name it, over dup,
\* fork and close in any order; so a write under way keeps its file.
FileRefsExact ==
  \A f \in File :
    /\ ftable[f].ref = MapThenSumSet(LAMBDA p : ofile[p][f], Proc)
    /\ (\E p \in Proc : writing[p].f = f) => ftable[f].ref > 0

=============================================================================
