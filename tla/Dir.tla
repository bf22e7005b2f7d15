-------------------------------- MODULE Dir --------------------------------
(***************************************************************************)
(* Inodes, directories and path names (kernel/fs.c) under the system calls *)
(* that change the tree (kernel/sysfile.c), for processes that run them at *)
(* the same time.                                                          *)
(*                                                                         *)
(* A step goes from one ilock to the next, or is one of the three parts of *)
(* an iput that frees an inode.  The inode cache is kept by inode number.  *)
(* A directory's entries are a function of the name (dirlink lets a name   *)
(* in once); the slots, and the blocks of files, are in module File.       *)
(* The log is the subject of module Log: here a call is a sequence of      *)
(* steps between begin_op and end_op that others may interleave.           *)
(***************************************************************************)
EXTENDS Integers, Sequences, FiniteSets
LOCAL INSTANCE FiniteSetsExt

CONSTANTS Proc, Nobody,
          NInodes,   \* inodes are 1..NInodes, the root is 1
          Names,     \* names of entries, besides the dots
          Calls,     \* the calls each process makes
          NINODE     \* entries of the inode cache

Inum == 1..NInodes
Root == 1
NoInode == 0
Dots == {".", ".."}
NoEnts == [n \in Names \cup Dots |-> NoInode]
Idle == [pc |-> "user", op |-> "none", path |-> <<>>, abs |-> FALSE, path2 |-> <<>>,
         ip |-> NoInode, dp |-> NoInode, stale |-> FALSE]

VARIABLES
  dtype, dnlink, ents, \* on disk: type, nlink, the entries
  iref, ivalid, itype, inlink, ilocked, \* the inode cache
  pr, drops,   \* a process' call; the inodes it is about to iput
  cwd, file,   \* p->cwd, the inode of an open file
  gone,        \* directories whose parent has been freed, or is about to be
  stray,       \* links of an inode whose entries went with a removed directory
  dpanic

disk == <<dtype, dnlink, ents, gone, stray>>
icache == <<iref, ivalid, itype, inlink, ilocked>>
dvars == <<disk, icache, pr, drops, cwd, file, dpanic>>

\* mkfs's root, which is every process' current directory.
DInit ==
  /\ dtype = [i \in Inum |-> IF i = Root THEN "dir" ELSE "none"]
  /\ dnlink = [i \in Inum |-> IF i = Root THEN 1 ELSE 0]
  /\ ents = [i \in Inum |-> IF i = Root THEN [NoEnts EXCEPT !["."] = Root, ![".."] = Root]
                            ELSE NoEnts]
  /\ iref = [i \in Inum |-> IF i = Root THEN Cardinality(Proc) ELSE 0]
  /\ ivalid = [i \in Inum |-> 0]
  /\ itype = [i \in Inum |-> "none"] /\ inlink = [i \in Inum |-> 0]
  /\ ilocked = [i \in Inum |-> Nobody]
  /\ pr = [p \in Proc |-> Idle] /\ drops = [p \in Proc |-> <<>>]
  /\ cwd = [p \in Proc |-> Root] /\ file = [p \in Proc |-> NoInode]
  /\ gone = {} /\ stray = [i \in Inum |-> 0]
  /\ dpanic = "no"

-----------------------------------------------------------------------------
(* Inodes.                                                                 *)

Panic(why) == dpanic' = why /\ UNCHANGED <<disk, icache, pr, drops, cwd, file>>

\* What ilock makes of an inode: its type and its links, from the cache or
\* from the disk.
Type(i) == IF ivalid[i] = 1 THEN itype[i] ELSE dtype[i]
Nlink(i) == IF ivalid[i] = 1 THEN inlink[i] ELSE dnlink[i]

\* ilock, and the panic for an inode that is not allocated.
CanLock(i) == ilocked[i] = Nobody
NoType(i) == CanLock(i) /\ ivalid[i] = 0 /\ dtype[i] = "none"

\* A stale walk meets a free inode ("stale") or one that has been handed out
\* again ("reused"), where it would go on; the model stops.
BadLock(p, i) == NoType(i) \/ pr[p].stale
LockPanic(p) == Panic(CASE ~pr[p].stale -> "no type" [] NoType(pr[p].ip) -> "stale" [] OTHER -> "reused")

\* The cache after ilock (held: the lock is kept) of i, with links n.
Cache(i, n) ==
  /\ ivalid' = [ivalid EXCEPT ![i] = 1]
  /\ itype' = [itype EXCEPT ![i] = Type(i)]
  /\ inlink' = [inlink EXCEPT ![i] = n]

\* iget has no entry left for an inode that is not cached.
Full(i) == iref[i] = 0 /\ Cardinality({j \in Inum : iref[j] > 0}) >= NINODE

\* iget of i, which has an entry already or is given one (see Full).
Ref(i) == [iref EXCEPT ![i] = @ + 1]

idup(i) == [iref EXCEPT ![i] = @ + 1]

iunlock(i) == [ilocked EXCEPT ![i] = Nobody]

\* ialloc marks the inode it found as allocated, on disk.
ialloc(i, type) == [dtype EXCEPT ![i] = type]

\* The inode of a name, or NoInode.
dirlookup(d, name) == ents[d][name]

\* dirlink of a name that is not there yet.
dirlink(d, name, i) == [ents EXCEPT ![d][name] = i]

\* The three steps of iput for the first of drops: the test with the last
\* reference and no links, which takes the lock; the truncation and the type
\* 0 on disk; valid = 0 and the release; and ref--.
Drop(p, is) == drops' = [drops EXCEPT ![p] = @ \o is]

Pop(p) == drops' = [drops EXCEPT ![p] = Tail(@)]

\* ref--; an entry nobody refers to is no longer the inode's (valid is 0 when
\* iget takes one again).
Unref(i) ==
  LET last == iref[i] = 1 IN
  /\ iref' = [iref EXCEPT ![i] = @ - 1]
  /\ ivalid' = [ivalid EXCEPT ![i] = IF last THEN 0 ELSE @]
  /\ itype' = [itype EXCEPT ![i] = IF last THEN "none" ELSE @]
  /\ inlink' = [inlink EXCEPT ![i] = IF last THEN 0 ELSE @]

LastUse(i) == iref[i] = 1 /\ ivalid[i] = 1 /\ inlink[i] = 0

iput(p) ==
  LET i == Head(drops[p]).i IN
  /\ drops[p] # <<>> /\ Head(drops[p]).at = "test"
  /\ IF LastUse(i)
     THEN /\ CanLock(i)
          /\ ilocked' = [ilocked EXCEPT ![i] = p]
          /\ drops' = [drops EXCEPT ![p][1].at = "free"]
          /\ gone' = (gone \cup {d \in Inum : dtype[d] = "dir" /\ ents[d][".."] = i}) \ {i}
          /\ UNCHANGED <<iref, ivalid, itype, inlink>>
     ELSE Unref(i) /\ Pop(p) /\ UNCHANGED <<ilocked, gone>>
  /\ UNCHANGED <<dtype, dnlink, ents, stray, pr, cwd, file, dpanic>>

\* itrunc, type = 0, iupdate.
iput_free(p) ==
  LET i == Head(drops[p]).i IN
  /\ drops[p] # <<>> /\ Head(drops[p]).at = "free"
  /\ itype' = [itype EXCEPT ![i] = "none"]
  /\ dtype' = [dtype EXCEPT ![i] = "none"]
  /\ dnlink' = [dnlink EXCEPT ![i] = inlink[i]]
  /\ ents' = [ents EXCEPT ![i] = NoEnts]
  /\ stray' = [j \in Inum |-> stray[j] + Cardinality({n \in Names : ents[i][n] = j})]
  /\ drops' = [drops EXCEPT ![p][1].at = "unlock"]
  /\ UNCHANGED <<gone, iref, ivalid, inlink, ilocked, pr, cwd, file, dpanic>>

iput_unlock(p) ==
  LET i == Head(drops[p]).i IN
  /\ drops[p] # <<>> /\ Head(drops[p]).at = "unlock"
  /\ ivalid' = [ivalid EXCEPT ![i] = 0]
  /\ itype' = [itype EXCEPT ![i] = "none"] /\ inlink' = [inlink EXCEPT ![i] = 0]
  /\ ilocked' = iunlock(i)
  /\ drops' = [drops EXCEPT ![p][1].at = "ref"]
  /\ UNCHANGED <<disk, iref, pr, cwd, file, dpanic>>

iput_ref(p) ==
  LET i == Head(drops[p]).i IN
  /\ drops[p] # <<>> /\ Head(drops[p]).at = "ref"
  /\ Unref(i) /\ Pop(p)
  /\ UNCHANGED <<disk, ilocked, pr, cwd, file, dpanic>>

Put(i) == <<[i |-> i, at |-> "test"]>>

\* A step of the call itself, when no iput is under way.
At(p, pc) == pr[p].pc = pc /\ drops[p] = <<>>
Set(p, r) == pr' = [pr EXCEPT ![p] = r]
Goto(p, pc) == Set(p, [pr[p] EXCEPT !.pc = pc])

-----------------------------------------------------------------------------
(* namex, for namei (parent: FALSE) and nameiparent.                       *)

Parent(p) == pr[p].op \in {"unlink", "mkdir", "create", "mknod"} \/ pr[p].pc = "walk2"
Walking(p) == pr[p].pc \in {"walk", "walk2"} /\ drops[p] = <<>>

Start(p, abs) == IF abs THEN Root ELSE cwd[p]
StartRef(p, abs) == IF abs THEN Ref(Root) ELSE idup(cwd[p])

\* A system call: begin_op, and namex takes its first inode.
call(p, c) ==
  LET from == Start(p, c.abs) IN
  /\ At(p, "user")
  /\ IF Full(from) THEN Panic("iget")
     ELSE /\ iref' = StartRef(p, c.abs)
          /\ Set(p, [Idle EXCEPT !.pc = "walk", !.op = c.op, !.path = c.path,
                                 !.path2 = c.path2, !.abs = c.abs, !.ip = from])
          /\ UNCHANGED <<disk, ivalid, itype, inlink, ilocked, drops, cwd, file, dpanic>>

\* Where namex's result, or its failure, leads: sys_link has raised nlink by
\* the time its second path fails.
Fail(p) == IF pr[p].pc = "walk2" THEN [pr[p] EXCEPT !.pc = "link_bad", !.ip = pr[p].dp, !.dp = NoInode]
           ELSE Idle
Found(p) == [pr[p] EXCEPT !.path = IF Parent(p) THEN @ ELSE <<>>,
                          !.pc = IF pr[p].pc = "walk2" THEN "link2" ELSE pr[p].op]

\* The path is used up: no parent (the path was only slashes), or found.
namex_end(p) ==
  /\ Walking(p) /\ pr[p].path = <<>>
  /\ IF Parent(p) THEN Set(p, Fail(p)) /\ Drop(p, Put(pr[p].ip))
     ELSE Set(p, Found(p)) /\ UNCHANGED drops
  /\ UNCHANGED <<disk, icache, cwd, file, dpanic>>

\* One element of the path: ilock, look, iunlock.  A walk is stale once it
\* has followed ".." to a parent that has been freed.
namex(p) ==
  LET i == pr[p].ip
      name == Head(pr[p].path)
      next == dirlookup(i, name)
  IN
  /\ Walking(p) /\ pr[p].path # <<>> /\ CanLock(i)
  /\ IF BadLock(p, i) THEN LockPanic(p)
     ELSE
     /\ Cache(i, Nlink(i))
     /\ CASE Type(i) # "dir" \/ (~(Parent(p) /\ Len(pr[p].path) = 1) /\ next = NoInode) ->
               /\ Set(p, Fail(p)) /\ Drop(p, Put(i))
               /\ UNCHANGED <<iref, dpanic>>
          [] Type(i) = "dir" /\ Parent(p) /\ Len(pr[p].path) = 1 ->
               /\ Set(p, Found(p))
               /\ UNCHANGED <<iref, drops, dpanic>>
          [] OTHER ->
               /\ dpanic' = IF Full(next) THEN "iget" ELSE "no"
               /\ iref' = Ref(next)
               /\ Set(p, [pr[p] EXCEPT !.path = Tail(@), !.ip = next,
                            !.stale = @ \/ (name = ".." /\ i \in gone)])
               /\ Drop(p, Put(i))
     /\ UNCHANGED <<disk, ilocked, cwd, file>>

-----------------------------------------------------------------------------
(* Opening, closing, changing directory.                                   *)

\* ilock; a directory may be opened for reading only; filealloc and fdalloc
\* can fail.
open(p, rdonly, room) ==
  LET i == pr[p].ip IN
  /\ At(p, "open") /\ CanLock(i)
  /\ IF BadLock(p, i) THEN LockPanic(p)
     ELSE /\ Cache(i, Nlink(i))
          /\ Set(p, Idle)
          /\ IF (Type(i) = "dir" /\ ~rdonly) \/ ~room \/ file[p] # NoInode
             THEN Drop(p, Put(i)) /\ UNCHANGED file
             ELSE file' = [file EXCEPT ![p] = i] /\ UNCHANGED drops
          /\ UNCHANGED <<disk, iref, ilocked, cwd, dpanic>>

close(p) ==
  /\ At(p, "user") /\ file[p] # NoInode
  /\ file' = [file EXCEPT ![p] = NoInode]
  /\ Drop(p, Put(file[p]))
  /\ UNCHANGED <<disk, icache, pr, cwd, dpanic>>

\* The old directory is put before p->cwd changes.
chdir(p) ==
  LET i == pr[p].ip IN
  /\ At(p, "chdir") /\ CanLock(i)
  /\ IF BadLock(p, i) THEN LockPanic(p)
     ELSE /\ Cache(i, Nlink(i))
          /\ IF Type(i) # "dir" THEN Set(p, Idle) /\ Drop(p, Put(i))
             ELSE Goto(p, "chdir2") /\ Drop(p, Put(cwd[p]))
          /\ UNCHANGED <<disk, iref, ilocked, cwd, file, dpanic>>

chdir_end(p) ==
  /\ At(p, "chdir2")
  /\ cwd' = [cwd EXCEPT ![p] = pr[p].ip]
  /\ Set(p, Idle)
  /\ UNCHANGED <<disk, icache, drops, file, dpanic>>

-----------------------------------------------------------------------------
(* create, for open with O_CREATE, mkdir and mknod.                        *)

Kind(p) == CASE pr[p].op = "mkdir" -> "dir" [] pr[p].op = "mknod" -> "dev" [] OTHER -> "file"

\* With dp locked: the name is there, or ialloc takes the first free inode.
create(p) ==
  LET dp == pr[p].ip
      old == dirlookup(dp, pr[p].path[1])
      free == {i \in Inum : dtype[i] = "none"}
      new == CHOOSE i \in free : \A j \in free : i <= j
  IN
  /\ pr[p].op \in {"mkdir", "create", "mknod"} /\ At(p, pr[p].op) /\ CanLock(dp)
  /\ IF BadLock(p, dp) THEN LockPanic(p)
     ELSE IF old # NoInode
     THEN /\ Cache(dp, Nlink(dp))
          /\ dpanic' = IF Full(old) THEN "iget" ELSE "no"
          /\ iref' = Ref(old)
          /\ Set(p, [pr[p] EXCEPT !.pc = "exists", !.ip = old])
          /\ Drop(p, Put(dp))
          /\ UNCHANGED <<disk, ilocked, cwd, file>>
     ELSE IF free = {} THEN Panic("ialloc")
     ELSE /\ Cache(dp, Nlink(dp))
          /\ dtype' = ialloc(new, Kind(p))
          /\ dnlink' = [dnlink EXCEPT ![new] = 0]
          /\ dpanic' = IF Full(new) THEN "iget" ELSE "no"
          /\ iref' = Ref(new)
          /\ ilocked' = [ilocked EXCEPT ![dp] = p]
          /\ Set(p, [pr[p] EXCEPT !.pc = "create2", !.ip = new, !.dp = dp])
          /\ UNCHANGED <<ents, gone, stray, drops, cwd, file>>

\* An open with O_CREATE may use a file or a device that exists.
create_exists(p) ==
  LET i == pr[p].ip IN
  /\ At(p, "exists") /\ CanLock(i)
  /\ IF BadLock(p, i) THEN LockPanic(p)
     ELSE /\ Cache(i, Nlink(i))
          /\ Set(p, Idle)
          /\ IF pr[p].op = "create" /\ Type(i) # "dir" /\ file[p] = NoInode
             THEN file' = [file EXCEPT ![p] = i] /\ UNCHANGED drops
             ELSE Drop(p, Put(i)) /\ UNCHANGED file
          /\ UNCHANGED <<disk, iref, ilocked, cwd, dpanic>>

\* The new inode gets its link, a directory its dots (and the parent a link
\* for ".."), and the parent its entry; dp is put.
create_new(p) ==
  LET i == pr[p].ip
      dp == pr[p].dp
      name == pr[p].path[1]
      dir == Kind(p) = "dir"
  IN
  /\ At(p, "create2") /\ CanLock(i)
  /\ IF NoType(i) THEN Panic("no type")
     ELSE
     /\ ivalid' = [ivalid EXCEPT ![i] = 1]
     /\ itype' = [itype EXCEPT ![i] = Type(i)]
     /\ inlink' = [inlink EXCEPT ![i] = 1, ![dp] = IF dir THEN @ + 1 ELSE @]
     /\ dnlink' = [dnlink EXCEPT ![i] = 1, ![dp] = IF dir THEN inlink[dp] + 1 ELSE @]
     /\ ents' = [ents EXCEPT ![i] = IF dir THEN [NoEnts EXCEPT !["."] = i, ![".."] = dp] ELSE NoEnts,
                             ![dp][name] = i]
     /\ ilocked' = [ilocked EXCEPT ![dp] = Nobody, ![i] = p]
     /\ Drop(p, Put(dp))
     /\ Set(p, [pr[p] EXCEPT !.pc = "create3", !.dp = NoInode])
     /\ UNCHANGED <<dtype, gone, stray, iref, cwd, file, dpanic>>

\* create returns the new inode locked; it becomes an open file, or is put.
create_end(p) ==
  LET i == pr[p].ip IN
  /\ At(p, "create3")
  /\ ilocked' = iunlock(i)
  /\ Set(p, Idle)
  /\ IF pr[p].op = "create" /\ file[p] = NoInode
     THEN file' = [file EXCEPT ![p] = i] /\ UNCHANGED drops
     ELSE Drop(p, Put(i)) /\ UNCHANGED file
  /\ UNCHANGED <<disk, iref, ivalid, itype, inlink, cwd, dpanic>>

-----------------------------------------------------------------------------
(* unlink.                                                                 *)

\* The parent's links without the entry for i: a directory's ".." was one.
Less(i, n) == IF Type(i) = "dir" THEN n - 1 ELSE n

\* Mutant: "." can be unlinked.
Removable_dots(name) == TRUE

\* Cannot unlink "." or "..".
Removable(name) == name \notin Dots

unlink(p) ==
  LET dp == pr[p].ip
      name == pr[p].path[1]
      i == dirlookup(dp, name)
  IN
  /\ At(p, "unlink") /\ CanLock(dp)
  /\ IF BadLock(p, dp) THEN LockPanic(p)
     ELSE IF ~Removable(name) \/ i = NoInode
     THEN /\ Cache(dp, Nlink(dp))
          /\ Set(p, Idle) /\ Drop(p, Put(dp))
          /\ UNCHANGED <<disk, iref, ilocked, cwd, file, dpanic>>
     ELSE /\ Cache(dp, Nlink(dp))
          /\ dpanic' = IF Full(i) THEN "iget" ELSE "no"
          /\ iref' = Ref(i)
          /\ ilocked' = [ilocked EXCEPT ![dp] = p]
          /\ Set(p, [pr[p] EXCEPT !.pc = "unlink2", !.ip = i, !.dp = dp])
          /\ UNCHANGED <<disk, drops, cwd, file>>

\* isdirempty.
Empty(i) == \A n \in Names : ents[i][n] = NoInode

\* With both locked: the entry goes, and a directory's link to its parent;
\* then dp is put, the inode still locked.
unlink_entry(p) ==
  LET i == pr[p].ip
      dp == pr[p].dp
      name == pr[p].path[1]
  IN
  /\ At(p, "unlink2") /\ CanLock(i)
  /\ IF NoType(i) \/ Nlink(i) < 1 THEN Panic("nlink < 1")
     ELSE IF Type(i) = "dir" /\ ~Empty(i)
     THEN /\ Cache(i, Nlink(i))
          /\ Set(p, [pr[p] EXCEPT !.pc = "unlink_bad", !.ip = dp, !.dp = NoInode])
          /\ Drop(p, Put(i))
          /\ UNCHANGED <<disk, iref, ilocked, cwd, file, dpanic>>
     ELSE /\ ivalid' = [ivalid EXCEPT ![i] = 1]
          /\ itype' = [itype EXCEPT ![i] = Type(i)]
          /\ inlink' = [inlink EXCEPT ![i] = Nlink(i), ![dp] = Less(i, @)]
          /\ dnlink' = [dnlink EXCEPT ![dp] = Less(i, @)]
          /\ ents' = [ents EXCEPT ![dp][name] = NoInode]
          /\ ilocked' = [ilocked EXCEPT ![dp] = Nobody, ![i] = p]
          /\ Set(p, [pr[p] EXCEPT !.pc = "unlink3", !.dp = NoInode]) /\ Drop(p, Put(dp))
          /\ UNCHANGED <<dtype, gone, stray, iref, cwd, file, dpanic>>

\* The directory was not empty: it is put with its parent locked.
unlink_bad(p) ==
  LET dp == pr[p].ip IN
  /\ At(p, "unlink_bad")
  /\ ilocked' = iunlock(dp)
  /\ Set(p, Idle) /\ Drop(p, Put(dp))
  /\ UNCHANGED <<disk, iref, ivalid, itype, inlink, cwd, file, dpanic>>

unlink_end(p) ==
  LET i == pr[p].ip IN
  /\ At(p, "unlink3")
  /\ inlink' = [inlink EXCEPT ![i] = @ - 1]
  /\ dnlink' = [dnlink EXCEPT ![i] = inlink[i] - 1]
  /\ ilocked' = iunlock(i)
  /\ Set(p, Idle) /\ Drop(p, Put(i))
  /\ UNCHANGED <<dtype, ents, gone, stray, iref, ivalid, itype, cwd, file, dpanic>>

-----------------------------------------------------------------------------
(* link.                                                                   *)

\* The new link is counted before it is made; then the second path.
link(p) ==
  LET i == pr[p].ip IN
  /\ At(p, "link") /\ CanLock(i)
  /\ IF BadLock(p, i) THEN LockPanic(p)
     ELSE IF Type(i) = "dir"
     THEN /\ Cache(i, Nlink(i))
          /\ Set(p, Idle) /\ Drop(p, Put(i))
          /\ UNCHANGED <<disk, iref, ilocked, cwd, file, dpanic>>
     ELSE /\ Cache(i, Nlink(i) + 1)
          /\ dnlink' = [dnlink EXCEPT ![i] = Nlink(i) + 1]
          /\ dpanic' = IF Full(Start(p, pr[p].abs)) THEN "iget" ELSE "no"
          /\ iref' = StartRef(p, pr[p].abs)
          /\ Set(p, [pr[p] EXCEPT !.pc = "walk2", !.ip = Start(p, pr[p].abs), !.dp = i, !.path = pr[p].path2])
          /\ UNCHANGED <<dtype, ents, gone, stray, ilocked, drops, cwd, file>>

\* dirlink in the parent of the second path; a name that is there fails it
\* (dirlink puts what it found, with dp locked).
link_entry(p) ==
  LET dp == pr[p].ip
      i == pr[p].dp
      name == pr[p].path[1]
  IN
  /\ At(p, "link2") /\ CanLock(dp)
  /\ IF BadLock(p, dp) THEN LockPanic(p)
     ELSE /\ Cache(dp, Nlink(dp))
          /\ IF dirlookup(dp, name) # NoInode
             THEN /\ ilocked' = [ilocked EXCEPT ![dp] = p]
                  /\ iref' = Ref(dirlookup(dp, name))
                  /\ dpanic' = IF Full(dirlookup(dp, name)) THEN "iget" ELSE "no"
                  /\ Drop(p, Put(dirlookup(dp, name)))
                  /\ Goto(p, "link3")
                  /\ UNCHANGED ents
             ELSE /\ ents' = dirlink(dp, name, i)
                  /\ Set(p, Idle) /\ Drop(p, Put(dp) \o Put(i))
                  /\ UNCHANGED <<iref, ilocked, dpanic>>
          /\ UNCHANGED <<dtype, dnlink, gone, stray, cwd, file>>

\* Mutant: the parent is unlocked and not put.
link_exists_leak(p) ==
  LET dp == pr[p].ip IN
  /\ At(p, "link3")
  /\ ilocked' = iunlock(dp)
  /\ Set(p, [pr[p] EXCEPT !.pc = "link_bad", !.ip = pr[p].dp, !.dp = NoInode])
  /\ UNCHANGED <<disk, iref, ivalid, itype, inlink, drops, cwd, file, dpanic>>

link_exists(p) ==
  LET dp == pr[p].ip IN
  /\ At(p, "link3")
  /\ ilocked' = iunlock(dp)
  /\ Drop(p, Put(dp))
  /\ Set(p, [pr[p] EXCEPT !.pc = "link_bad", !.ip = pr[p].dp, !.dp = NoInode])
  /\ UNCHANGED <<disk, iref, ivalid, itype, inlink, cwd, file, dpanic>>

link_bad(p) ==
  LET i == pr[p].ip IN
  /\ At(p, "link_bad") /\ CanLock(i)
  /\ Cache(i, Nlink(i) - 1)
  /\ dnlink' = [dnlink EXCEPT ![i] = Nlink(i) - 1]
  /\ Set(p, Idle) /\ Drop(p, Put(i))
  /\ UNCHANGED <<dtype, ents, gone, stray, iref, ilocked, cwd, file, dpanic>>

Iput(p) == iput(p) \/ iput_free(p) \/ iput_unlock(p) \/ iput_ref(p)
Step(p) ==
  \/ Iput(p) \/ namex(p) \/ namex_end(p) \/ chdir(p) \/ chdir_end(p)
  \/ create(p) \/ create_exists(p) \/ create_new(p) \/ create_end(p)
  \/ unlink(p) \/ unlink_entry(p) \/ unlink_end(p) \/ unlink_bad(p)
  \/ link(p) \/ link_entry(p) \/ link_exists(p) \/ link_bad(p)
  \/ \E rdonly \in BOOLEAN, room \in BOOLEAN : open(p, rdonly, room)

DNext ==
  /\ dpanic = "no"
  /\ \E p \in Proc : \/ Step(p) \/ close(p)
                     \/ \E c \in Calls[p] : call(p, c)

DSpec == DInit /\ [][DNext]_dvars

DFairness == \A p \in Proc : SF_dvars(Step(p))

-----------------------------------------------------------------------------
(* Properties.                                                             *)

\* A directory that can be reached by a name.
Named(i) == i = Root \/ \E d \in Inum, n \in Names : dtype[d] = "dir" /\ ents[d][n] = i

\* The entries that name i: "." is not counted ("avoid cyclic ref count"), and
\* ".." is for as long as the directory itself has a name.
Entries(i) == {<<d, n>> \in Inum \X (Names \cup {".."}) :
                 dtype[d] = "dir" /\ ents[d][n] = i /\ (n = ".." => Named(d) /\ d # i)}
Counted(i) == Cardinality(Entries(i)) + stray[i] + (IF i = Root THEN 1 ELSE 0)

\* An inode that has a name, is a current directory or is an open file is
\* allocated: it is not freed, and not handed out again, under them.  And the
\* links on disk never fall below the entries, in the middle of calls too:
\* link counts before it makes the entry and unlink after it cleared one.  A
\* directory is still empty when unlink takes its link, after the parent was
\* put.
NoneFreedInUse ==
  dpanic = "no" =>
    /\ \A i \in Inum : Entries(i) # {} => dtype[i] # "none" /\ Counted(i) <= dnlink[i]
    /\ \A p \in Proc : /\ pr[p].pc = "chdir2" \/ dtype[cwd[p]] = "dir"
                       /\ file[p] # NoInode => dtype[file[p]] # "none"
                       /\ pr[p].pc = "unlink3" /\ Type(pr[p].ip) = "dir" => Empty(pr[p].ip)

\* When no call is under way the two agree, for files, for directories and
\* after every failed link: what create, link, unlink and their bad paths add
\* and take away adds up.  (Entries made in a directory that has already been
\* removed are lost with it and stay counted: stray.)
LinksExact ==
  (dpanic = "no" /\ \A p \in Proc : At(p, "user")) =>
    \A i \in Inum : dtype[i] # "none" => Counted(i) = dnlink[i]

\* ref counts the current directories, the open files and the pointers calls
\* hold, exactly: on every path, failed ones included, each iget or idup meets
\* one iput.
Holds(p, i) ==
  (IF cwd[p] = i /\ pr[p].pc # "chdir2" THEN 1 ELSE 0) + (IF file[p] = i THEN 1 ELSE 0)
  + (IF pr[p].ip = i THEN 1 ELSE 0) + (IF pr[p].dp = i THEN 1 ELSE 0)
  + Cardinality({k \in DOMAIN drops[p] : drops[p][k].i = i})
RefsExact ==
  dpanic = "no" => \A i \in Inum : iref[i] = MapThenSumSet(LAMBDA p : Holds(p, i), Proc)

\* "ip->ref == 1 means no other process can have ip locked, so this
\* acquiresleep() won't block (or deadlock)": iput, which holds a spin lock
\* there, never meets a locked inode.
IputNeverBlocks ==
  \A p \in Proc : (drops[p] # <<>> /\ Head(drops[p]).at = "test") =>
    LET i == Head(drops[p]).i IN LastUse(i) => CanLock(i)

\* An inode that is cached and not locked is the one on disk: every change
\* is followed by its iupdate.
CacheMatchesDisk ==
  \A i \in Inum : (ivalid[i] = 1 /\ CanLock(i)) => itype[i] = dtype[i] /\ inlink[i] = dnlink[i]

\* The inode p's next step locks is held by q.
Locking(p) ==
  /\ drops[p] = <<>>
  /\ pr[p].pc \notin {"user", "chdir2", "create3", "unlink3", "unlink_bad", "link3"}
  /\ (pr[p].pc \in {"walk", "walk2"} => pr[p].path # <<>>)
Waits(p, q) == Locking(p) /\ ilocked[pr[p].ip] = q

\* Calls that hold one inode and lock another (create and unlink hold the
\* parent) never wait for themselves or for each other.
NoLockCycle == \A p, q \in Proc : ~(Waits(p, q) /\ Waits(q, p))

\* The kernel panics for want of inodes, or on ".." of a removed directory
\* whose parent is gone too (see UpStaysAllocated), and in no other way: no
\* race of calls brings ilock to a free inode by its name, or unlink to a link
\* count of 0.
PanicsKnown == dpanic \in {"no", "ialloc", "iget", "stale", "reused"}

\* "ilock: no type": ilock is never given an inode that is not allocated.
UpStaysAllocated == dpanic # "stale"

\* Every call returns: no inode lock is kept, and none is waited for in vain.
CallsEnd == \A p \in Proc : (pr[p].pc # "user") ~> (pr[p].pc = "user" \/ dpanic # "no")

=============================================================================
