------------------------------- MODULE MCUser -------------------------------
(* Processes, the programs that depend on them, and the two allocators that *)
(* split and join blocks, for TLC: exit and wait, the shell's parser, the   *)
(* commands it runs, malloc, and the kernel's buddy allocator; grep, the    *)
(* sieve of processes, the image mkfs makes, and the loops over strings.    *)
(* part names the one that runs; the variables of the others are 0, the     *)
(* process table's apart.                                                   *)
EXTENDS Proc, SequencesExt

VARIABLES line, cmds, starved, node, freep, brk, given, gaps, endless,
          left, right, free, alloc, split, held, dangling, bpanic,
          re, file, unread, buf, out, gdone,
          fds, pcs, pipes, pd, previous, next, printed, short,
          dinode, sect, freeinode, freeblock, bitmap, sizes, mdone,
          before, cells, did, part

uv == <<node, freep, brk, given, gaps, endless>>
bv == <<left, right, free, alloc, split, held, dangling, bpanic>>
gv == <<re, file, unread, buf, out, gdone>>
sv == <<fds, pcs, pipes, pd, previous, next, printed, short>>
mv == <<dinode, sect, freeinode, freeblock, bitmap, sizes, mdone>>
tv == <<before, cells, did>>
shv == <<line, cmds, starved>>
uservars == <<vars, shv, uv, bv, gv, sv, mv, tv, part>>

\* The commands typed: pipelines whose left side is endless, or nested;
\* a background job beside a pipeline; a redirected list.
Ends == <<"exec", "true">>
Reads == <<"exec", "cat">>
Yes == <<"exec", "yes">>
Lines ==
  {<<"pipe", Yes, Ends>>,
   <<"pipe", Ends, <<"pipe", Reads, Reads>>>>,
   <<"list", <<"back", <<"redir", Ends, 1>>>>, <<"pipe", Reads, Reads>>>>,
   <<"redir", <<"list", Ends, <<"exec", "">>>>, 0>>}

P == INSTANCE ShParse WITH Chars <- {"a", " ", "|", "&", ";", ">", "(", ")"},
                           MaxLine <- 5, MAXARGS <- 3
R == INSTANCE ShRun WITH NPROC <- 5, NOFILE <- 5, NPIPE <- 2, procs <- cmds
U == INSTANCE Umalloc WITH MinCore <- 4, MaxBrk <- 13, Requests <- {2, 3, 5}
B == INSTANCE Buddy WITH MAXSIZE <- 4, Lefts <- {1, 3, 6}, MaxHeld <- 4
G == INSTANCE Grep WITH Patterns <- BoundedSeq({"a", ".", "*", "$", "^"}, 3),
                        Inputs <- BoundedSeq({"a", "b", "nl"}, 4), BUF <- 4
S == INSTANCE Primes WITH MaxNum <- 35, PIPESIZE <- 34, NOFILE <- 16
M == INSTANCE Mkfs WITH BSIZE <- 2, NDIRECT <- 1, nmeta <- 3, FSSIZE <- 24, NINODES <- 5,
                        FileSizes <- {0, 1, 2, 3, 5, 6}
T == INSTANCE Strings WITH N <- 5, Chars <- {0, 1, 2}, Width <- 5, Bases <- {10, 16}

UserInit ==
  /\ part \in {"process", "parser", "shell", "heap", "buddy", "grep", "sieve", "image",
              "strings"}
  /\ Init
  /\ IF part = "parser" THEN P!PInit ELSE line = 0
  /\ IF part = "shell" THEN R!RInit ELSE cmds = 0 /\ starved = 0
  /\ IF part = "heap" THEN U!UInit
     ELSE node = 0 /\ freep = 0 /\ brk = 0 /\ given = 0 /\ gaps = 0 /\ endless = 0
  /\ IF part = "buddy" THEN B!BInit
     ELSE /\ left = 0 /\ right = 0 /\ free = 0 /\ alloc = 0 /\ split = 0 /\ held = 0
          /\ dangling = 0 /\ bpanic = 0
  /\ IF part = "grep" THEN G!GInit
     ELSE re = 0 /\ file = 0 /\ unread = 0 /\ buf = 0 /\ out = 0 /\ gdone = 0
  /\ IF part = "sieve" THEN S!SInit
     ELSE /\ fds = 0 /\ pcs = 0 /\ pipes = 0 /\ pd = 0 /\ previous = 0
          /\ next = 0 /\ printed = 0 /\ short = 0
  /\ IF part = "image" THEN M!MInit
     ELSE /\ dinode = 0 /\ sect = 0 /\ freeinode = 0 /\ freeblock = 0 /\ bitmap = 0
          /\ sizes = 0 /\ mdone = 0
  /\ IF part = "strings" THEN T!TInit ELSE before = 0 /\ cells = 0 /\ did = 0

UserNext ==
  \/ part = "process" /\ Next /\ UNCHANGED <<shv, uv, bv, gv, sv, mv, tv, part>>
  \/ part = "parser" /\ P!PNext /\ UNCHANGED <<vars, cmds, starved, uv, bv, gv, sv, mv, tv, part>>
  \/ part = "shell" /\ R!RNext /\ UNCHANGED <<vars, line, uv, bv, gv, sv, mv, tv, part>>
  \/ part = "heap" /\ U!UNext /\ UNCHANGED <<vars, shv, bv, gv, sv, mv, tv, part>>
  \/ part = "buddy" /\ B!BNext /\ UNCHANGED <<vars, shv, uv, gv, sv, mv, tv, part>>
  \/ part = "grep" /\ G!GNext /\ UNCHANGED <<vars, shv, uv, bv, sv, mv, tv, part>>
  \/ part = "sieve" /\ S!SNext /\ UNCHANGED <<vars, shv, uv, bv, gv, mv, tv, part>>
  \/ part = "image" /\ M!MNext /\ UNCHANGED <<vars, shv, uv, bv, gv, sv, tv, part>>
  \/ part = "strings" /\ T!TNext /\ UNCHANGED <<vars, shv, uv, bv, gv, sv, mv, part>>

UserSpec == UserInit /\ [][UserNext]_uservars

-----------------------------------------------------------------------------
(* The components' properties, by their names.                             *)

\* sh.c's parser builds a tree with every word and symbol of the line in it,
\* the strings nulterminate leaves are the words, and the parentheses match.
LineParsed == part = "parser" => P!NothingDropped /\ P!StringsKept /\ P!Balanced

\* A program that runcmd starts has the input and output its line gives it, a
\* shell that waits holds no end of a pipe, and it prompts again only when
\* the commands in the foreground have ended.
PipelinesRun == part = "shell" => R!StdioConnected /\ R!WaitersHoldNoPipe /\ R!PromptMeansDone

\* malloc and free: every unit that sbrk gave is in one block, and the free
\* list is one circle in address order without adjacent blocks.
HeapIntact == part = "heap" => U!UnitsAccounted /\ U!ListIsCircle /\ U!Joined

\* bd_malloc and bd_free never give a byte to two holders nor lose one, find
\* the size a block was allocated with, and leave no two free buddies apart.
BuddiesIntact == part = "buddy" => B!HeapPartitioned /\ B!SizeFound /\ B!Merged

\* grep writes the lines in which the pattern, read as a regular expression,
\* has a match, however read cuts the file.
LinesFiltered == part = "grep" => G!MatchIsMeaning /\ G!LinesFiltered

\* primes prints the primes, all of them if no fork fails, and its parent and
\* child never wait for each other.
PrintsPrimes == part = "sieve" => S!PrintsPrimes /\ S!NeverStuck

\* What mkfs put into the image is found through the inodes it wrote, and the
\* bitmap has the blocks used, each of which has one use.
ImageReadsBack == part = "image" => M!ImageReadsBack /\ M!BitmapExact

\* memmove moves what the source held however the two overlap, the copies of
\* names stay within n bytes and keep the name, printint prints the number.
StringsKept == part = "strings" => T!MovesWhole /\ T!NamesKept /\ T!PrintsNumber

=============================================================================
