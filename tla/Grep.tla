-------------------------------- MODULE Grep --------------------------------
(***************************************************************************)
(* user/grep.c: the matcher, and the loop that cuts what read returns, a   *)
(* piece at a time, into lines.                                            *)
(*                                                                         *)
(* Text and patterns are sequences of characters; "nl" is a newline.  buf  *)
(* keeps the m characters that are not dealt with yet.                     *)
(***************************************************************************)
EXTENDS Integers, Sequences, SequencesExt

CONSTANTS Patterns, Inputs,   \* sets of sequences of characters
          BUF                 \* sizeof(buf)

VARIABLES
  re, file,      \* the arguments: pattern, and what the file holds
  unread, buf,   \* the part that is not read yet; buf[0..m-1]
  out,           \* the lines written
  gdone

gvars == <<re, file, unread, buf, out, gdone>>

GInit ==
  /\ re \in Patterns /\ file \in Inputs
  /\ unread = file /\ buf = <<>> /\ out = <<>> /\ gdone = FALSE

-----------------------------------------------------------------------------
(* The matcher.                                                            *)

Fits(c, ch) == c = "." \/ c = ch

RECURSIVE matchhere(_, _)

\* The loop tries r after 0, 1, ... instances of c.
matchstar(c, r, text) ==
  \E k \in 0..Len(text) : /\ \A i \in 1..k : Fits(c, text[i])
                          /\ matchhere(r, SubSeq(text, k + 1, Len(text)))

matchhere(r, text) ==
  CASE r = <<>> -> TRUE
    [] Len(r) > 1 /\ r[2] = "*" -> matchstar(r[1], SubSeq(r, 3, Len(r)), text)
    [] r = <<"$">> -> text = <<>>
    [] OTHER -> text # <<>> /\ Fits(r[1], text[1]) /\ matchhere(Tail(r), Tail(text))

match(r, text) ==
  IF r # <<>> /\ r[1] = "^" THEN matchhere(Tail(r), text)
  ELSE \E i \in 1..(Len(text) + 1) : matchhere(r, SubSeq(text, i, Len(text)))

-----------------------------------------------------------------------------
(* grep.                                                                   *)

\* The newline-terminated lines at the front of s, and what follows the last.
Ends(s) == {i \in 1..Len(s) : s[i] = "nl"}
Cut(s) == LET e == SelectSeq([i \in 1..Len(s) |-> i], LAMBDA i : i \in Ends(s))
          IN [i \in 1..Len(e) |-> SubSeq(s, (IF i = 1 THEN 0 ELSE e[i - 1]) + 1, e[i] - 1)]
Rest(s) == LET last == IF Ends(s) = {} THEN 0 ELSE CHOOSE i \in Ends(s) : \A j \in Ends(s) : j <= i
           IN SubSeq(s, last + 1, Len(s))

\* Mutant: the start of a line is not kept for the next read.
Kept_not(s) == <<>>

\* memmove of what follows the last newline.
Kept(s) == Rest(s)

\* read(fd, buf+m, sizeof(buf)-m-1) returned n > 0.
read(n) ==
  LET got == buf \o SubSeq(unread, 1, n) IN
  /\ ~gdone /\ n <= Len(unread) /\ n <= BUF - Len(buf) - 1
  /\ out' = out \o SelectSeq(Cut(got), LAMBDA line : match(re, line))
  /\ buf' = Kept(got)
  /\ unread' = SubSeq(unread, n + 1, Len(unread))
  /\ UNCHANGED <<re, file, gdone>>

\* It returned 0: the end of the file, or no room left in buf.
read_end ==
  /\ ~gdone /\ (unread = <<>> \/ Len(buf) = BUF - 1)
  /\ gdone' = TRUE
  /\ UNCHANGED <<re, file, unread, buf, out>>

GNext == read_end \/ \E n \in 1..BUF : read(n)
GSpec == GInit /\ [][GNext]_gvars

-----------------------------------------------------------------------------
(* Properties.                                                             *)

\* What a pattern means, item by item: "*" after an item repeats it, "$" at
\* the end is the end of the text, "." any character.
Starred(r, i) == i < Len(r) /\ r[i + 1] = "*"
RECURSIVE Items(_)
Items(r) == CASE r = <<>> -> <<>>
              [] Starred(r, 1) -> <<<<r[1], "star">>>> \o Items(SubSeq(r, 3, Len(r)))
              [] r = <<"$">> -> <<<<"$", "end">>>>
              [] OTHER -> <<<<r[1], "one">>>> \o Items(Tail(r))

\* Item k takes the text from position at[k] up to at[k + 1].
Takes(item, text, from, to) ==
  CASE item[2] = "end" -> from = to /\ to = Len(text)
    [] item[2] = "one" -> to = from + 1 /\ Fits(item[1], text[to])
    [] item[2] = "star" -> from <= to /\ \A i \in (from + 1)..to : Fits(item[1], text[i])
Means(r, text) ==
  LET anchored == r # <<>> /\ r[1] = "^"
      items == Items(IF anchored THEN Tail(r) ELSE r)
  IN \E at \in [1..(Len(items) + 1) -> 0..Len(text)] :
       /\ anchored => at[1] = 0
       /\ \A k \in 1..Len(items) : Takes(items[k], text, at[k], at[k + 1])

\* The matcher finds a match exactly when the pattern, read as a regular
\* expression, has one in the line.
MatchIsMeaning ==
  unread = file => \A i \in 1..Len(Cut(file)) : match(re, Cut(file)[i]) = Means(re, Cut(file)[i])

\* However read cuts the file, the lines written are the lines that match,
\* whole and in order; all of them if every line fits in buf.
Selected == SelectSeq(Cut(file), LAMBDA line : match(re, line))
LinesFiltered ==
  /\ IsPrefix(out, Selected)
  /\ gdone /\ (\A i \in 1..Len(Cut(file)) : Len(Cut(file)[i]) < BUF - 1) /\ Len(Rest(file)) < BUF
       => out = Selected
=============================================================================
