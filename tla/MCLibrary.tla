----------------------------- MODULE MCLibrary -----------------------------
(* Library and ShParser over all small arguments, a step adding a character *)
(* to one; and beside them Malloc and Mkfs.                                 *)
EXTENDS Library

CONSTANTS
  MAXARGS,
  HEADER, NALLOC, BRKMAX, Sizes,
  LOGSTART, NLOG, BPG, IPG, IPB, NGROUPS, BSIZE, NDIRECT, NINDIRECT, MaxFiles, EntryMax
VARIABLES arg, heap, live, freeblock, freeinode, din, used

Sh == INSTANCE ShParser
Mal == INSTANCE Malloc
Mk == INSTANCE Mkfs

mallocVars == <<heap, live>>
mkfsVars == <<freeblock, freeinode, din, used>>

Strings(chars, n) == UNION {[1..k -> chars] : k \in 0..n}

(* The first character of a line, pattern or path, and longer ones after.   *)
Alphabet(fn) ==
  CASE fn = "parse" -> {"a", " ", "|", ">", "(", ")", ";", "&"}
    [] fn = "match" -> {"a", "b", ".", "*", "^", "$"}
    [] fn = "path" -> {"a", "b", "/"}
    [] fn = "names" -> {"a", "b"}
Longest(fn) == CASE fn = "parse" -> 5 [] fn = "match" -> 4 [] fn = "path" -> 6 [] fn = "names" -> 3

Init ==
  /\ \/ arg \in [fn : {"parse", "match", "path", "names"}, s : {<<>>}]
     \/ arg \in [fn : {"memmove"}, dst : 0..4, src : 0..4, n : 0..3]
     \/ arg \in [fn : {"args"}, addr : 0..(LWORD - 1), n : -1..(LWORD \div 2 - 1), sz : 0..(LWORD \div 2)]
     \/ arg \in [fn : {"print"}, x : (-(LWORD \div 2))..(LWORD \div 2 - 1), b : {10, 16}]
     \/ arg \in [fn : {"malloc", "mkfs"}]
  /\ Mal!MallocInit /\ Mk!MkfsInit

Grow ==
  /\ arg.fn \in {"parse", "match", "path", "names"} /\ Len(arg.s) < Longest(arg.fn)
  /\ \E c \in Alphabet(arg.fn) : arg' = [arg EXCEPT !.s = Append(@, c)]
  /\ UNCHANGED <<mallocVars, mkfsVars>>

Next ==
  \/ Grow
  \/ arg.fn = "malloc" /\ Mal!MallocNext /\ UNCHANGED <<arg, mkfsVars>>
  \/ arg.fn = "mkfs" /\ Mk!MkfsNext /\ UNCHANGED <<arg, mallocVars>>

(* A pattern as grep takes it: ^ first, $ last, * after a character.        *)
Pattern(re) == \A i \in DOMAIN re :
  /\ re[i] = "^" => i = 1 /\ Ch(re, 2) # "*"
  /\ re[i] = "$" => i = Len(re)
  /\ re[i] = "*" => i > 1 /\ re[i - 1] \notin {"*", "^"}

(* ShParser, over lines of five characters: the parser accepts the lines of *)
(* the grammar, and its tree has their words and operators.                 *)
ParserRight == arg.fn = "parse" => Sh!ParserRight(arg.s)
(* Library, over patterns of four and texts of three characters, paths of   *)
(* six, names around DIRSIZ, moves in a memory of eight distinct bytes and  *)
(* every number: matching, splitting, comparing, copying and printing agree *)
(* with their references.                                                   *)
StringsRight ==
  /\ arg.fn = "match" /\ Pattern(arg.s) => \A t \in Strings({"a", "b"}, 3) : MatchDenotes(arg.s, t)
  /\ arg.fn = "path" => PathSplit(arg.s)
  /\ arg.fn = "names" => \A t \in Strings({"a", "b"}, 3) : NamesAgree(arg.s, t)
  /\ arg.fn = "memmove" => MemmoveCopies([a \in 0..7 |-> a], arg.dst, arg.src, arg.n)
  /\ arg.fn = "print" => PrintedRight(arg.x, arg.b)
(* Library: what the argument checks let through lies inside the process.   *)
ArgsChecked == arg.fn = "args" => ArgsInside(arg.addr, arg.n, arg.sz)
(* Malloc: no sequence of calls overlaps two blocks, loses a unit or leaves *)
(* free neighbours apart.                                                   *)
HeapSound == arg.fn = "malloc" => Mal!HeapSound
(* Mkfs: the image is as the kernel takes it over, and no file has a hole,  *)
(* but for the root where its last block is full.                           *)
ImageOK == arg.fn = "mkfs" => Mk!ImageOK /\ Mk!NoHoleButRoot
=============================================================================
