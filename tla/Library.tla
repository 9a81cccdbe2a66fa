------------------------------- MODULE Library -------------------------------
(***************************************************************************)
(* The sequential helpers of string.c, ulib.c, console.c, syscall.c, fs.c  *)
(* and grep.c as functions of their arguments, each with a reference that  *)
(* says what it is for.  A string is a sequence of characters without its  *)
(* NUL; memory is a function of addresses; unsigned numbers wrap at LWORD. *)
(***************************************************************************)
EXTENDS Integers, Sequences, FiniteSetsExt, SequencesExt

CONSTANTS LWORD, DIRSIZ, NUL

(* s[i], with the NUL behind the string.                                     *)
Ch(s, i) == IF i <= Len(s) THEN s[i] ELSE NUL

-----------------------------------------------------------------------------
(* string.c *)
CopyFrom(mem, dst, src, order) ==
  FoldLeft(LAMBDA a, k : [a EXCEPT ![dst + k] = a[src + k]], mem, order)
Up(n) == [k \in 1..n |-> k - 1]

(* memmove(): from the end when the destination overlaps from above.         *)
memmove(mem, dst, src, n) ==
  IF src < dst /\ src + n > dst THEN CopyFrom(mem, dst, src, Reverse(Up(n)))
  ELSE CopyFrom(mem, dst, src, Up(n))

(* ulib.c's memmove().                                                       *)
ulib_memmove(mem, dst, src, n) == CopyFrom(mem, dst, src, Up(n))

(* strncpy(): n bytes, padded; no NUL if t is too long.                      *)
strncpy(t, n) == [i \in 1..n |-> Ch(t, i)]

(* safestrcpy(): n - 1 bytes at most, and a NUL.                             *)
safestrcpy(t, n) ==
  IF n <= 0 THEN <<>> ELSE Append(SubSeq(t, 1, Min({Len(t), n - 1})), NUL)

(* strncmp(): 0 or not, at the first difference or NUL.                      *)
strncmp(p, q, n) ==
  LET stop == {i \in 1..n : Ch(p, i) = NUL \/ Ch(p, i) # Ch(q, i)}
  IN IF stop = {} THEN 0 ELSE IF Ch(p, Min(stop)) = Ch(q, Min(stop)) THEN 0 ELSE 1

(* ulib.c's strcmp().                                                        *)
strcmp(p, q) == strncmp(p, q, Len(p) + 1)

(* What memmove() is for: every byte as it was before, also when the regions *)
(* overlap; ulib.c's copies downwards only.                                  *)
MemmoveCopies(mem, dst, src, n) ==
  LET copied == [a \in DOMAIN mem |-> IF a \in dst..(dst + n - 1) THEN mem[a - dst + src] ELSE mem[a]]
  IN /\ memmove(mem, dst, src, n) = copied
     /\ dst <= src => ulib_memmove(mem, dst, src, n) = copied

(* A name stored by dirlink() with strncpy() is found by namecmp() exactly   *)
(* under the names that agree in DIRSIZ characters; p->name always ends.     *)
NamesAgree(s, t) ==
  LET Cut(x) == SubSeq(x, 1, Min({Len(x), DIRSIZ}))
  IN /\ (strncmp(t, strncpy(s, DIRSIZ), DIRSIZ) = 0) = (Cut(s) = Cut(t))
     /\ (strcmp(s, t) = 0) = (s = t)
     /\ \A n \in 1..3 : Last(safestrcpy(s, n)) = NUL /\ Len(safestrcpy(s, n)) <= n

-----------------------------------------------------------------------------
(* fs.c: skipelem() on the path from position i, its name and what follows.  *)
Slashes(p, i) == Min({k \in i..(Len(p) + 1) : Ch(p, k) # "/"})

skipelem(p, i) ==
  LET s == Slashes(p, i)
      e == Min({k \in s..(Len(p) + 1) : Ch(p, k) \in {"/", NUL}})
  IN IF Ch(p, s) = NUL THEN [found |-> FALSE, name |-> <<>>, rest |-> 0]
     ELSE [found |-> TRUE, name |-> SubSeq(p, s, Min({e - 1, s + DIRSIZ - 1})), rest |-> Slashes(p, e)]

(* The loop of namex() over a path: the names, and where nameiparent()       *)
(* stops because the rest is empty.                                          *)
RECURSIVE Elems(_, _)
Elems(p, i) ==
  LET r == skipelem(p, i)
  IN IF ~r.found THEN <<>> ELSE <<[name |-> r.name, last |-> Ch(p, r.rest) = NUL]>> \o Elems(p, r.rest)

(* The elements of a path are its runs without slashes, cut at DIRSIZ, and   *)
(* only the last of them is taken for the last.                              *)
PathSplit(p) ==
  LET starts == {i \in DOMAIN p : p[i] # "/" /\ (i = 1 \/ p[i - 1] = "/")}
      seq == SetToSortSeq(starts, <)
      e == Elems(p, 1)
      End(i) == Min({k \in i..(Len(p) + 1) : Ch(p, k) \in {"/", NUL}}) - 1
  IN /\ Len(e) = Len(seq)
     /\ \A k \in DOMAIN e : /\ e[k].name = SubSeq(p, seq[k], Min({End(seq[k]), seq[k] + DIRSIZ - 1}))
                            /\ e[k].last = (k = Len(e))

-----------------------------------------------------------------------------
(* console.c and printf.c: printint() of an int of LWORD values.             *)
Unsigned(x) == x % LWORD
RECURSIVE DigitsOf(_, _)
DigitsOf(x, b) == IF x < b THEN <<x>> ELSE Append(DigitsOf(x \div b, b), x % b)

Magnitude(xx, sign) == Unsigned(IF sign /\ xx < 0 THEN -xx ELSE xx)

printint(xx, b, sign) == [neg |-> sign /\ xx < 0, digits |-> DigitsOf(Magnitude(xx, sign), b)]

(* ulib.c: atoi() up to the first character that is no digit.                *)
Signed(x) == IF x % LWORD >= LWORD \div 2 THEN (x % LWORD) - LWORD ELSE x % LWORD
atoi(s) ==
  LET end == Min({i \in 1..(Len(s) + 1) : i = Len(s) + 1 \/ s[i] \notin 0..9})
  IN Signed(FoldLeft(LAMBDA n, d : n * 10 + d, 0, SubSeq(s, 1, end - 1)))

(* What is printed denotes the number, the least one included, and atoi()    *)
(* reads back what %d printed of a number that is not negative.              *)
PrintedRight(x, b) ==
  LET Value(s) == FoldLeft(LAMBDA n, d : n * b + d, 0, s)
      d == printint(x, b, TRUE) u == printint(x, b, FALSE)
  IN /\ Value(d.digits) * (IF d.neg THEN -1 ELSE 1) = x
     /\ Value(u.digits) = x % LWORD
     /\ b = 10 /\ x >= 0 => atoi(d.digits) = x

-----------------------------------------------------------------------------
(* syscall.c: arguments in the memory of a process of size sz.               *)
(* Mutant: the end is compared only.                                         *)
InProcessEndOnly(addr, size, sz) == (addr + size) % LWORD <= sz

InProcess(addr, size, sz) == addr < sz /\ (addr + size) % LWORD <= sz

fetchint(addr, sz) == InProcess(addr, 4, sz)
argint(esp, n, sz) == fetchint((esp + 4 + 4 * n) % LWORD, sz)
argptr(addr, size, sz) == size >= 0 /\ InProcess(addr, size, sz)

(* fetchstr(): the length, or -1; zeros are the addresses that hold a NUL.   *)
fetchstr(addr, zeros, sz) ==
  LET end == {a \in zeros : a >= addr /\ a < sz}
  IN IF addr >= sz \/ end = {} THEN -1 ELSE Min(end) - addr

(* An int, block or string that is accepted lies below sz entirely, for all  *)
(* registers and sizes: sums that wrap do not get through.                   *)
ArgsInside(addr, n, sz) ==
  /\ fetchint(addr, sz) => addr + 4 <= sz
  /\ argptr(addr, n, sz) => addr + n <= sz
  /\ argint(addr, 1, sz) => ((addr + 8) % LWORD) + 4 <= sz
  /\ \A z \in 0..(LWORD - 1) : fetchstr(addr, {z}, sz) >= 0 => addr + fetchstr(addr, {z}, sz) < sz

-----------------------------------------------------------------------------
(* grep.c *)
RECURSIVE matchhere(_, _), matchstar(_, _, _)
From(s, i) == SubSeq(s, i, Len(s))

(* Mutant: at least one instance.                                            *)
StarFirstOne == 2

StarFirst == 1

(* matchstar(): the rest is tried after each further instance of c.          *)
matchstar(c, re, text) ==
  \E i \in StarFirst..(Len(text) + 1) :
    /\ matchhere(re, From(text, i))
    /\ \A k \in 1..(i - 1) : text[k] = c \/ c = "."

matchhere(re, text) ==
  \/ re = <<>>
  \/ re # <<>> /\
     IF Ch(re, 2) = "*" THEN matchstar(re[1], From(re, 3), text)
     ELSE IF re = <<"$">> THEN text = <<>>
     ELSE text # <<>> /\ re[1] \in {".", text[1]} /\ matchhere(Tail(re), Tail(text))

match(re, text) ==
  IF Ch(re, 1) = "^" THEN matchhere(Tail(re), text)
  ELSE \E i \in 1..(Len(text) + 1) : matchhere(re, From(text, i))

(* The reference: a pattern denotes the set of strings, out of those given,  *)
(* that it matches as a whole.                                               *)
RECURSIVE Denotes(_, _)
Denotes(re, strings) ==
  IF re = <<>> THEN {<<>>}
  ELSE LET star == Ch(re, 2) = "*"
           rest == Denotes(From(re, IF star THEN 3 ELSE 2), strings)
           One(s) == Len(s) = 1 /\ re[1] \in {".", s[1]}
           Many(s) == \A i \in DOMAIN s : re[1] \in {".", s[i]}
       IN {s \in strings : \E k \in 0..Len(s) :
             /\ IF star THEN Many(SubSeq(s, 1, k)) ELSE One(SubSeq(s, 1, k))
             /\ From(s, k + 1) \in rest}

(* grep prints a line exactly if the pattern denotes some part of it, at its *)
(* start after ^ and up to its end before $.                                 *)
MatchDenotes(re, text) ==
  LET left == Ch(re, 1) = "^"
      r1 == IF left THEN Tail(re) ELSE re
      right == r1 # <<>> /\ Last(r1) = "$"
      r2 == IF right THEN Front(r1) ELSE r1
      parts == {SubSeq(text, i, k) : i \in 1..(Len(text) + 1), k \in 0..Len(text)}
  IN match(re, text) = \E i \in 1..(Len(text) + 1) : \E k \in (i - 1)..Len(text) :
       (left => i = 1) /\ (right => k = Len(text)) /\ SubSeq(text, i, k) \in Denotes(r2, parts)
=============================================================================
