------------------------------- MODULE Console -------------------------------
(***************************************************************************)
(* The console of console.c: keys edit a line in a ring buffer, processes  *)
(* read it under cons.lock, and what is echoed or written moves the cursor *)
(* of the CGA screen.  The indices of the ring are unsigned integers that  *)
(* wrap at WORD.                                                           *)
(***************************************************************************)
EXTENDS Integers, Sequences, FiniteSetsExt

CONSTANTS INPUT_BUF, WORD, CReaders, Counts, ROWS, COLS

(* The size of the ring divides the range of its indices.                    *)
ASSUME ConsoleAssumption ==
  /\ INPUT_BUF \in Nat \ {0} /\ WORD \in Nat /\ INPUT_BUF < WORD /\ WORD % INPUT_BUF = 0
  /\ 0 \notin CReaders /\ Counts \subseteq Nat \ {0}
  /\ ROWS \in Nat /\ ROWS >= 2 /\ COLS \in Nat \ {0}

VARIABLES
  input,    \* buf, and the indices r, w and e
  holder,   \* of cons.lock: a reader or 0
  rd,       \* a reader's call
  pos,      \* the cursor
  cpanic

consoleVars == <<input, holder, rd, pos, cpanic>>

Keys == {"a", "\n", "^D", "^H", "^U", "NUL"}
Resting == [pc |-> "user", n |-> 0, target |-> 0, killed |-> FALSE]

ConsoleInit ==
  /\ input = [buf |-> [i \in 0..(INPUT_BUF - 1) |-> "NUL"], r |-> 0, w |-> 0, e |-> 0]
  /\ holder = 0 /\ rd = [p \in CReaders |-> Resting]
  /\ pos = 0 /\ cpanic = FALSE

Sub(a, b) == (a - b) % WORD
Add(a, b) == (a + b) % WORD
Slot(i) == i % INPUT_BUF

-----------------------------------------------------------------------------
(* Mutant: the screen scrolls a line too late.                               *)
ScrollLate(q) == IF q \div COLS >= ROWS THEN q - COLS ELSE q

Scroll(q) == IF q \div COLS >= ROWS - 1 THEN q - COLS ELSE q

(* cgaputc(): the cursor after a character, before the screen scrolls.       *)
cga(c, q) ==
  IF c = "\n" THEN q + COLS - (q % COLS)
  ELSE IF c = "BACKSPACE" THEN (IF q > 0 THEN q - 1 ELSE q)
  ELSE q + 1

consputc(c) ==
  /\ cpanic' = (cga(c, pos) \notin 0..(ROWS * COLS))
  /\ pos' = Scroll(cga(c, pos))

(* n times BACKSPACE never scrolls.                                          *)
Rubout(n) == pos' = (IF n <= pos THEN pos - n ELSE 0) /\ UNCHANGED cpanic

(* Mutant: nobody is woken.                                                  *)
wakeupNobody == rd

(* wakeup(&input.r).                                                         *)
wakeupReaders == [p \in CReaders |-> IF rd[p].pc = "sleep" THEN [rd[p] EXCEPT !.pc = "read"] ELSE rd[p]]

(* Mutant: room is left for what has been read, not for what has not.        *)
RoomByWrite == Sub(input.e, input.w) < INPUT_BUF

Room == Sub(input.e, input.r) < INPUT_BUF

LineDone(c, e) == c \in {"\n", "^D"} \/ e = Add(input.r, INPUT_BUF)

(* How many characters ^U removes: back to w or to a newline.                *)
LineTail ==
  Max({k \in 0..Sub(input.e, input.w) : \A i \in 1..k : input.buf[Slot(Sub(input.e, i))] # "\n"})

(* consoleintr(): a key.                                                     *)
Key(c) ==
  /\ holder = 0
  /\ CASE c = "^U" ->
            /\ input' = [input EXCEPT !.e = Sub(@, LineTail)]
            /\ Rubout(LineTail) /\ UNCHANGED rd
       [] c = "^H" ->
            /\ input.e # input.w
            /\ input' = [input EXCEPT !.e = Sub(@, 1)]
            /\ Rubout(1) /\ UNCHANGED rd
       [] OTHER ->
            LET e == Add(input.e, 1)
            IN /\ c # "NUL" /\ Room
               /\ input' = [input EXCEPT !.buf[Slot(input.e)] = c, !.e = e,
                                         !.w = IF LineDone(c, e) THEN e ELSE @]
               /\ consputc(c)
               /\ rd' = IF LineDone(c, e) THEN wakeupReaders ELSE rd
  /\ UNCHANGED holder

-----------------------------------------------------------------------------
RGo(p, r) == rd' = [rd EXCEPT ![p] = r]
Return(p) == RGo(p, [Resting EXCEPT !.killed = rd[p].killed]) /\ holder' = 0

(* consoleread(): the lock is held from here to a sleep or the return.       *)
Read(p, n) ==
  /\ rd[p].pc = "user" /\ ~rd[p].killed
  /\ RGo(p, [Resting EXCEPT !.pc = "read", !.n = n, !.target = n])
  /\ UNCHANGED <<input, holder, pos, cpanic>>

Lock(p) ==
  /\ rd[p].pc = "read" /\ holder = 0
  /\ holder' = p /\ RGo(p, [rd[p] EXCEPT !.pc = "locked"])
  /\ UNCHANGED <<input, pos, cpanic>>

(* Mutant: ^D is taken out even if bytes were read before it.                *)
EofTaken(p) == Add(input.r, 1)

(* "Save ^D for next time, to make sure caller gets a 0-byte result."        *)
Eof(p) == IF rd[p].n < rd[p].target THEN input.r ELSE Add(input.r, 1)

ReadChar(p) ==
  LET c == input.buf[Slot(input.r)]
  IN /\ rd[p].pc = "locked" /\ input.r # input.w
     /\ IF c = "^D" THEN input' = [input EXCEPT !.r = Eof(p)] /\ Return(p)
        ELSE /\ input' = [input EXCEPT !.r = Add(@, 1)]
             /\ IF c = "\n" \/ rd[p].n = 1 THEN Return(p)
                ELSE RGo(p, [rd[p] EXCEPT !.n = @ - 1]) /\ UNCHANGED holder
     /\ UNCHANGED <<pos, cpanic>>

(* Nothing to read: a killed process returns, another goes to sleep, which   *)
(* releases the lock.  kill() does not take the lock and may come between.   *)
ReadEmpty(p) ==
  /\ rd[p].pc = "locked" /\ input.r = input.w
  /\ IF rd[p].killed THEN Return(p)
     ELSE RGo(p, [rd[p] EXCEPT !.pc = "drowsy"]) /\ UNCHANGED holder
  /\ UNCHANGED <<input, pos, cpanic>>

Sleep(p) ==
  /\ rd[p].pc = "drowsy"
  /\ RGo(p, [rd[p] EXCEPT !.pc = "sleep"]) /\ holder' = 0
  /\ UNCHANGED <<input, pos, cpanic>>

(* kill() of a reader, anywhere in the call.                                 *)
Kill(p) ==
  /\ rd[p].pc # "user" /\ ~rd[p].killed
  /\ RGo(p, [rd[p] EXCEPT !.killed = TRUE, !.pc = IF @ = "sleep" THEN "read" ELSE @])
  /\ UNCHANGED <<input, holder, pos, cpanic>>

(* A killed process is replaced by another.                                  *)
Replace(p) ==
  /\ rd[p].pc = "user" /\ rd[p].killed
  /\ RGo(p, Resting)
  /\ UNCHANGED <<input, holder, pos, cpanic>>

(* consolewrite(): a character of a process.                                 *)
Write(c) ==
  /\ holder = 0 /\ consputc(c)
  /\ UNCHANGED <<input, holder, rd>>

ReaderStep(p) == Lock(p) \/ ReadChar(p) \/ ReadEmpty(p) \/ Sleep(p)

ConsoleNext ==
  /\ ~cpanic
  /\ \/ \E c \in Keys : Key(c)
     \/ \E c \in {"a", "\n"} : Write(c)
     \/ \E p \in CReaders : (\E n \in Counts : Read(p, n)) \/ ReaderStep(p) \/ Kill(p) \/ Replace(p)

(* A reader that can run runs.                                               *)
ConsoleFairness == \A p \in CReaders : WF_consoleVars(ReaderStep(p))

ConsoleSpec == ConsoleInit /\ [][ConsoleNext]_consoleVars

-----------------------------------------------------------------------------
(* The characters of the ring from index a on up to b.                       *)
Text(a, b) == [i \in 1..Sub(b, a) |-> input.buf[Slot(Add(a, i - 1))]]

(* The ring is the line discipline: readers take the finished lines in the   *)
(* order typed, and editing reaches only the line that is not finished, also *)
(* when the indices wrap or the buffer is full.                              *)
Discipline == INSTANCE LineDiscipline WITH
  lines <- Text(input.r, input.w), edit <- Text(input.w, input.e),
  Cap <- INPUT_BUF, Chars <- {"a"}, Enders <- {"\n", "^D"}
ConsoleIsDiscipline == Discipline!LineSpec

(* An end of file ends one read that returns nothing, never one with bytes.  *)
EofAlone ==
  [][\A p \in CReaders :
       holder = p /\ input'.r # input.r /\ input.buf[Slot(input.r)] = "^D" =>
         rd[p].n = rd[p].target /\ rd'[p].pc = "user"]_consoleVars

(* A reader sleeps only while there is nothing to read: no wakeup is lost.   *)
SleepJustified == \A p \in CReaders : rd[p].pc = "sleep" => input.r = input.w

(* The cursor stays on the screen's rows, and cgaputc() never panics.        *)
OnScreen == pos \in 0..((ROWS - 1) * COLS - 1) /\ ~cpanic

(* A killed reader leaves consoleread(), with one reader at a time; but one  *)
(* that is killed after its test of the flag may sleep until a line is there. *)
KilledReturns ==
  \A p \in CReaders : rd[p].killed /\ rd[p].pc \in {"read", "locked"} ~> rd[p].pc = "user"

(* What is there to read is taken by a reader that is in its call.           *)
InputTaken ==
  \A p \in CReaders :
    rd[p].pc # "user" /\ input.r # input.w ~> rd[p].pc = "user" \/ input.r = input.w

(* A read ends when there is something to read, or when its reader is killed. *)
ReadersServed == InputTaken /\ KilledReturns
=============================================================================
