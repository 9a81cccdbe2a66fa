---------------------------- MODULE DeviceProofs ----------------------------
(***************************************************************************)
(* The safety properties of Console and Clock, for any number of readers   *)
(* and sleepers, any size of the ring, of the screen and of the counters,  *)
(* and that the console implements LineDiscipline.                         *)
(***************************************************************************)
EXTENDS Console, Clock, TLAPS

Indices == 0..(WORD - 1)
Stored == {"a", "\n", "^D", "NUL"}
Bufs == [0..(INPUT_BUF - 1) -> Stored]

Calls == [pc : {"user", "read", "locked", "drowsy", "sleep"},
          n : Nat, target : Nat, killed : BOOLEAN]

(* What is in the ring, what its reader has, and where the cursor is.       *)
ConsoleTypeOK ==
  /\ input \in [buf : Bufs, r : Indices, w : Indices, e : Indices]
  /\ rd \in [CReaders -> Calls]
  /\ pos \in Int /\ cpanic \in BOOLEAN

(* r, w and e follow each other on the circle of unsigned integers, not     *)
(* further apart than the ring, and the line that is edited has no end yet. *)
RingOK(b, r, w, e) ==
  /\ Sub(e, r) = Sub(w, r) + Sub(e, w) /\ Sub(e, r) <= INPUT_BUF
  /\ \A i \in Nat : i < Sub(e, w) => b[Slot(Add(w, i))] = "a"
RingInv == RingOK(input.buf, input.r, input.w, input.e)

(* The reader that holds cons.lock is the one at work, and one that sleeps, *)
(* or is about to, has nothing to read.                                     *)
ReaderInv ==
  \A p \in CReaders :
    /\ rd[p].pc \in {"locked", "drowsy"} <=> holder = p
    /\ rd[p].pc \in {"drowsy", "sleep"} => input.r = input.w
    /\ rd[p].pc # "user" => rd[p].n \in 1..rd[p].target

ConsoleInv == ConsoleTypeOK /\ RingInv /\ ReaderInv /\ OnScreen

-----------------------------------------------------------------------------
(* Arithmetic of %.                                                         *)
LEMMA ModUnique ==
  ASSUME NEW a \in Int, NEW b \in Nat \ {0}, NEW q \in Int, NEW r \in 0..b-1, a = q * b + r
  PROVE  a % b = r
OBVIOUS

(* A number is its quotient times the divisor plus its remainder.           *)
LEMMA ModQuotient ==
  ASSUME NEW a \in Int, NEW b \in Nat \ {0}
  PROVE  \E q \in Int, r \in 0..b-1 : a = q * b + r /\ r = a % b
<1>1. PICK q \in Int : q = a \div b
  OBVIOUS
<1>2. PICK r \in 0..b-1 : r = a % b
  OBVIOUS
<1>3. a = q * b + r
  BY <1>1, <1>2
<1>4. QED
  BY Zenon, <1>2, <1>3

(* A multiple of b makes no difference modulo b.                            *)
LEMMA ModShift ==
  ASSUME NEW a \in Int, NEW b \in Nat \ {0}, NEW m \in Int
  PROVE  (a + m * b) % b = a % b
<1>1. PICK q \in Int, r \in 0..b-1 : a = q * b + r /\ r = a % b
  BY ModQuotient
<1>2. m + q \in Int /\ a + m * b \in Int
  OBVIOUS
<1>3. a + m * b = (m + q) * b + r
  BY <1>1
<1>4. (a + m * b) % b = r
  BY Zenon, <1>2, <1>3, ModUnique
<1>5. QED
  BY <1>1, <1>4

(* Numbers closer than b differ modulo b.                                   *)
LEMMA ModDiffer ==
  ASSUME NEW a \in Int, NEW b \in Nat \ {0}, NEW k \in 1..b-1
  PROVE  (a + k) % b # a % b
<1>1. SUFFICES ASSUME (a + k) % b = a % b PROVE FALSE
  OBVIOUS
<1>2. PICK q \in Int, x \in 0..b-1 : a = q * b + x /\ x = a % b
  BY Zenon, ModQuotient
<1>3. PICK r \in Int, y \in 0..b-1 : a + k = r * b + y /\ y = (a + k) % b
  <2>1. a + k \in Int
    OBVIOUS
  <2>2. QED
    BY <2>1, ModQuotient
<1>4. x = y
  BY SMTT(60), <1>1, <1>2, <1>3
<1>5. k = (r - q) * b
  BY SMTT(60), <1>2, <1>3, <1>4
<1>6. r - q \in Int
  OBVIOUS
<1>7. CASE r - q <= 0
  <2>1. (r - q) * b <= 0
    BY <1>6, <1>7
  <2>2. QED
    BY <2>1, <1>5
<1>8. CASE r - q >= 1
  <2>1. (r - q) * b >= b
    BY <1>6, <1>8
  <2>2. QED
    BY <2>1, <1>5
<1>9. QED
  BY <1>6, <1>7, <1>8

(* The indices wrap at a multiple of the ring's size: a slot is the same     *)
(* before and after.                                                        *)
LEMMA SlotWraps ==
  ASSUME NEW x \in Int
  PROVE  /\ (x % WORD) % INPUT_BUF = x % INPUT_BUF
         /\ x % INPUT_BUF \in 0..(INPUT_BUF - 1)
<1>1. PICK m \in Int : WORD = m * INPUT_BUF
  <2>a. WORD \in Int /\ INPUT_BUF \in Nat \ {0}
    BY ConsoleAssumption
  <2>1. PICK q \in Int, r \in 0..INPUT_BUF-1 : WORD = q * INPUT_BUF + r /\ r = WORD % INPUT_BUF
    BY Zenon, <2>a, ModQuotient
  <2>2. r = 0
    BY <2>1, ConsoleAssumption
  <2>3. QED
    BY <2>a, <2>1, <2>2
<1>2. WORD \in Nat \ {0} /\ INPUT_BUF \in Nat \ {0}
  BY ConsoleAssumption
<1>3. PICK q \in Int, r \in 0..WORD-1 : x = q * WORD + r /\ r = x % WORD
  BY Zenon, <1>2, ModQuotient
<1>4. r \in Int /\ q * m \in Int
  BY <1>2
<1>5. x = r + (q * m) * INPUT_BUF
  BY <1>1, <1>2, <1>3, <1>4
<1>6. (r + (q * m) * INPUT_BUF) % INPUT_BUF = r % INPUT_BUF
  BY Zenon, <1>2, <1>4, ModShift
<1>7. x % INPUT_BUF \in 0..(INPUT_BUF - 1)
  BY <1>2
<1>8. QED
  BY Zenon, <1>3, <1>5, <1>6, <1>7

(* Distances on the circle.                                                 *)
LEMMA SubIs ==
  ASSUME NEW a \in Indices, NEW b \in Indices
  PROVE  /\ Sub(b, a) = IF b >= a THEN b - a ELSE b - a + WORD
         /\ Sub(b, a) \in 0..(WORD - 1)
         /\ Sub(b, a) = 0 <=> a = b
<1>1. Sub(b, a) = IF b >= a THEN b - a ELSE b - a + WORD
  BY ConsoleAssumption DEF Sub, Indices
<1>2. QED
  BY <1>1, ConsoleAssumption DEF Indices

(* A step forward or back, and how distances change with it.                *)
LEMMA Steps ==
  ASSUME NEW a \in Indices, NEW b \in Indices
  PROVE  /\ Add(b, 1) \in Indices /\ Sub(b, 1) \in Indices
         /\ Sub(b, a) < WORD - 1 => Sub(Add(b, 1), a) = Sub(b, a) + 1
         /\ a # b => Sub(Sub(b, 1), a) = Sub(b, a) - 1
         /\ a # b => Sub(b, Add(a, 1)) = Sub(b, a) - 1
<1>1. /\ Add(a, 1) = IF a + 1 < WORD THEN a + 1 ELSE 0
      /\ Add(b, 1) = IF b + 1 < WORD THEN b + 1 ELSE 0
      /\ Sub(b, 1) = IF b >= 1 THEN b - 1 ELSE WORD - 1
  BY ConsoleAssumption DEF Add, Sub, Indices
<1>2. Add(a, 1) \in Indices /\ Add(b, 1) \in Indices /\ Sub(b, 1) \in Indices
  BY <1>1, ConsoleAssumption DEF Indices
<1>3. /\ Sub(b, a) = IF b >= a THEN b - a ELSE b - a + WORD
      /\ Sub(Add(b, 1), a) = IF Add(b, 1) >= a THEN Add(b, 1) - a ELSE Add(b, 1) - a + WORD
      /\ Sub(Sub(b, 1), a) = IF Sub(b, 1) >= a THEN Sub(b, 1) - a ELSE Sub(b, 1) - a + WORD
      /\ Sub(b, Add(a, 1)) = IF b >= Add(a, 1) THEN b - Add(a, 1) ELSE b - Add(a, 1) + WORD
  BY Zenon, <1>2, SubIs
<1>4. Sub(b, a) < WORD - 1 => Sub(Add(b, 1), a) = Sub(b, a) + 1
  BY <1>1, <1>3, ConsoleAssumption DEF Indices
<1>5. a # b => Sub(Sub(b, 1), a) = Sub(b, a) - 1
  BY <1>1, <1>3, ConsoleAssumption DEF Indices
<1>6. a # b => Sub(b, Add(a, 1)) = Sub(b, a) - 1
  BY <1>1, <1>3, ConsoleAssumption DEF Indices
<1>7. QED
  BY Zenon, <1>2, <1>4, <1>5, <1>6

(* The slot of an index.                                                    *)
LEMMA SlotIs ==
  ASSUME NEW a \in Indices, NEW i \in Nat
  PROVE  /\ Slot(Add(a, i)) = (a + i) % INPUT_BUF
         /\ Slot(Add(a, i)) \in 0..(INPUT_BUF - 1)
<1>1. a + i \in Int
  BY ConsoleAssumption DEF Indices
<1>2. QED
  BY Zenon, <1>1, SlotWraps DEF Slot, Add

(* Slots less than the ring apart are different.                            *)
LEMMA SlotsDiffer ==
  ASSUME NEW a \in Indices, NEW i \in Nat, NEW k \in 1..(INPUT_BUF - 1)
  PROVE  Slot(Add(a, i + k)) # Slot(Add(a, i))
<1>1. /\ a + i \in Int /\ a + (i + k) = a + i + k /\ i + k \in Nat
      /\ INPUT_BUF \in Nat \ {0}
  BY ConsoleAssumption DEF Indices
<1>2. Slot(Add(a, i)) = (a + i) % INPUT_BUF /\ Slot(Add(a, i + k)) = (a + (i + k)) % INPUT_BUF
  BY Zenon, <1>1, SlotIs
<1>3. (a + i + k) % INPUT_BUF # (a + i) % INPUT_BUF
  BY Zenon, <1>1, ModDiffer
<1>4. QED
  BY Zenon, <1>1, <1>2, <1>3

(* Sequences that agree everywhere are equal.                               *)
LEMMA SeqEqual ==
  ASSUME NEW S, NEW s \in Seq(S), NEW t \in Seq(S), Len(s) = Len(t),
         \A i \in 1..Len(s) : s[i] = t[i]
  PROVE  s = t
OBVIOUS

-----------------------------------------------------------------------------
(* The cursor stays above the last row of the screen, which scrolls in time. *)
LEMMA CursorStays ==
  ASSUME NEW q \in 0..((ROWS - 1) * COLS - 1), NEW c, c # "BACKSPACE"
  PROVE  /\ cga(c, q) \in 0..(ROWS * COLS)
         /\ Scroll(cga(c, q)) \in 0..((ROWS - 1) * COLS - 1)
<1>1. /\ ROWS \in Nat /\ ROWS >= 2 /\ COLS \in Nat \ {0} /\ COLS \in Nat
  BY ConsoleAssumption
<1>2. PICK M \in Nat : M = (ROWS - 1) * COLS
  <2>1. ROWS - 1 \in Nat
    BY <1>1
  <2>2. (ROWS - 1) * COLS \in Nat
    BY <1>1, <2>1
  <2>3. QED
    BY Zenon, <2>2
<1>3. ROWS * COLS = M + COLS /\ M >= COLS
  <2>1. ROWS * COLS = (ROWS - 1) * COLS + COLS
    BY <1>1
  <2>2. (ROWS - 1) * COLS >= 1 * COLS
    BY <1>1
  <2>3. QED
    BY <1>1, <1>2, <2>1, <2>2
<1>4. PICK t \in Nat : t = cga(c, q) /\ t <= M
  <2>a. q \in Nat /\ q < M /\ q \in Int
    BY <1>2
  <2>1. PICK k \in Int, x \in 0..COLS-1 : q = k * COLS + x /\ x = q % COLS
    BY Zenon, <1>1, <2>a, ModQuotient
  <2>2. k < ROWS - 1
    <3>1. SUFFICES ASSUME k >= ROWS - 1 PROVE FALSE
      BY <1>1
    <3>2. k * COLS >= (ROWS - 1) * COLS
      BY <1>1, <3>1
    <3>3. QED
      BY <1>1, <1>2, <2>a, <2>1, <3>2
  <2>3. (k + 1) * COLS <= (ROWS - 1) * COLS
    BY <1>1, <2>2
  <2>4. (k + 1) * COLS = k * COLS + COLS
    BY <1>1
  <2>5. q + COLS - x <= M /\ q + COLS - x \in Nat
    BY <1>1, <1>2, <2>a, <2>1, <2>3, <2>4
  <2>6. q + 1 <= M /\ q + 1 \in Nat
    BY <2>a
  <2>7. cga(c, q) = q + COLS - x \/ cga(c, q) = q + 1
    BY <2>1 DEF cga
  <2>8. QED
    BY <2>5, <2>6, <2>7
<1>5. cga(c, q) \in 0..(ROWS * COLS)
  BY <1>1, <1>3, <1>4
<1>6. PICK d \in Int, y \in 0..COLS-1 : t = d * COLS + y /\ d = t \div COLS
  <2>1. PICK d \in Int : d = t \div COLS
    BY <1>1
  <2>2. PICK y \in 0..COLS-1 : y = t % COLS
    BY <1>1
  <2>3. t = d * COLS + y
    BY <1>1, <2>1, <2>2
  <2>4. QED
    BY Zenon, <2>1, <2>3
<1>7. CASE d >= ROWS - 1
  <2>1. Scroll(t) = t - COLS
    BY <1>6, <1>7 DEF Scroll
  <2>2. d * COLS >= (ROWS - 1) * COLS
    BY <1>1, <1>7
  <2>3. t >= M
    BY <1>1, <1>2, <1>6, <2>2
  <2>4. QED
    BY <1>1, <1>2, <1>3, <1>4, <1>5, <2>1, <2>3
<1>8. CASE ~(d >= ROWS - 1)
  <2>1. Scroll(t) = t
    BY <1>6, <1>8 DEF Scroll
  <2>2. d + 1 <= ROWS - 1
    BY <1>1, <1>8
  <2>3. (d + 1) * COLS <= (ROWS - 1) * COLS
    BY <1>1, <2>2
  <2>4. (d + 1) * COLS = d * COLS + COLS
    BY <1>1
  <2>5. t < M
    BY <1>1, <1>2, <1>6, <2>3, <2>4
  <2>6. QED
    BY <1>2, <1>4, <1>5, <2>1, <2>5
<1>9. QED
  BY Zenon, <1>7, <1>8

-----------------------------------------------------------------------------
(* Ways around the circle.                                                  *)
LEMMA Around ==
  ASSUME NEW a \in Indices, NEW b \in Indices
  PROVE  /\ Add(a, Sub(b, a)) = b
         /\ \A j \in Nat : j < WORD - 1 => Add(Add(a, 1), j) = Add(a, j + 1)
         /\ \A j \in Nat : j < Sub(b, a) => Sub(b, j + 1) = Add(a, Sub(b, a) - (j + 1))
<1>1. \A x \in Indices, j \in Nat : j < WORD =>
        Add(x, j) = IF x + j < WORD THEN x + j ELSE x + j - WORD
  BY ConsoleAssumption DEF Add, Indices
<1>2. \A x \in Indices, j \in Nat : j < WORD => Sub(x, j) = IF x >= j THEN x - j ELSE x - j + WORD
  BY ConsoleAssumption DEF Sub, Indices
<1>3. /\ Sub(b, a) \in Nat /\ Sub(b, a) < WORD
      /\ Sub(b, a) = IF b >= a THEN b - a ELSE b - a + WORD
  BY SubIs, ConsoleAssumption
<1>4. Add(a, Sub(b, a)) = b
  <2>1. Add(a, Sub(b, a)) = IF a + Sub(b, a) < WORD THEN a + Sub(b, a) ELSE a + Sub(b, a) - WORD
    BY Zenon, <1>1, <1>3
  <2>2. QED
    BY <1>3, <2>1, ConsoleAssumption DEF Indices
<1>5. ASSUME NEW j \in Nat, j < WORD - 1 PROVE Add(Add(a, 1), j) = Add(a, j + 1)
  <2>1. Add(a, 1) \in Indices /\ Add(a, 1) = IF a + 1 < WORD THEN a + 1 ELSE a + 1 - WORD
    BY <1>1, Steps, ConsoleAssumption
  <2>2. j < WORD /\ j + 1 \in Nat /\ j + 1 < WORD
    BY <1>5, ConsoleAssumption
  <2>3. Add(Add(a, 1), j) = IF Add(a, 1) + j < WORD THEN Add(a, 1) + j ELSE Add(a, 1) + j - WORD
    BY Zenon, <1>1, <2>1, <2>2
  <2>4. Add(a, j + 1) = IF a + (j + 1) < WORD THEN a + (j + 1) ELSE a + (j + 1) - WORD
    BY Zenon, <1>1, <2>2
  <2>5. QED
    BY <2>1, <2>2, <2>3, <2>4, ConsoleAssumption DEF Indices
<1>7. ASSUME NEW j \in Nat, j < Sub(b, a)
      PROVE  Sub(b, j + 1) = Add(a, Sub(b, a) - (j + 1))
  <2>1. /\ j + 1 \in Nat /\ j + 1 < WORD
        /\ Sub(b, a) - (j + 1) \in Nat /\ Sub(b, a) - (j + 1) < WORD
    BY <1>3, <1>7, ConsoleAssumption
  <2>2. Sub(b, j + 1) = IF b >= j + 1 THEN b - (j + 1) ELSE b - (j + 1) + WORD
    BY Zenon, <1>2, <2>1
  <2>3. Add(a, Sub(b, a) - (j + 1)) =
          IF a + (Sub(b, a) - (j + 1)) < WORD THEN a + (Sub(b, a) - (j + 1))
          ELSE a + (Sub(b, a) - (j + 1)) - WORD
    BY Zenon, <1>1, <2>1
  <2>4. QED
    BY <1>3, <2>1, <2>2, <2>3, ConsoleAssumption DEF Indices
<1>8. QED
  BY Zenon, <1>4, <1>5, <1>7

(* Two ways, one behind the other.                                          *)
LEMMA AroundOn ==
  ASSUME NEW a \in Indices, NEW b \in Indices, NEW d \in Indices,
         Sub(d, a) = Sub(b, a) + Sub(d, b), NEW j \in Nat, j < Sub(d, b)
  PROVE  Add(b, j) = Add(a, Sub(b, a) + j)
<1>1. \A x \in Indices, i \in Nat : i < WORD =>
        Add(x, i) = IF x + i < WORD THEN x + i ELSE x + i - WORD
  BY ConsoleAssumption DEF Add, Indices
<1>2. /\ Sub(b, a) \in Nat /\ Sub(d, b) \in Nat /\ Sub(d, a) \in Nat
      /\ Sub(d, b) < WORD /\ Sub(d, a) < WORD
      /\ Sub(b, a) = IF b >= a THEN b - a ELSE b - a + WORD
  BY SubIs, ConsoleAssumption
<1>3. j < WORD /\ Sub(b, a) + j \in Nat /\ Sub(b, a) + j < WORD
  BY <1>2, ConsoleAssumption
<1>4. Add(b, j) = IF b + j < WORD THEN b + j ELSE b + j - WORD
  BY Zenon, <1>1, <1>3
<1>5. Add(a, Sub(b, a) + j) = IF a + (Sub(b, a) + j) < WORD THEN a + (Sub(b, a) + j)
                              ELSE a + (Sub(b, a) + j) - WORD
  BY Zenon, <1>1, <1>3
<1>6. QED
  BY <1>2, <1>3, <1>4, <1>5, ConsoleAssumption DEF Indices

(* The characters from index a on up to z, of a buffer b.                   *)
TextOf(b, a, z) == [i \in 1..Sub(z, a) |-> b[Slot(Add(a, i - 1))]]

(* They are a sequence.                                                     *)
LEMMA TextType ==
  ASSUME NEW b \in Bufs, NEW a \in Indices, NEW z \in Indices
  PROVE  /\ TextOf(b, a, z) \in Seq(Stored) /\ Len(TextOf(b, a, z)) = Sub(z, a)
         /\ Sub(z, a) \in Nat /\ Sub(z, a) < WORD
         /\ \A j \in Nat : j < Sub(z, a) => TextOf(b, a, z)[j + 1] = b[Slot(Add(a, j))]
<1>1. Sub(z, a) \in Nat /\ Sub(z, a) < WORD
  BY SubIs, ConsoleAssumption
<1>2. ASSUME NEW i \in 1..Sub(z, a) PROVE b[Slot(Add(a, i - 1))] \in Stored
  <2>1. i - 1 \in Nat
    BY <1>1
  <2>2. Slot(Add(a, i - 1)) \in 0..(INPUT_BUF - 1)
    BY Zenon, <2>1, SlotIs
  <2>3. QED
    BY Zenon, <2>2 DEF Bufs
<1>3. TextOf(b, a, z) \in Seq(Stored) /\ Len(TextOf(b, a, z)) = Sub(z, a)
  BY <1>1, <1>2 DEF TextOf
<1>4. ASSUME NEW j \in Nat, j < Sub(z, a) PROVE TextOf(b, a, z)[j + 1] = b[Slot(Add(a, j))]
  <2>1. j + 1 \in 1..Sub(z, a) /\ (j + 1) - 1 = j
    BY <1>1, <1>4
  <2>2. TextOf(b, a, z)[j + 1] = b[Slot(Add(a, (j + 1) - 1))]
    BY Zenon, <2>1 DEF TextOf
  <2>3. QED
    BY Zenon, <2>1, <2>2
<1>5. QED
  BY Zenon, <1>1, <1>3, <1>4

(* Sequences that agree everywhere, counted from 0.                         *)
LEMMA SameSeq ==
  ASSUME NEW S, NEW s \in Seq(S), NEW t \in Seq(S), NEW n \in Nat, Len(s) = n, Len(t) = n,
         \A j \in Nat : j < n => s[j + 1] = t[j + 1]
  PROVE  s = t
<1>1. ASSUME NEW i \in 1..Len(s) PROVE s[i] = t[i]
  <2>1. i - 1 \in Nat /\ i - 1 < n /\ (i - 1) + 1 = i
    OBVIOUS
  <2>2. QED
    BY Zenon, <2>1
<1>2. QED
  BY Zenon, <1>1, SeqEqual

(* The buffer with c at index e.                                            *)
Written(nb, b, e, c) == nb = [b EXCEPT ![Slot(e)] = c]

(* A character written behind the text leaves the text alone ...            *)
LEMMA CharKept ==
  ASSUME NEW b \in Bufs, NEW a \in Indices, NEW e \in Indices, Sub(e, a) < INPUT_BUF,
         NEW c \in Stored, NEW nb, Written(nb, b, e, c)
  PROVE  /\ nb \in Bufs
         /\ \A j \in Nat : j < Sub(e, a) => nb[Slot(Add(a, j))] = b[Slot(Add(a, j))]
         /\ nb[Slot(Add(a, Sub(e, a)))] = c
<1>1. Sub(e, a) \in Nat /\ Add(a, Sub(e, a)) = e
  BY TextType, Around
<1>2. Slot(e) \in 0..(INPUT_BUF - 1)
  BY Zenon, <1>1, SlotIs
<1>3. nb \in Bufs /\ nb[Slot(e)] = c
  BY Zenon, <1>2 DEF Bufs, Written
<1>4. ASSUME NEW j \in Nat, j < Sub(e, a) PROVE nb[Slot(Add(a, j))] = b[Slot(Add(a, j))]
  <2>1. PICK k \in 1..(INPUT_BUF - 1) : j + k = Sub(e, a)
    <3>1. Sub(e, a) - j \in 1..(INPUT_BUF - 1) /\ j + (Sub(e, a) - j) = Sub(e, a)
      BY <1>1, <1>4, ConsoleAssumption
    <3>2. QED
      BY Zenon, <3>1
  <2>2. Slot(Add(a, j + k)) # Slot(Add(a, j))
    BY Zenon, SlotsDiffer
  <2>3. Slot(Add(a, j)) # Slot(e) /\ Slot(Add(a, j)) \in 0..(INPUT_BUF - 1)
    BY Zenon, <1>1, <2>1, <2>2, SlotIs
  <2>4. QED
    BY Zenon, <2>3 DEF Bufs, Written
<1>5. QED
  BY Zenon, <1>1, <1>3, <1>4

(* ... and is appended to it.                                               *)
LEMMA TextGrows ==
  ASSUME NEW b \in Bufs, NEW a \in Indices, NEW e \in Indices, Sub(e, a) < INPUT_BUF,
         NEW c \in Stored, NEW nb, Written(nb, b, e, c)
  PROVE  TextOf(nb, a, Add(e, 1)) = Append(TextOf(b, a, e), c)
<1> DEFINE s == TextOf(nb, a, Add(e, 1))
           t == TextOf(b, a, e)
           n == Sub(e, a)
<1>1. /\ nb \in Bufs
      /\ \A j \in Nat : j < n => nb[Slot(Add(a, j))] = b[Slot(Add(a, j))]
      /\ nb[Slot(Add(a, n))] = c
  BY SMTT(60), CharKept
<1>2. /\ t \in Seq(Stored) /\ Len(t) = n /\ n \in Nat
      /\ \A j \in Nat : j < n => t[j + 1] = b[Slot(Add(a, j))]
  BY Zenon, TextType
<1>3. Add(e, 1) \in Indices /\ Sub(Add(e, 1), a) = n + 1
  <2>1. n < WORD - 1
    BY <1>2, ConsoleAssumption
  <2>2. QED
    BY Zenon, <2>1, Steps
<1>4. /\ s \in Seq(Stored) /\ Len(s) = n + 1
      /\ \A j \in Nat : j < n + 1 => s[j + 1] = nb[Slot(Add(a, j))]
  <2>1. /\ s \in Seq(Stored) /\ Len(s) = Sub(Add(e, 1), a)
        /\ \A j \in Nat : j < Sub(Add(e, 1), a) => s[j + 1] = nb[Slot(Add(a, j))]
    BY Zenon, <1>1, <1>3, TextType
  <2>2. QED
    BY Zenon, <1>3, <2>1
<1> HIDE DEF s, t, n
<1>5. /\ Append(t, c) \in Seq(Stored) /\ Len(Append(t, c)) = n + 1
      /\ Append(t, c)[n + 1] = c
      /\ \A j \in Nat : j < n => Append(t, c)[j + 1] = t[j + 1]
  BY <1>2
<1>6. ASSUME NEW j \in Nat, j < n + 1 PROVE s[j + 1] = Append(t, c)[j + 1]
  <2>1. j < n \/ j = n
    BY <1>2, <1>6
  <2>2. QED
    BY Zenon, <1>1, <1>2, <1>4, <1>5, <1>6, <2>1
<1>7. n + 1 \in Nat
  BY <1>2
<1>8. s = Append(t, c)
  BY Zenon, <1>4, <1>5, <1>6, <1>7, SameSeq
<1>9. QED
  BY Zenon, <1>8 DEF s, t

(* An earlier text is the same in a buffer that agrees on it.               *)
LEMMA TextKept ==
  ASSUME NEW b \in Bufs, NEW nb \in Bufs, NEW a \in Indices, NEW z \in Indices,
         \A j \in Nat : j < Sub(z, a) => nb[Slot(Add(a, j))] = b[Slot(Add(a, j))]
  PROVE  TextOf(nb, a, z) = TextOf(b, a, z)
<1>1. Sub(z, a) \in Nat
  BY Zenon, TextType
<1>2. ASSUME NEW i \in 1..Sub(z, a) PROVE nb[Slot(Add(a, i - 1))] = b[Slot(Add(a, i - 1))]
  <2>1. i - 1 \in Nat /\ i - 1 < Sub(z, a)
    BY <1>1
  <2>2. QED
    BY Zenon, <2>1
<1>3. QED
  BY Zenon, <1>2 DEF TextOf

(* One character less at the end.                                           *)
LEMMA TextShrinks ==
  ASSUME NEW b \in Bufs, NEW a \in Indices, NEW z \in Indices, a # z
  PROVE  /\ TextOf(b, a, z) # <<>> /\ Sub(z, 1) \in Indices
         /\ TextOf(b, a, Sub(z, 1)) = SubSeq(TextOf(b, a, z), 1, Len(TextOf(b, a, z)) - 1)
<1> DEFINE s == TextOf(b, a, Sub(z, 1))
           t == TextOf(b, a, z)
           n == Sub(z, a)
<1>1. /\ t \in Seq(Stored) /\ Len(t) = n /\ n \in Nat
      /\ \A j \in Nat : j < n => t[j + 1] = b[Slot(Add(a, j))]
  BY Zenon, TextType
<1>2. Sub(z, 1) \in Indices /\ Sub(Sub(z, 1), a) = n - 1
  BY Zenon, Steps
<1>3. n # 0
  BY Zenon, SubIs
<1>4. /\ s \in Seq(Stored) /\ Len(s) = n - 1
      /\ \A j \in Nat : j < n - 1 => s[j + 1] = b[Slot(Add(a, j))]
  <2>1. /\ s \in Seq(Stored) /\ Len(s) = Sub(Sub(z, 1), a)
        /\ \A j \in Nat : j < Sub(Sub(z, 1), a) => s[j + 1] = b[Slot(Add(a, j))]
    BY Zenon, <1>2, TextType
  <2>2. QED
    BY Zenon, <1>2, <2>1
<1> HIDE DEF s, t, n
<1>5. PICK u : u = SubSeq(t, 1, n - 1)
  BY Zenon
<1>6. /\ u \in Seq(Stored) /\ Len(u) = n - 1 /\ n - 1 \in Nat
      /\ \A j \in Nat : j < n - 1 => u[j + 1] = t[j + 1]
  BY <1>1, <1>3, <1>5
<1>7. \A j \in Nat : j < n - 1 => j < n
  BY <1>1
<1>8. \A j \in Nat : j < n - 1 => s[j + 1] = u[j + 1]
  BY Zenon, <1>1, <1>4, <1>6, <1>7
<1>9. s = u
  BY Zenon, <1>4, <1>6, <1>8, SameSeq
<1>10. t # <<>>
  BY <1>1, <1>3
<1>11. QED
  BY Zenon, <1>1, <1>2, <1>5, <1>9, <1>10 DEF s, t

(* The first one taken.                                                     *)
LEMMA TextTaken ==
  ASSUME NEW b \in Bufs, NEW a \in Indices, NEW z \in Indices, a # z
  PROVE  TextOf(b, a, z) # <<>> /\ TextOf(b, Add(a, 1), z) = Tail(TextOf(b, a, z))
<1> DEFINE s == TextOf(b, Add(a, 1), z)
           t == TextOf(b, a, z)
           n == Sub(z, a)
<1>1. /\ t \in Seq(Stored) /\ Len(t) = n /\ n \in Nat /\ n < WORD
      /\ \A j \in Nat : j < n => t[j + 1] = b[Slot(Add(a, j))]
  BY Zenon, TextType
<1>2. Add(a, 1) \in Indices /\ Sub(z, Add(a, 1)) = n - 1
  BY Zenon, Steps
<1>3. n # 0
  BY Zenon, SubIs
<1>4. /\ s \in Seq(Stored) /\ Len(s) = n - 1
      /\ \A j \in Nat : j < n - 1 => s[j + 1] = b[Slot(Add(Add(a, 1), j))]
  <2>1. /\ s \in Seq(Stored) /\ Len(s) = Sub(z, Add(a, 1))
        /\ \A j \in Nat : j < Sub(z, Add(a, 1)) => s[j + 1] = b[Slot(Add(Add(a, 1), j))]
    BY Zenon, <1>2, TextType
  <2>2. QED
    BY Zenon, <1>2, <2>1
<1>5. \A j \in Nat : j < WORD - 1 => Add(Add(a, 1), j) = Add(a, j + 1)
  BY Zenon, Around
<1> HIDE DEF s, t, n
<1>6. /\ Tail(t) \in Seq(Stored) /\ Len(Tail(t)) = n - 1 /\ n - 1 \in Nat /\ t # <<>>
      /\ \A j \in Nat : j < n - 1 => Tail(t)[j + 1] = t[(j + 1) + 1]
  BY <1>1, <1>3
<1>7. \A j \in Nat : j < n - 1 => j + 1 \in Nat /\ j + 1 < n /\ j < WORD - 1
  BY <1>1, ConsoleAssumption
<1>8. ASSUME NEW j \in Nat, j < n - 1 PROVE s[j + 1] = Tail(t)[j + 1]
  <2>1. j + 1 \in Nat /\ j + 1 < n /\ j < WORD - 1
    BY Zenon, <1>7, <1>8
  <2>2. t[(j + 1) + 1] = b[Slot(Add(a, j + 1))]
    BY Zenon, <1>1, <2>1
  <2>3. s[j + 1] = b[Slot(Add(a, j + 1))]
    BY Zenon, <1>4, <1>5, <1>8, <2>1
  <2>4. QED
    BY Zenon, <1>6, <1>8, <2>2, <2>3
<1>9. s = Tail(t)
  BY Zenon, <1>4, <1>6, <1>8, SameSeq
<1>10. QED
  BY Zenon, <1>6, <1>9 DEF s, t

(* Two texts in a row.                                                      *)
LEMMA TextJoins ==
  ASSUME NEW b \in Bufs, NEW r \in Indices, NEW w \in Indices, NEW e \in Indices,
         Sub(e, r) = Sub(w, r) + Sub(e, w)
  PROVE  TextOf(b, r, e) = TextOf(b, r, w) \o TextOf(b, w, e)
<1> DEFINE s == TextOf(b, r, e)
           t == TextOf(b, r, w)
           u == TextOf(b, w, e)
           m == Sub(w, r)
           n == Sub(e, w)
<1>1. /\ t \in Seq(Stored) /\ Len(t) = m /\ m \in Nat
      /\ \A j \in Nat : j < m => t[j + 1] = b[Slot(Add(r, j))]
  BY Zenon, TextType
<1>2. /\ u \in Seq(Stored) /\ Len(u) = n /\ n \in Nat
      /\ \A j \in Nat : j < n => u[j + 1] = b[Slot(Add(w, j))]
  BY Zenon, TextType
<1>3. /\ s \in Seq(Stored) /\ Len(s) = m + n
      /\ \A j \in Nat : j < m + n => s[j + 1] = b[Slot(Add(r, j))]
  <2>1. /\ s \in Seq(Stored) /\ Len(s) = Sub(e, r)
        /\ \A j \in Nat : j < Sub(e, r) => s[j + 1] = b[Slot(Add(r, j))]
    BY Zenon, TextType
  <2>2. Sub(e, r) = m + n
    BY Zenon
  <2>3. QED
    BY Zenon, <2>1, <2>2
<1>4. \A j \in Nat : j < n => Add(w, j) = Add(r, m + j)
  BY Zenon, AroundOn
<1> HIDE DEF s, t, u, m, n
<1>5. /\ t \o u \in Seq(Stored) /\ Len(t \o u) = m + n /\ m + n \in Nat
      /\ \A j \in Nat : j < m => (t \o u)[j + 1] = t[j + 1]
      /\ \A j \in Nat : j < n => (t \o u)[(m + j) + 1] = u[j + 1]
  <2>1. t \in Seq(Stored) /\ Len(t) = m /\ m \in Nat /\ u \in Seq(Stored) /\ Len(u) = n /\ n \in Nat
    BY Zenon, <1>1, <1>2
  <2>2. t \o u \in Seq(Stored) /\ Len(t \o u) = m + n /\ m + n \in Nat
    BY <2>1
  <2>3. ASSUME NEW j \in Nat, j < m PROVE (t \o u)[j + 1] = t[j + 1]
    BY <2>1, <2>3
  <2>4. ASSUME NEW j \in Nat, j < n PROVE (t \o u)[(m + j) + 1] = u[j + 1]
    BY <2>1, <2>4
  <2>5. QED
    BY Zenon, <2>2, <2>3, <2>4
<1>6. ASSUME NEW j \in Nat, j < m + n PROVE s[j + 1] = (t \o u)[j + 1]
  <2>1. CASE j < m
    BY Zenon, <1>1, <1>3, <1>5, <1>6, <2>1
  <2>2. CASE ~(j < m)
    <3>1. PICK i \in Nat : i < n /\ j = m + i
      <4>1. j - m \in Nat /\ j - m < n /\ j = m + (j - m)
        BY <1>1, <1>2, <1>6, <2>2
      <4>2. QED
        BY Zenon, <4>1
    <3>2. QED
      BY Zenon, <1>2, <1>3, <1>4, <1>5, <1>6, <3>1
  <2>3. QED
    BY Zenon, <2>1, <2>2
<1>7. s = t \o u
  BY Zenon, <1>3, <1>5, <1>6, SameSeq
<1>8. QED
  BY Zenon, <1>7 DEF s, t, u

-----------------------------------------------------------------------------
(* A key in the ring: the line grows by one, and is finished at once or not. *)
LEMMA RingTyped ==
  ASSUME NEW b \in Bufs, NEW r \in Indices, NEW w \in Indices, NEW e \in Indices,
         RingOK(b, r, w, e), Sub(e, r) < INPUT_BUF,
         NEW c \in Stored, NEW nb, Written(nb, b, e, c)
  PROVE  /\ nb \in Bufs /\ Add(e, 1) \in Indices
         /\ RingOK(nb, r, Add(e, 1), Add(e, 1))
         /\ c = "a" => RingOK(nb, r, w, Add(e, 1))
         /\ Sub(Add(e, 1), r) = Sub(e, r) + 1 /\ Sub(e, w) < INPUT_BUF
<1>1. /\ Sub(e, r) = Sub(w, r) + Sub(e, w)
      /\ \A i \in Nat : i < Sub(e, w) => b[Slot(Add(w, i))] = "a"
  BY Zenon DEF RingOK
<1>2. Sub(e, r) \in Nat /\ Sub(w, r) \in Nat /\ Sub(e, w) \in Nat
  BY Zenon, TextType
<1>3. Sub(e, w) < INPUT_BUF /\ Sub(e, w) < WORD - 1 /\ Sub(e, r) < WORD - 1
  BY <1>1, <1>2, ConsoleAssumption
<1>4. /\ Add(e, 1) \in Indices /\ Sub(Add(e, 1), r) = Sub(e, r) + 1
      /\ Sub(Add(e, 1), w) = Sub(e, w) + 1
  BY Zenon, <1>3, Steps
<1>5. Sub(Add(e, 1), Add(e, 1)) = 0
  BY Zenon, <1>4, SubIs
<1>6. Sub(e, r) + 1 <= INPUT_BUF /\ Sub(e, r) + 1 = (Sub(e, r) + 1) + 0
  BY <1>2, ConsoleAssumption
<1>7. RingOK(nb, r, Add(e, 1), Add(e, 1))
  <2>1. \A i \in Nat : ~(i < 0)
    OBVIOUS
  <2>2. QED
    BY Zenon, <1>4, <1>5, <1>6, <2>1 DEF RingOK
<1>8. /\ nb \in Bufs
      /\ \A j \in Nat : j < Sub(e, w) => nb[Slot(Add(w, j))] = b[Slot(Add(w, j))]
      /\ nb[Slot(Add(w, Sub(e, w)))] = c
  BY SMTT(60), <1>3, CharKept
<1>9. ASSUME c = "a" PROVE RingOK(nb, r, w, Add(e, 1))
  <2>1. ASSUME NEW i \in Nat, i < Sub(e, w) + 1 PROVE nb[Slot(Add(w, i))] = "a"
    <3>1. i < Sub(e, w) \/ i = Sub(e, w)
      BY <1>2, <2>1
    <3>2. QED
      BY Zenon, <1>1, <1>8, <1>9, <3>1
  <2>2. Sub(e, r) + 1 = Sub(w, r) + (Sub(e, w) + 1)
    BY <1>1, <1>2
  <2>3. QED
    BY Zenon, <1>4, <1>6, <2>1, <2>2 DEF RingOK
<1>10. QED
  BY Zenon, <1>3, <1>4, <1>7, <1>8, <1>9

(* A character rubbed out.                                                  *)
LEMMA RingRubbed ==
  ASSUME NEW b \in Bufs, NEW r \in Indices, NEW w \in Indices, NEW e \in Indices,
         RingOK(b, r, w, e), e # w
  PROVE  Sub(e, 1) \in Indices /\ RingOK(b, r, w, Sub(e, 1))
<1>1. /\ Sub(e, r) = Sub(w, r) + Sub(e, w) /\ Sub(e, r) <= INPUT_BUF
      /\ \A i \in Nat : i < Sub(e, w) => b[Slot(Add(w, i))] = "a"
  BY Zenon DEF RingOK
<1>2. Sub(e, r) \in Nat /\ Sub(w, r) \in Nat /\ Sub(e, w) \in Nat
  BY Zenon, TextType
<1>3. Sub(e, w) # 0
  BY Zenon, SubIs
<1>4. Sub(e, r) # 0
  BY <1>1, <1>2, <1>3
<1>5. r # e
  BY Zenon, <1>4, SubIs
<1>6. /\ Sub(e, 1) \in Indices /\ Sub(Sub(e, 1), r) = Sub(e, r) - 1
      /\ Sub(Sub(e, 1), w) = Sub(e, w) - 1
  BY Zenon, <1>5, Steps
<1>7. /\ Sub(e, r) - 1 = Sub(w, r) + (Sub(e, w) - 1) /\ Sub(e, r) - 1 <= INPUT_BUF
      /\ \A i \in Nat : i < Sub(e, w) - 1 => i < Sub(e, w)
  BY <1>1, <1>2, ConsoleAssumption
<1>8. QED
  BY Zenon, <1>1, <1>6, <1>7 DEF RingOK

(* The whole line rubbed out.                                               *)
LEMMA RingCleared ==
  ASSUME NEW b \in Bufs, NEW r \in Indices, NEW w \in Indices, NEW e \in Indices,
         RingOK(b, r, w, e)
  PROVE  Sub(e, Sub(e, w)) = w /\ Sub(w, w) = 0 /\ RingOK(b, r, w, w)
<1>1. Sub(e, r) = Sub(w, r) + Sub(e, w) /\ Sub(e, r) <= INPUT_BUF
  BY Zenon DEF RingOK
<1>2. Sub(e, r) \in Nat /\ Sub(w, r) \in Nat /\ Sub(e, w) \in Nat
  BY Zenon, TextType
<1>3. Sub(w, w) = 0
  BY Zenon, SubIs
<1>4. Sub(e, Sub(e, w)) = w
  <2>1. Sub(e, w) = IF e >= w THEN e - w ELSE e - w + WORD
    BY Zenon, SubIs
  <2>2. \A x \in Indices, j \in 0..(WORD-1) : Sub(x, j) = IF x >= j THEN x - j ELSE x - j + WORD
    BY ConsoleAssumption DEF Sub, Indices
  <2>3. Sub(e, w) \in 0..(WORD-1)
    BY Zenon, SubIs
  <2>4. Sub(e, Sub(e, w)) = IF e >= Sub(e, w) THEN e - Sub(e, w) ELSE e - Sub(e, w) + WORD
    BY Zenon, <2>2, <2>3
  <2>5. QED
    BY <2>1, <2>4, ConsoleAssumption DEF Indices
<1>5. Sub(w, r) = Sub(w, r) + 0 /\ Sub(w, r) <= INPUT_BUF /\ \A i \in Nat : ~(i < 0)
  BY <1>1, <1>2, ConsoleAssumption
<1>6. QED
  BY Zenon, <1>3, <1>4, <1>5 DEF RingOK

(* A character read.                                                        *)
LEMMA RingTaken ==
  ASSUME NEW b \in Bufs, NEW r \in Indices, NEW w \in Indices, NEW e \in Indices,
         RingOK(b, r, w, e), r # w
  PROVE  Add(r, 1) \in Indices /\ RingOK(b, Add(r, 1), w, e)
<1>1. /\ Sub(e, r) = Sub(w, r) + Sub(e, w) /\ Sub(e, r) <= INPUT_BUF
      /\ \A i \in Nat : i < Sub(e, w) => b[Slot(Add(w, i))] = "a"
  BY Zenon DEF RingOK
<1>2. Sub(e, r) \in Nat /\ Sub(w, r) \in Nat /\ Sub(e, w) \in Nat
  BY Zenon, TextType
<1>3. Sub(w, r) # 0
  BY Zenon, SubIs
<1>4. Sub(e, r) # 0
  BY <1>1, <1>2, <1>3
<1>5. r # e
  BY Zenon, <1>4, SubIs
<1>6. /\ Add(r, 1) \in Indices /\ Sub(e, Add(r, 1)) = Sub(e, r) - 1
      /\ Sub(w, Add(r, 1)) = Sub(w, r) - 1
  BY Zenon, <1>5, Steps
<1>7. Sub(e, r) - 1 = (Sub(w, r) - 1) + Sub(e, w) /\ Sub(e, r) - 1 <= INPUT_BUF
  BY <1>1, <1>2, ConsoleAssumption
<1>8. QED
  BY Zenon, <1>1, <1>6, <1>7 DEF RingOK

(* ^U goes back to the start of the line that is edited.                    *)
LEMMA LineTailIs ==
  ASSUME ConsoleTypeOK, RingInv
  PROVE  LineTail = Sub(input.e, input.w)
<1>1. PICK b, w, e : b = input.buf /\ w = input.w /\ e = input.e
  BY Zenon
<1>2. /\ b \in Bufs /\ w \in Indices /\ e \in Indices
      /\ \A i \in Nat : i < Sub(e, w) => b[Slot(Add(w, i))] = "a"
  BY <1>1 DEF ConsoleTypeOK, RingInv, RingOK
<1>3. PICK n \in Nat : n = Sub(e, w)
  BY Zenon, <1>2, TextType
<1> DEFINE K == {k \in 0..n : \A i \in 1..k : b[Slot(Sub(e, i))] # "\n"}
<1>4. LineTail = Max(K)
  BY Zenon, <1>1, <1>3 DEF LineTail
<1>5. ASSUME NEW i \in 1..n PROVE b[Slot(Sub(e, i))] # "\n"
  <2>1. /\ i - 1 \in Nat /\ i - 1 < n /\ (i - 1) + 1 = i
        /\ n - i \in Nat /\ n - i < n
    OBVIOUS
  <2>2. \A j \in Nat : j < Sub(e, w) => Sub(e, j + 1) = Add(w, Sub(e, w) - (j + 1))
    BY Zenon, <1>2, Around
  <2>3. b[Slot(Add(w, n - i))] = "a"
    BY Zenon, <1>2, <1>3, <2>1
  <2>4. Sub(e, (i - 1) + 1) = Add(w, n - ((i - 1) + 1))
    BY Zenon, <1>3, <2>1, <2>2
  <2>5. QED
    BY <2>1, <2>3, <2>4
<1>6. n \in K /\ \A k \in K : k \in Int /\ n >= k
  BY <1>5
<1> HIDE DEF K
<1>7. Max(K) \in K /\ \A k \in K : Max(K) >= k
  BY Zenon, <1>6 DEF Max
<1>8. Max(K) = n
  <2>1. PICK m : m = Max(K)
    BY Zenon
  <2>2. m \in K /\ m >= n
    BY Zenon, <1>6, <1>7, <2>1
  <2>3. m \in Int /\ n >= m
    BY Zenon, <1>6, <2>2
  <2>4. m = n
    BY <2>2, <2>3
  <2>5. QED
    BY Zenon, <2>1, <2>4
<1>9. QED
  BY Zenon, <1>1, <1>3, <1>4, <1>8

-----------------------------------------------------------------------------
(* An element behind a concatenation.                                       *)
LEMMA AppendConcat ==
  ASSUME NEW S, NEW s \in Seq(S), NEW t \in Seq(S), NEW c \in S
  PROVE  Append(s \o t, c) = s \o Append(t, c) /\ Len(s \o Append(t, c)) = Len(s) + Len(t) + 1
<1>1. /\ Append(s \o t, c) \in Seq(S) /\ s \o Append(t, c) \in Seq(S)
      /\ Len(Append(s \o t, c)) = Len(s) + Len(t) + 1
      /\ Len(s \o Append(t, c)) = Len(s) + Len(t) + 1
  OBVIOUS
<1>2. ASSUME NEW i \in 1..(Len(s) + Len(t) + 1)
      PROVE  Append(s \o t, c)[i] = (s \o Append(t, c))[i]
  OBVIOUS
<1>3. QED
  BY <1>1, <1>2, SeqEqual

(* The line is finished when the ring is full.                              *)
LEMMA FullRing ==
  ASSUME NEW r \in Indices, NEW e \in Indices
  PROVE  e = Add(r, INPUT_BUF) <=> Sub(e, r) = INPUT_BUF
<1>1. Add(r, INPUT_BUF) = IF r + INPUT_BUF < WORD THEN r + INPUT_BUF ELSE r + INPUT_BUF - WORD
  BY ConsoleAssumption DEF Add, Indices
<1>2. Sub(e, r) = IF e >= r THEN e - r ELSE e - r + WORD
  BY Zenon, SubIs
<1>3. QED
  BY <1>1, <1>2, ConsoleAssumption DEF Indices

(* A text that is not there.                                                *)
LEMMA TextEmpty ==
  ASSUME NEW b \in Bufs, NEW a \in Indices
  PROVE  TextOf(b, a, a) = <<>>
<1>1. Sub(a, a) = 0
  BY Zenon, SubIs
<1>2. TextOf(b, a, a) \in Seq(Stored) /\ Len(TextOf(b, a, a)) = 0
  BY Zenon, <1>1, TextType
<1>3. QED
  BY <1>2

(* The ring of a state, and of the next.                                    *)
Ring(x) == x \in [buf : Bufs, r : Indices, w : Indices, e : Indices]

(* The two texts of the ring, now and in the next state.                    *)
LEMMA TextsAre ==
  /\ Text(input.r, input.w) = TextOf(input.buf, input.r, input.w)
  /\ Text(input.w, input.e) = TextOf(input.buf, input.w, input.e)
  /\ Text(input.r, input.w)' = TextOf(input'.buf, input'.r, input'.w)
  /\ Text(input.w, input.e)' = TextOf(input'.buf, input'.w, input'.e)
BY Zenon DEF Text, TextOf

(* A key that is kept: the ring stays in order, and the line discipline     *)
(* does the same.                                                           *)
LEMMA CharStep ==
  ASSUME Ring(input), RingInv, NEW c \in {"a", "\n", "^D"}, Room,
         input' = [input EXCEPT !.buf[Slot(input.e)] = c, !.e = Add(input.e, 1),
                     !.w = IF LineDone(c, Add(input.e, 1)) THEN Add(input.e, 1) ELSE @]
  PROVE  /\ Ring(input)' /\ RingInv' /\ input'.r = input.r
         /\ ~LineDone(c, Add(input.e, 1)) => input'.w = input.w
         /\ Discipline!Type(c)
<1>1. PICK b, r, w, e, nb, d :
        /\ b = input.buf /\ r = input.r /\ w = input.w /\ e = input.e
        /\ Written(nb, b, e, c) /\ d = LineDone(c, Add(e, 1))
  BY Zenon DEF Written
<1>2. /\ b \in Bufs /\ r \in Indices /\ w \in Indices /\ e \in Indices
      /\ RingOK(b, r, w, e) /\ Sub(e, r) < INPUT_BUF
      /\ Sub(e, r) = Sub(w, r) + Sub(e, w) /\ Written(nb, b, e, c)
  BY <1>1 DEF Ring, RingInv, RingOK, Room
<1>3. c \in Stored
  BY DEF Stored
<1>4. /\ nb \in Bufs /\ Add(e, 1) \in Indices
      /\ RingOK(nb, r, Add(e, 1), Add(e, 1))
      /\ c = "a" => RingOK(nb, r, w, Add(e, 1))
      /\ Sub(Add(e, 1), r) = Sub(e, r) + 1 /\ Sub(e, w) < INPUT_BUF
  BY Zenon, <1>2, <1>3, RingTyped
<1>5. /\ input'.buf = nb /\ input'.r = r /\ input'.e = Add(e, 1)
      /\ input'.w = (IF d THEN Add(e, 1) ELSE w)
      /\ Ring(input)'
  BY <1>1, <1>2, <1>4 DEF Ring, Written
<1>6. d <=> c \in {"\n", "^D"} \/ Sub(e, r) + 1 = INPUT_BUF
  BY Zenon, <1>1, <1>2, <1>4, FullRing DEF LineDone
<1>7. RingInv'
  <2>1. ~d => c = "a"
    BY <1>6
  <2>2. RingOK(nb, r, IF d THEN Add(e, 1) ELSE w, Add(e, 1))
    BY Zenon, <1>4, <2>1
  <2>3. QED
    BY Zenon, <1>5, <2>2 DEF RingInv
<1>8. \A j \in Nat : j < Sub(e, r) => nb[Slot(Add(r, j))] = b[Slot(Add(r, j))]
  BY SMTT(60), <1>2, <1>3, CharKept
<1>9. Sub(w, r) \in Nat /\ Sub(e, w) \in Nat /\ Sub(e, r) \in Nat
  BY Zenon, <1>2, TextType
<1>10. \A j \in Nat : j < Sub(w, r) => nb[Slot(Add(r, j))] = b[Slot(Add(r, j))]
  <2>1. \A j \in Nat : j < Sub(w, r) => j < Sub(e, r)
    BY <1>2, <1>9
  <2>2. QED
    BY Zenon, <2>1, <1>8
<1> DEFINE L == TextOf(b, r, w)
           E == TextOf(b, w, e)
<1>11. TextOf(nb, r, w) = L
  BY Zenon, <1>2, <1>4, <1>10, TextKept
<1>12. TextOf(nb, w, Add(e, 1)) = Append(E, c)
  BY SMTT(60), <1>2, <1>3, <1>4, TextGrows
<1>13. /\ L \in Seq(Stored) /\ Len(L) = Sub(w, r)
       /\ E \in Seq(Stored) /\ Len(E) = Sub(e, w)
  BY Zenon, <1>2, TextType
<1>14. TextOf(nb, r, Add(e, 1)) = Append(TextOf(b, r, e), c) /\ TextOf(b, r, e) = L \o E
  <2>1. TextOf(nb, r, Add(e, 1)) = Append(TextOf(b, r, e), c)
    BY SMTT(60), <1>2, <1>3, TextGrows
  <2>2. TextOf(b, r, e) = L \o E
    BY Zenon, <1>2, TextJoins
  <2>3. QED
    BY Zenon, <2>1, <2>2
<1>15. TextOf(nb, Add(e, 1), Add(e, 1)) = <<>>
  BY Zenon, <1>4, TextEmpty
<1> HIDE DEF L, E
<1>16. /\ TextOf(nb, r, Add(e, 1)) = L \o Append(E, c)
       /\ Len(L \o Append(E, c)) = Len(L) + Len(E) + 1
  <2>1. Append(L \o E, c) = L \o Append(E, c) /\ Len(L \o Append(E, c)) = Len(L) + Len(E) + 1
    BY Zenon, <1>3, <1>13, AppendConcat
  <2>2. QED
    BY Zenon, <1>14, <2>1
<1>17. /\ Text(input.r, input.w) = L /\ Text(input.w, input.e) = E
       /\ Text(input.r, input.w)' = TextOf(nb, r, IF d THEN Add(e, 1) ELSE w)
       /\ Text(input.w, input.e)' = TextOf(nb, IF d THEN Add(e, 1) ELSE w, Add(e, 1))
  BY Zenon, <1>1, <1>5, TextsAre DEF L, E
<1>18. /\ Len(L) + Len(E) < INPUT_BUF
       /\ d <=> c \in {"\n", "^D"} \/ Len(L \o Append(E, c)) = INPUT_BUF
  <2>1. Len(L) + Len(E) = Sub(e, r)
    BY Zenon, <1>2, <1>13
  <2>2. Len(L \o Append(E, c)) = Sub(e, r) + 1
    BY Zenon, <1>16, <2>1
  <2>3. QED
    BY Zenon, <1>2, <1>6, <2>1, <2>2
<1>19. Discipline!Type(c)
  <2>1. CASE d
    BY Zenon, <2>1, <1>15, <1>16, <1>17, <1>18 DEF Discipline!Type
  <2>2. CASE ~d
    BY Zenon, <2>2, <1>11, <1>12, <1>17, <1>18 DEF Discipline!Type
  <2>3. QED
    BY Zenon, <2>1, <2>2
<1>20. ~LineDone(c, Add(input.e, 1)) => input'.w = input.w
  BY Zenon, <1>1, <1>5
<1>21. QED
  BY Zenon, <1>1, <1>5, <1>7, <1>19, <1>20

(* A key that erases.                                                       *)
LEMMA EraseStep ==
  ASSUME Ring(input), RingInv, input.e # input.w, input' = [input EXCEPT !.e = Sub(@, 1)]
  PROVE  Ring(input)' /\ RingInv' /\ input'.r = input.r /\ input'.w = input.w /\ Discipline!Erase
<1>1. PICK b, r, w, e : b = input.buf /\ r = input.r /\ w = input.w /\ e = input.e
  BY Zenon
<1>2. /\ b \in Bufs /\ r \in Indices /\ w \in Indices /\ e \in Indices
      /\ RingOK(b, r, w, e) /\ e # w
  BY <1>1 DEF Ring, RingInv
<1>3. Sub(e, 1) \in Indices /\ RingOK(b, r, w, Sub(e, 1))
  BY Zenon, <1>2, RingRubbed
<1>4. /\ input'.buf = b /\ input'.r = r /\ input'.w = w /\ input'.e = Sub(e, 1)
      /\ Ring(input)'
  BY <1>1, <1>2, <1>3 DEF Ring
<1>5. RingInv'
  BY Zenon, <1>3, <1>4 DEF RingInv
<1>6. /\ TextOf(b, w, e) # <<>>
      /\ TextOf(b, w, Sub(e, 1)) = SubSeq(TextOf(b, w, e), 1, Len(TextOf(b, w, e)) - 1)
  BY Zenon, <1>2, TextShrinks
<1>7. /\ Text(input.r, input.w)' = Text(input.r, input.w)
      /\ Text(input.w, input.e) = TextOf(b, w, e)
      /\ Text(input.w, input.e)' = TextOf(b, w, Sub(e, 1))
  BY Zenon, <1>1, <1>4, TextsAre
<1>8. Discipline!Erase
  BY Zenon, <1>6, <1>7 DEF Discipline!Erase
<1>9. QED
  BY Zenon, <1>1, <1>4, <1>5, <1>8

(* ^U.                                                                      *)
LEMMA EraseLineStep ==
  ASSUME ConsoleTypeOK, RingInv, input' = [input EXCEPT !.e = Sub(@, LineTail)]
  PROVE  /\ Ring(input)' /\ RingInv' /\ input'.r = input.r /\ input'.w = input.w
         /\ Discipline!EraseLine
<1>1. PICK b, r, w, e : b = input.buf /\ r = input.r /\ w = input.w /\ e = input.e
  BY Zenon
<1>2. /\ b \in Bufs /\ r \in Indices /\ w \in Indices /\ e \in Indices
      /\ RingOK(b, r, w, e) /\ Ring(input)
  BY <1>1 DEF Ring, RingInv, ConsoleTypeOK
<1>3. LineTail = Sub(e, w)
  BY Zenon, <1>1, LineTailIs
<1>4. Sub(e, LineTail) = w /\ RingOK(b, r, w, w)
  <2>1. Sub(e, Sub(e, w)) = w /\ RingOK(b, r, w, w)
    BY SMTT(60), <1>2, RingCleared
  <2>2. QED
    BY Zenon, <1>3, <2>1
<1>5. /\ input'.buf = b /\ input'.r = r /\ input'.w = w /\ input'.e = w
      /\ Ring(input)'
  BY <1>1, <1>2, <1>4 DEF Ring
<1>6. RingInv'
  BY Zenon, <1>4, <1>5 DEF RingInv
<1>7. TextOf(b, w, w) = <<>>
  BY Zenon, <1>2, TextEmpty
<1>8. /\ Text(input.r, input.w)' = Text(input.r, input.w)
      /\ Text(input.w, input.e)' = TextOf(b, w, w)
  BY Zenon, <1>1, <1>5, TextsAre
<1>9. Discipline!EraseLine
  BY Zenon, <1>7, <1>8 DEF Discipline!EraseLine
<1>10. QED
  BY Zenon, <1>1, <1>5, <1>6, <1>9

(* A character read.                                                        *)
LEMMA TakeStep ==
  ASSUME Ring(input), RingInv, input.r # input.w, input' = [input EXCEPT !.r = Add(input.r, 1)]
  PROVE  Ring(input)' /\ RingInv' /\ Discipline!Take
<1>1. PICK b, r, w, e : b = input.buf /\ r = input.r /\ w = input.w /\ e = input.e
  BY Zenon
<1>2. /\ b \in Bufs /\ r \in Indices /\ w \in Indices /\ e \in Indices
      /\ RingOK(b, r, w, e) /\ r # w
  BY <1>1 DEF Ring, RingInv
<1>3. Add(r, 1) \in Indices /\ RingOK(b, Add(r, 1), w, e)
  BY Zenon, <1>2, RingTaken
<1>4. /\ input'.buf = b /\ input'.r = Add(r, 1) /\ input'.w = w /\ input'.e = e
      /\ Ring(input)'
  BY <1>1, <1>2, <1>3 DEF Ring
<1>5. RingInv'
  BY Zenon, <1>3, <1>4 DEF RingInv
<1>6. TextOf(b, r, w) # <<>> /\ TextOf(b, Add(r, 1), w) = Tail(TextOf(b, r, w))
  BY Zenon, <1>2, TextTaken
<1>7. /\ Text(input.w, input.e)' = Text(input.w, input.e)
      /\ Text(input.r, input.w) = TextOf(b, r, w)
      /\ Text(input.r, input.w)' = TextOf(b, Add(r, 1), w)
  BY Zenon, <1>1, <1>4, TextsAre
<1>8. Discipline!Take
  BY Zenon, <1>6, <1>7 DEF Discipline!Take
<1>9. QED
  BY Zenon, <1>4, <1>5, <1>8

-----------------------------------------------------------------------------
(* A call that goes on.                                                     *)
LEMMA CallGoes ==
  ASSUME rd \in [CReaders -> Calls], NEW p \in CReaders, NEW x \in Calls, RGo(p, x)
  PROVE  /\ rd' \in [CReaders -> Calls] /\ rd'[p] = x
         /\ \A q \in CReaders : q # p => rd'[q] = rd[q]
BY Zenon DEF RGo

(* A call that goes on keeps what holds of the readers, if it does so       *)
(* itself, gives the lock up or takes it, and nothing is typed.             *)
LEMMA ReadersKept ==
  ASSUME ReaderInv, rd \in [CReaders -> Calls], NEW p \in CReaders, NEW x \in Calls, RGo(p, x),
         holder' = (IF x.pc \in {"locked", "drowsy"} THEN p ELSE IF holder = p THEN 0 ELSE holder),
         x.pc \in {"locked", "drowsy"} => holder \in {0, p},
         input'.w = input.w, input'.r # input.r => holder = p /\ input.r # input.w,
         x.pc \in {"drowsy", "sleep"} => input.r = input.w,
         x.pc # "user" => x.n \in 1..x.target
  PROVE  ReaderInv'
<1>1. rd'[p] = x /\ \A q \in CReaders : q # p => rd'[q] = rd[q]
  BY Zenon, CallGoes
<1>2. \A q \in CReaders : q # 0
  BY ConsoleAssumption
<1>3. ASSUME NEW q \in CReaders, q # p
      PROVE  /\ rd[q].pc \in {"locked", "drowsy"} <=> holder' = q
             /\ rd[q].pc \in {"drowsy", "sleep"} => input'.r = input'.w
             /\ rd[q].pc # "user" => rd[q].n \in 1..rd[q].target
  <2>1. /\ rd[q].pc \in {"locked", "drowsy"} <=> holder = q
        /\ rd[q].pc \in {"drowsy", "sleep"} => input.r = input.w
        /\ rd[q].pc # "user" => rd[q].n \in 1..rd[q].target
    BY Zenon DEF ReaderInv
  <2>2. holder = q <=> holder' = q
    BY Zenon, <1>2, <1>3
  <2>3. input.r = input.w => input'.r = input'.w
    BY Zenon
  <2>4. QED
    BY Zenon, <2>1, <2>2, <2>3
<1>4. /\ x.pc \in {"locked", "drowsy"} <=> holder' = p
      /\ x.pc \in {"drowsy", "sleep"} => input'.r = input'.w
  <2>1. p # 0
    BY Zenon, <1>2
  <2>2. x.pc \in {"locked", "drowsy"} <=> holder' = p
    BY Zenon, <2>1
  <2>3. QED
    BY Zenon, <2>2
<1>5. ASSUME NEW q \in CReaders
      PROVE  /\ rd'[q].pc \in {"locked", "drowsy"} <=> holder' = q
             /\ rd'[q].pc \in {"drowsy", "sleep"} => input'.r = input'.w
             /\ rd'[q].pc # "user" => rd'[q].n \in 1..rd'[q].target
  <2>1. CASE q = p
    BY Zenon, <1>1, <1>4, <2>1
  <2>2. CASE q # p
    BY Zenon, <1>1, <1>3, <2>2
  <2>3. QED
    BY Zenon, <2>1, <2>2
<1>6. QED
  BY Zenon, <1>5 DEF ReaderInv

(* A character on the screen.                                               *)
LEMMA CharShown ==
  ASSUME OnScreen, NEW c, c # "BACKSPACE", consputc(c)
  PROVE  OnScreen' /\ pos' \in Int /\ cpanic' \in BOOLEAN
<1>1. /\ cga(c, pos) \in 0..(ROWS * COLS)
      /\ Scroll(cga(c, pos)) \in 0..((ROWS - 1) * COLS - 1)
  BY Zenon, CursorStays DEF OnScreen
<1>2. pos' \in 0..((ROWS - 1) * COLS - 1) /\ cpanic' = FALSE
  BY Zenon, <1>1 DEF consputc
<1>3. \A i \in 0..((ROWS - 1) * COLS - 1) : i \in Int
  OBVIOUS
<1>4. QED
  BY Zenon, <1>2, <1>3 DEF OnScreen

(* Characters rubbed out on it.                                             *)
LEMMA CharsRubbed ==
  ASSUME OnScreen, cpanic \in BOOLEAN, NEW n \in Nat, Rubout(n)
  PROVE  OnScreen' /\ pos' \in Int /\ cpanic' \in BOOLEAN
<1>1. PICK M : M = (ROWS - 1) * COLS - 1
  BY Zenon
<1>2. pos \in 0..M /\ ~cpanic
  BY Zenon, <1>1 DEF OnScreen
<1>3. M \in Int
  BY <1>1, ConsoleAssumption
<1>4. pos' \in 0..M /\ pos' \in Int /\ cpanic' = cpanic
  BY <1>2, <1>3 DEF Rubout
<1>5. QED
  BY Zenon, <1>1, <1>2, <1>4 DEF OnScreen

(* A key that finishes no line leaves the readers alone.                    *)
LEMMA ReadersWait ==
  ASSUME ReaderInv, rd' = rd, holder' = holder, input'.r = input.r, input'.w = input.w
  PROVE  ReaderInv'
BY Zenon DEF ReaderInv

(* One that does wakes those who sleep.                                     *)
LEMMA ReadersWoken ==
  ASSUME ReaderInv, rd \in [CReaders -> Calls], holder = 0, holder' = 0, rd' = wakeupReaders
  PROVE  ReaderInv' /\ rd' \in [CReaders -> Calls]
<1>1. ASSUME NEW q \in CReaders
      PROVE  /\ rd'[q] \in Calls /\ rd'[q].pc \notin {"locked", "drowsy", "sleep"} /\ q # 0
             /\ rd'[q].pc # "user" => rd'[q].n \in 1..rd'[q].target
  <2>1. /\ rd[q] \in Calls /\ rd[q].pc \notin {"locked", "drowsy"} /\ q # 0
        /\ rd[q].pc # "user" => rd[q].n \in 1..rd[q].target
    BY Zenon, ConsoleAssumption DEF ReaderInv
  <2>2. rd'[q] = IF rd[q].pc = "sleep" THEN [rd[q] EXCEPT !.pc = "read"] ELSE rd[q]
    BY Zenon DEF wakeupReaders
  <2>3. PICK x \in Calls : x = rd[q]
    BY Zenon, <2>1
  <2>4. [x EXCEPT !.pc = "read"] \in Calls /\ [x EXCEPT !.pc = "read"].pc = "read"
        /\ [x EXCEPT !.pc = "read"].n = x.n /\ [x EXCEPT !.pc = "read"].target = x.target
    BY DEF Calls
  <2>5. QED
    BY <2>1, <2>2, <2>3, <2>4
<1>2. rd' \in [CReaders -> Calls]
  <2>1. \A q \in CReaders :
          (IF rd[q].pc = "sleep" THEN [rd[q] EXCEPT !.pc = "read"] ELSE rd[q]) \in Calls
    BY Zenon, <1>1 DEF wakeupReaders
  <2>2. QED
    BY Zenon, <2>1 DEF wakeupReaders
<1>3. ReaderInv'
  BY <1>1 DEF ReaderInv
<1>4. QED
  BY Zenon, <1>2, <1>3

-----------------------------------------------------------------------------
(* What one step must do: a step of the discipline or none, and no end of   *)
(* file behind bytes.                                                       *)
LineStep == [Discipline!LineNext]_(Discipline!lineVars)
EofStep ==
  \A p \in CReaders :
    holder = p /\ input'.r # input.r /\ input.buf[Slot(input.r)] = "^D" =>
      rd[p].n = rd[p].target /\ rd'[p].pc = "user"

(* A key.                                                                   *)
LEMMA KeyStep ==
  ASSUME ConsoleInv, NEW c \in Keys, Key(c)
  PROVE  ConsoleInv' /\ LineStep /\ EofStep
<1>1. /\ ConsoleTypeOK /\ Ring(input) /\ rd \in [CReaders -> Calls] /\ cpanic \in BOOLEAN
      /\ RingInv /\ ReaderInv /\ OnScreen /\ holder = 0 /\ holder' = 0
  BY Zenon DEF ConsoleInv, ConsoleTypeOK, Ring, Key
<1>2. EofStep
  BY Zenon, <1>1, ConsoleAssumption DEF EofStep
<1>3. CASE c = "^U"
  <2>1. input' = [input EXCEPT !.e = Sub(@, LineTail)] /\ Rubout(LineTail) /\ rd' = rd
    BY <1>3 DEF Key
  <2>2. /\ Ring(input)' /\ RingInv' /\ input'.r = input.r /\ input'.w = input.w
        /\ Discipline!EraseLine
    BY Zenon, <1>1, <2>1, EraseLineStep
  <2>3. LineTail \in Nat
    <3>1. input.buf \in Bufs /\ input.e \in Indices /\ input.w \in Indices
      BY <1>1 DEF Ring
    <3>2. QED
      BY Zenon, <1>1, <3>1, LineTailIs, TextType
  <2>4. OnScreen' /\ pos' \in Int /\ cpanic' \in BOOLEAN
    BY Zenon, <1>1, <2>1, <2>3, CharsRubbed
  <2>5. ReaderInv' /\ rd' \in [CReaders -> Calls]
    BY Zenon, <1>1, <2>1, <2>2, ReadersWait
  <2>6. ConsoleInv'
    BY Zenon, <2>2, <2>4, <2>5 DEF ConsoleInv, ConsoleTypeOK, Ring
  <2>7. LineStep
    BY Zenon, <2>2 DEF LineStep, Discipline!LineNext
  <2>8. QED
    BY Zenon, <1>2, <2>6, <2>7
<1>4. CASE c = "^H"
  <2>1. input' = [input EXCEPT !.e = Sub(@, 1)] /\ Rubout(1) /\ rd' = rd /\ input.e # input.w
    BY <1>4 DEF Key
  <2>2. /\ Ring(input)' /\ RingInv' /\ input'.r = input.r /\ input'.w = input.w
        /\ Discipline!Erase
    BY Zenon, <1>1, <2>1, EraseStep
  <2>3. 1 \in Nat
    OBVIOUS
  <2>4. OnScreen' /\ pos' \in Int /\ cpanic' \in BOOLEAN
    BY Zenon, <1>1, <2>1, <2>3, CharsRubbed
  <2>5. ReaderInv' /\ rd' \in [CReaders -> Calls]
    BY Zenon, <1>1, <2>1, <2>2, ReadersWait
  <2>6. ConsoleInv'
    BY Zenon, <2>2, <2>4, <2>5 DEF ConsoleInv, ConsoleTypeOK, Ring
  <2>7. LineStep
    BY Zenon, <2>2 DEF LineStep, Discipline!LineNext
  <2>8. QED
    BY Zenon, <1>2, <2>6, <2>7
<1>5. CASE c # "^U" /\ c # "^H"
  <2>1. /\ c \in {"a", "\n", "^D"} /\ Room /\ consputc(c)
        /\ input' = [input EXCEPT !.buf[Slot(input.e)] = c, !.e = Add(input.e, 1),
                       !.w = IF LineDone(c, Add(input.e, 1)) THEN Add(input.e, 1) ELSE @]
        /\ rd' = IF LineDone(c, Add(input.e, 1)) THEN wakeupReaders ELSE rd
    BY <1>5 DEF Key, Keys
  <2>2. /\ Ring(input)' /\ RingInv' /\ input'.r = input.r
        /\ ~LineDone(c, Add(input.e, 1)) => input'.w = input.w
        /\ Discipline!Type(c)
    BY Zenon, <1>1, <2>1, CharStep
  <2>3. c # "BACKSPACE"
    BY <2>1
  <2>4. OnScreen' /\ pos' \in Int /\ cpanic' \in BOOLEAN
    BY Zenon, <1>1, <2>1, <2>3, CharShown
  <2>5. ReaderInv' /\ rd' \in [CReaders -> Calls]
    <3>1. CASE LineDone(c, Add(input.e, 1))
      BY Zenon, <1>1, <2>1, <3>1, ReadersWoken
    <3>2. CASE ~LineDone(c, Add(input.e, 1))
      BY Zenon, <1>1, <2>1, <2>2, <3>2, ReadersWait
    <3>3. QED
      BY Zenon, <3>1, <3>2
  <2>6. ConsoleInv'
    BY Zenon, <2>2, <2>4, <2>5 DEF ConsoleInv, ConsoleTypeOK, Ring
  <2>7. LineStep
    <3>1. c \in {"a"} \cup {"\n", "^D"}
      BY <2>1
    <3>2. QED
      BY Zenon, <2>2, <3>1 DEF LineStep, Discipline!LineNext
  <2>8. QED
    BY Zenon, <1>2, <2>6, <2>7
<1>6. QED
  BY Zenon, <1>3, <1>4, <1>5

(* A step that leaves the ring alone.                                       *)
LEMMA RingAlone ==
  ASSUME Ring(input), RingInv, input' = input
  PROVE  Ring(input)' /\ RingInv' /\ LineStep /\ EofStep
<1>1. Ring(input)' /\ RingInv' /\ EofStep
  BY Zenon DEF Ring, RingInv, EofStep
<1>2. LineStep
  BY Zenon, TextsAre DEF LineStep, Discipline!lineVars
<1>3. QED
  BY Zenon, <1>1, <1>2

(* One that leaves the screen alone.                                        *)
LEMMA ScreenAlone ==
  ASSUME OnScreen, pos \in Int, cpanic \in BOOLEAN, pos' = pos, cpanic' = cpanic
  PROVE  OnScreen' /\ pos' \in Int /\ cpanic' \in BOOLEAN
BY Zenon DEF OnScreen

(* A character written, or nothing at all.                                  *)
LEMMA WriteStep ==
  ASSUME ConsoleInv, (\E c \in {"a", "\n"} : Write(c)) \/ UNCHANGED consoleVars
  PROVE  ConsoleInv' /\ LineStep /\ EofStep
<1>1. /\ Ring(input) /\ rd \in [CReaders -> Calls] /\ pos \in Int /\ cpanic \in BOOLEAN
      /\ RingInv /\ ReaderInv /\ OnScreen
  BY Zenon DEF ConsoleInv, ConsoleTypeOK, Ring
<1>2. input' = input /\ rd' = rd /\ holder' = holder
  BY DEF Write, consoleVars
<1>3. Ring(input)' /\ RingInv' /\ LineStep /\ EofStep
  BY Zenon, <1>1, <1>2, RingAlone
<1>4. ReaderInv'
  BY Zenon, <1>1, <1>2, ReadersWait
<1>5. OnScreen' /\ pos' \in Int /\ cpanic' \in BOOLEAN
  <2>1. CASE \E c \in {"a", "\n"} : Write(c)
    <3>1. PICK c \in {"a", "\n"} : consputc(c)
      BY <2>1 DEF Write
    <3>2. c # "BACKSPACE"
      OBVIOUS
    <3>3. QED
      BY Zenon, <1>1, <3>1, <3>2, CharShown
  <2>2. CASE UNCHANGED consoleVars
    <3>1. pos' = pos /\ cpanic' = cpanic
      BY <2>2 DEF consoleVars
    <3>2. QED
      BY Zenon, <1>1, <3>1, ScreenAlone
  <2>3. QED
    BY Zenon, <2>1, <2>2
<1>6. QED
  BY Zenon, <1>1, <1>2, <1>3, <1>4, <1>5 DEF ConsoleInv, ConsoleTypeOK, Ring

(* The call of a reader goes on, and the ring and the screen stay.          *)
LEMMA CallStep ==
  ASSUME ConsoleInv, NEW p \in CReaders, NEW x \in Calls, RGo(p, x),
         holder' = (IF x.pc \in {"locked", "drowsy"} THEN p ELSE IF holder = p THEN 0 ELSE holder),
         x.pc \in {"locked", "drowsy"} => holder \in {0, p},
         x.pc \in {"drowsy", "sleep"} => input.r = input.w,
         x.pc # "user" => x.n \in 1..x.target,
         UNCHANGED <<input, pos, cpanic>>
  PROVE  ConsoleInv' /\ LineStep /\ EofStep
<1>1. /\ Ring(input) /\ rd \in [CReaders -> Calls] /\ pos \in Int /\ cpanic \in BOOLEAN
      /\ RingInv /\ ReaderInv /\ OnScreen
  BY Zenon DEF ConsoleInv, ConsoleTypeOK, Ring
<1>2. input' = input /\ pos' = pos /\ cpanic' = cpanic /\ input'.r = input.r /\ input'.w = input.w
  OBVIOUS
<1>3. Ring(input)' /\ RingInv' /\ LineStep /\ EofStep
  BY Zenon, <1>1, <1>2, RingAlone
<1>4. ReaderInv'
  BY Zenon, <1>1, <1>2, ReadersKept
<1>5. rd' \in [CReaders -> Calls]
  BY Zenon, <1>1, CallGoes
<1>6. OnScreen' /\ pos' \in Int /\ cpanic' \in BOOLEAN
  <2>1. pos' = pos /\ cpanic' = cpanic
    BY Zenon, <1>2
  <2>2. QED
    BY Zenon, <1>1, <2>1, ScreenAlone
<1>7. QED
  BY Zenon, <1>3, <1>4, <1>5, <1>6 DEF ConsoleInv, ConsoleTypeOK, Ring

(* A call that starts, or one of a new process.                             *)
LEMMA ReadStep ==
  ASSUME ConsoleInv, NEW p \in CReaders, (\E n \in Counts : Read(p, n)) \/ Replace(p)
  PROVE  ConsoleInv' /\ LineStep /\ EofStep
<1>1. rd \in [CReaders -> Calls] /\ ReaderInv
  BY Zenon DEF ConsoleInv, ConsoleTypeOK
<1>2. rd[p].pc = "user" /\ holder' = holder /\ UNCHANGED <<input, pos, cpanic>>
  BY DEF Read, Replace
<1>3. holder # p
  <2>1. rd[p].pc \notin {"locked", "drowsy"}
    BY <1>2
  <2>2. QED
    BY Zenon, <1>1, <2>1 DEF ReaderInv
<1>4. CASE \E n \in Counts : Read(p, n)
  <2>1. PICK n \in Counts : RGo(p, [Resting EXCEPT !.pc = "read", !.n = n, !.target = n])
    BY <1>4 DEF Read
  <2>2. n \in Nat /\ n \in 1..n
    BY ConsoleAssumption
  <2>3. PICK x : x = [Resting EXCEPT !.pc = "read", !.n = n, !.target = n]
    BY Zenon
  <2>4. x \in Calls /\ x.pc = "read" /\ x.n = n /\ x.target = n
    BY <2>2, <2>3 DEF Calls, Resting
  <2>5. /\ x.pc \notin {"locked", "drowsy"} /\ x.pc \notin {"drowsy", "sleep"}
        /\ x.n \in 1..x.target
    BY <2>2, <2>4
  <2>6. RGo(p, x)
    BY Zenon, <2>1, <2>3
  <2>7. QED
    BY Zenon, <1>2, <1>3, <2>4, <2>5, <2>6, CallStep
<1>5. CASE Replace(p)
  <2>1. RGo(p, Resting)
    BY <1>5 DEF Replace
  <2>2. Resting \in Calls /\ Resting.pc = "user"
    BY DEF Calls, Resting
  <2>3. Resting.pc \notin {"locked", "drowsy"} /\ Resting.pc \notin {"drowsy", "sleep"}
    BY <2>2
  <2>4. QED
    BY Zenon, <1>2, <1>3, <2>1, <2>2, <2>3, CallStep
<1>6. QED
  BY Zenon, <1>4, <1>5

(* The lock, taken.                                                         *)
LEMMA LockStep ==
  ASSUME ConsoleInv, NEW p \in CReaders, Lock(p)
  PROVE  ConsoleInv' /\ LineStep /\ EofStep
<1>1. rd \in [CReaders -> Calls] /\ ReaderInv
  BY Zenon DEF ConsoleInv, ConsoleTypeOK
<1>2. /\ rd[p].pc = "read" /\ holder = 0 /\ holder' = p /\ UNCHANGED <<input, pos, cpanic>>
      /\ RGo(p, [rd[p] EXCEPT !.pc = "locked"])
  BY Zenon DEF Lock
<1>3. rd[p] \in Calls /\ rd[p].n \in 1..rd[p].target
  BY <1>1, <1>2 DEF ReaderInv
<1>4. PICK x : x = [rd[p] EXCEPT !.pc = "locked"]
  BY Zenon
<1>5. x \in Calls /\ x.pc = "locked" /\ x.n \in 1..x.target
  BY <1>3, <1>4 DEF Calls
<1>6. x.pc \in {"locked", "drowsy"} /\ x.pc \notin {"drowsy", "sleep"} /\ holder \in {0, p}
  BY <1>2, <1>5
<1>7. RGo(p, x)
  BY Zenon, <1>2, <1>4
<1>8. QED
  BY Zenon, <1>2, <1>5, <1>6, <1>7, CallStep

(* A return: the process is in user mode again.                             *)
LEMMA Returned ==
  ASSUME NEW p \in CReaders, rd \in [CReaders -> Calls], Return(p)
  PROVE  /\ holder' = 0
         /\ \E x \in Calls : /\ RGo(p, x) /\ x.pc = "user" /\ x.pc \notin {"locked", "drowsy"}
                             /\ x.pc \notin {"drowsy", "sleep"}
<1>1. holder' = 0 /\ RGo(p, [Resting EXCEPT !.killed = rd[p].killed])
  BY Zenon DEF Return
<1>2. rd[p] \in Calls
  BY Zenon
<1>3. rd[p].killed \in BOOLEAN
  BY <1>2 DEF Calls
<1>4. PICK x : x = [Resting EXCEPT !.killed = rd[p].killed]
  BY Zenon
<1>5. /\ x \in Calls /\ x.pc = "user" /\ x.pc \notin {"locked", "drowsy"}
      /\ x.pc \notin {"drowsy", "sleep"}
  BY <1>3, <1>4 DEF Calls, Resting
<1>6. RGo(p, x)
  BY Zenon, <1>1, <1>4
<1>7. QED
  BY Zenon, <1>1, <1>5, <1>6

(* Nothing to read.                                                         *)
LEMMA EmptyStep ==
  ASSUME ConsoleInv, NEW p \in CReaders, ReadEmpty(p) \/ Sleep(p)
  PROVE  ConsoleInv' /\ LineStep /\ EofStep
<1>1. rd \in [CReaders -> Calls] /\ ReaderInv
  BY Zenon DEF ConsoleInv, ConsoleTypeOK
<1>2. /\ rd[p].pc \in {"locked", "drowsy"} /\ UNCHANGED <<input, pos, cpanic>>
      /\ rd[p].pc # "user"
  BY DEF ReadEmpty, Sleep
<1>3. holder = p /\ rd[p].n \in 1..rd[p].target /\ rd[p] \in Calls
  BY Zenon, <1>1, <1>2 DEF ReaderInv
<1>4. CASE ReadEmpty(p) /\ rd[p].killed
  <2>1. Return(p)
    BY <1>4 DEF ReadEmpty
  <2>2. PICK x \in Calls : /\ RGo(p, x) /\ x.pc = "user" /\ x.pc \notin {"locked", "drowsy"}
                          /\ x.pc \notin {"drowsy", "sleep"}
    BY Zenon, <1>1, <2>1, Returned
  <2>3. holder' = 0
    BY Zenon, <1>1, <2>1, Returned
  <2>4. QED
    BY Zenon, <1>2, <1>3, <2>2, <2>3, CallStep
<1>5. CASE ReadEmpty(p) /\ ~rd[p].killed
  <2>1. RGo(p, [rd[p] EXCEPT !.pc = "drowsy"]) /\ holder' = holder /\ input.r = input.w
    BY <1>5 DEF ReadEmpty
  <2>2. PICK x : x = [rd[p] EXCEPT !.pc = "drowsy"]
    BY Zenon
  <2>3. x \in Calls /\ x.n \in 1..x.target /\ x.pc \in {"locked", "drowsy"}
    BY <1>3, <2>2 DEF Calls
  <2>4. RGo(p, x) /\ holder' = p /\ holder \in {0, p}
    BY Zenon, <1>3, <2>1, <2>2
  <2>5. QED
    BY Zenon, <1>2, <2>1, <2>3, <2>4, CallStep
<1>6. CASE Sleep(p)
  <2>1. RGo(p, [rd[p] EXCEPT !.pc = "sleep"]) /\ holder' = 0 /\ rd[p].pc = "drowsy"
    BY <1>6 DEF Sleep
  <2>2. input.r = input.w
    BY <1>1, <2>1 DEF ReaderInv
  <2>3. PICK x : x = [rd[p] EXCEPT !.pc = "sleep"]
    BY Zenon
  <2>4. x \in Calls /\ x.n \in 1..x.target /\ x.pc \notin {"locked", "drowsy"}
    BY <1>3, <2>3 DEF Calls
  <2>5. RGo(p, x)
    BY Zenon, <2>1, <2>3
  <2>6. QED
    BY Zenon, <1>2, <1>3, <2>1, <2>2, <2>4, <2>5, CallStep
<1>7. QED
  BY Zenon, <1>4, <1>5, <1>6

(* A kill.                                                                  *)
LEMMA KillStep ==
  ASSUME ConsoleInv, NEW p \in CReaders, Kill(p)
  PROVE  ConsoleInv' /\ LineStep /\ EofStep
<1>1. rd \in [CReaders -> Calls] /\ ReaderInv
  BY Zenon DEF ConsoleInv, ConsoleTypeOK
<1>2. /\ rd[p].pc # "user" /\ holder' = holder /\ UNCHANGED <<input, pos, cpanic>>
      /\ RGo(p, [rd[p] EXCEPT !.killed = TRUE, !.pc = IF @ = "sleep" THEN "read" ELSE @])
  BY DEF Kill
<1>3. /\ rd[p] \in Calls /\ rd[p].n \in 1..rd[p].target
      /\ rd[p].pc \in {"locked", "drowsy"} <=> holder = p
      /\ rd[p].pc \in {"drowsy", "sleep"} => input.r = input.w
  BY Zenon, <1>1, <1>2 DEF ReaderInv
<1>4. PICK x : x = [rd[p] EXCEPT !.killed = TRUE, !.pc = IF @ = "sleep" THEN "read" ELSE @]
  BY Zenon
<1>5. /\ x \in Calls /\ x.n \in 1..x.target
      /\ x.pc \in {"locked", "drowsy"} <=> rd[p].pc \in {"locked", "drowsy"}
      /\ x.pc \in {"drowsy", "sleep"} => rd[p].pc \in {"drowsy", "sleep"}
  BY <1>3, <1>4 DEF Calls
<1>6. RGo(p, x)
  BY Zenon, <1>2, <1>4
<1>7. /\ holder' = (IF x.pc \in {"locked", "drowsy"} THEN p ELSE IF holder = p THEN 0 ELSE holder)
      /\ x.pc \in {"locked", "drowsy"} => holder \in {0, p}
      /\ x.pc \in {"drowsy", "sleep"} => input.r = input.w
  BY Zenon, <1>2, <1>3, <1>5
<1>8. QED
  BY Zenon, <1>2, <1>5, <1>6, <1>7, CallStep

(* A character taken by the reader that has the lock, or an end of file.    *)
LEMMA CharTaken ==
  ASSUME ConsoleInv, NEW p \in CReaders, ReadChar(p)
  PROVE  ConsoleInv' /\ LineStep /\ EofStep
<1>1. /\ Ring(input) /\ rd \in [CReaders -> Calls] /\ pos \in Int /\ cpanic \in BOOLEAN
      /\ RingInv /\ ReaderInv /\ OnScreen
  BY Zenon DEF ConsoleInv, ConsoleTypeOK, Ring
<1>2. rd[p].pc = "locked" /\ input.r # input.w /\ pos' = pos /\ cpanic' = cpanic
  BY DEF ReadChar
<1>3. holder = p /\ rd[p].n \in 1..rd[p].target /\ rd[p] \in Calls
  BY <1>1, <1>2 DEF ReaderInv
<1>4. OnScreen' /\ pos' \in Int /\ cpanic' \in BOOLEAN
  BY Zenon, <1>1, <1>2, ScreenAlone
<1>5. /\ \/ input' = input
         \/ input' = [input EXCEPT !.r = Add(input.r, 1)]
      /\ \/ Return(p)
         \/ /\ RGo(p, [rd[p] EXCEPT !.n = @ - 1]) /\ holder' = holder
            /\ rd[p].n # 1 /\ input.buf[Slot(input.r)] # "^D"
      /\ input.buf[Slot(input.r)] = "^D" /\ input'.r # input.r => ~(rd[p].n < rd[p].target)
  <2>1. CASE input.buf[Slot(input.r)] = "^D"
    <3>1. input' = [input EXCEPT !.r = Eof(p)] /\ Return(p)
      BY Zenon, <2>1 DEF ReadChar
    <3>2. CASE rd[p].n < rd[p].target
      <4>1. input' = [input EXCEPT !.r = input.r]
        BY Zenon, <3>1, <3>2 DEF Eof
      <4>2. input' = input
        BY <1>1, <4>1 DEF Ring
      <4>3. QED
        BY Zenon, <3>1, <4>2
    <3>3. CASE ~(rd[p].n < rd[p].target)
      <4>1. input' = [input EXCEPT !.r = Add(input.r, 1)]
        BY Zenon, <3>1, <3>3 DEF Eof
      <4>2. QED
        BY Zenon, <3>1, <3>3, <4>1
    <3>4. QED
      BY Zenon, <3>2, <3>3
  <2>2. CASE input.buf[Slot(input.r)] # "^D"
    <3>1. /\ input' = [input EXCEPT !.r = Add(@, 1)]
          /\ \/ Return(p)
             \/ RGo(p, [rd[p] EXCEPT !.n = @ - 1]) /\ holder' = holder /\ rd[p].n # 1
      BY Zenon, <2>2 DEF ReadChar
    <3>2. QED
      BY Zenon, <2>2, <3>1
  <2>3. QED
    BY Zenon, <2>1, <2>2
<1>6. Ring(input)' /\ RingInv' /\ LineStep
  <2>1. CASE input' = input
    BY Zenon, <1>1, <2>1, RingAlone
  <2>2. CASE input' = [input EXCEPT !.r = Add(input.r, 1)]
    <3>1. Ring(input)' /\ RingInv' /\ Discipline!Take
      BY Zenon, <1>1, <1>2, <2>2, TakeStep
    <3>2. QED
      BY Zenon, <3>1 DEF LineStep, Discipline!LineNext
  <2>3. QED
    BY Zenon, <1>5, <2>1, <2>2
<1>7. input'.w = input.w
  BY <1>1, <1>5 DEF Ring
<1>8. PICK x \in Calls :
        /\ RGo(p, x) /\ x.pc \notin {"drowsy", "sleep"}
        /\ x.pc # "user" => x.n \in 1..x.target
        /\ holder' = (IF x.pc \in {"locked", "drowsy"} THEN p ELSE 0)
        /\ input.buf[Slot(input.r)] = "^D" => x.pc = "user"
  <2>1. CASE Return(p)
    <3>1. PICK x \in Calls : /\ RGo(p, x) /\ x.pc = "user" /\ x.pc \notin {"locked", "drowsy"}
                            /\ x.pc \notin {"drowsy", "sleep"}
      BY Zenon, <1>1, <2>1, Returned
    <3>2. holder' = 0
      BY Zenon, <1>1, <2>1, Returned
    <3>3. QED
      BY Zenon, <3>1, <3>2
  <2>2. CASE /\ RGo(p, [rd[p] EXCEPT !.n = @ - 1]) /\ holder' = holder
             /\ rd[p].n # 1 /\ input.buf[Slot(input.r)] # "^D"
    <3>1. PICK x : x = [rd[p] EXCEPT !.n = @ - 1]
      BY Zenon
    <3>2. PICK y \in Calls : y = rd[p]
      BY Zenon, <1>3
    <3>3. y.n \in 1..y.target /\ y.n # 1 /\ y.pc = "locked" /\ x = [y EXCEPT !.n = y.n - 1]
      BY Zenon, <1>2, <1>3, <2>2, <3>1, <3>2
    <3>4. y.n \in Nat /\ y.target \in Nat
      BY DEF Calls
    <3>5. x.n = y.n - 1 /\ x.pc = "locked" /\ x.target = y.target /\ y.n - 1 \in Nat
          /\ y.n - 1 \in 1..y.target
      BY <3>3, <3>4 DEF Calls
    <3>6. x \in Calls
      BY <3>3, <3>4, <3>5 DEF Calls
    <3>7. RGo(p, x) /\ holder' = p
      BY Zenon, <1>3, <2>2, <3>1
    <3>8. x.pc \in {"locked", "drowsy"} /\ x.pc \notin {"drowsy", "sleep"} /\ x.n \in 1..x.target
      BY <3>5
    <3>9. QED
      BY Zenon, <2>2, <3>6, <3>7, <3>8
  <2>3. QED
    BY Zenon, <1>5, <2>1, <2>2
<1>9. rd' \in [CReaders -> Calls] /\ rd'[p] = x
  <2>1. RGo(p, x)
    BY Zenon, <1>8
  <2>2. QED
    BY Zenon, <1>1, <2>1, CallGoes
<1>10. ReaderInv'
  <2>1. /\ holder' = (IF x.pc \in {"locked", "drowsy"} THEN p ELSE IF holder = p THEN 0 ELSE holder)
        /\ x.pc \in {"locked", "drowsy"} => holder \in {0, p}
    BY Zenon, <1>3, <1>8
  <2>2. /\ RGo(p, x)
        /\ input'.r # input.r => holder = p /\ input.r # input.w
        /\ x.pc \in {"drowsy", "sleep"} => input.r = input.w
        /\ x.pc # "user" => x.n \in 1..x.target
    BY Zenon, <1>2, <1>3, <1>8
  <2>3. ReaderInv /\ rd \in [CReaders -> Calls]
    BY Zenon, <1>1
  <2>4. QED
    BY Zenon, <1>7, <2>1, <2>2, <2>3, ReadersKept
<1>11. EofStep
  <2>1. ASSUME NEW q \in CReaders, holder = q, input'.r # input.r, input.buf[Slot(input.r)] = "^D"
        PROVE  rd[q].n = rd[q].target /\ rd'[q].pc = "user"
    <3>1. q = p
      BY Zenon, <1>3, <2>1
    <3>2. ~(rd[p].n < rd[p].target) /\ rd'[p].pc = "user"
      BY Zenon, <1>5, <1>8, <1>9, <2>1
    <3>3. rd[p].n \in Nat /\ rd[p].target \in Nat
      BY <1>3 DEF Calls
    <3>4. rd[p].n = rd[p].target
      BY <1>3, <3>2, <3>3
    <3>5. QED
      BY Zenon, <3>1, <3>2, <3>4
  <2>2. QED
    BY Zenon, <2>1 DEF EofStep
<1>12. ConsoleInv'
  BY Zenon, <1>4, <1>6, <1>9, <1>10 DEF ConsoleInv, ConsoleTypeOK, Ring
<1>13. QED
  BY Zenon, <1>6, <1>11, <1>12

-----------------------------------------------------------------------------
(* Every step of the console.                                               *)
LEMMA ConsoleStep ==
  ASSUME ConsoleInv, [ConsoleNext]_consoleVars
  PROVE  ConsoleInv' /\ LineStep /\ EofStep
<1>1. CASE \E c \in Keys : Key(c)
  BY Zenon, <1>1, KeyStep
<1>2. CASE (\E c \in {"a", "\n"} : Write(c)) \/ UNCHANGED consoleVars
  BY Zenon, <1>2, WriteStep
<1>3. ASSUME NEW p \in CReaders, (\E n \in Counts : Read(p, n)) \/ Replace(p)
      PROVE  ConsoleInv' /\ LineStep /\ EofStep
  BY Zenon, <1>3, ReadStep
<1>4. ASSUME NEW p \in CReaders, ReaderStep(p) PROVE ConsoleInv' /\ LineStep /\ EofStep
  BY Zenon, <1>4, LockStep, CharTaken, EmptyStep DEF ReaderStep
<1>5. ASSUME NEW p \in CReaders, Kill(p) PROVE ConsoleInv' /\ LineStep /\ EofStep
  BY Zenon, <1>5, KillStep
<1>6. QED
  BY Zenon, <1>1, <1>2, <1>3, <1>4, <1>5 DEF ConsoleNext

(* The console starts in order, with nothing typed.                         *)
LEMMA ConsoleStarts ==
  ASSUME ConsoleInit
  PROVE  ConsoleInv /\ Discipline!LineInit
<1>1. PICK b : b = [i \in 0..(INPUT_BUF - 1) |-> "NUL"]
  BY Zenon
<1>2. b \in Bufs
  BY <1>1 DEF Bufs, Stored
<1>3. 0 \in Indices
  BY ConsoleAssumption DEF Indices
<1>4. /\ input.buf = b /\ input.r = 0 /\ input.w = 0 /\ input.e = 0
      /\ input \in [buf : Bufs, r : Indices, w : Indices, e : Indices]
  BY <1>1, <1>2, <1>3 DEF ConsoleInit
<1>5. Resting \in Calls /\ Resting.pc = "user"
  BY DEF Resting, Calls
<1>6. rd \in [CReaders -> Calls] /\ \A p \in CReaders : rd[p] = Resting
  BY Zenon, <1>5 DEF ConsoleInit
<1>7. Sub(0, 0) = 0
  BY Zenon, <1>3, SubIs
<1>8. 0 = 0 + 0 /\ 0 <= INPUT_BUF /\ \A i \in Nat : ~(i < 0)
  BY ConsoleAssumption
<1>9. RingInv
  BY Zenon, <1>4, <1>7, <1>8 DEF RingInv, RingOK
<1>10. ReaderInv
  BY <1>5, <1>6, ConsoleAssumption DEF ReaderInv, ConsoleInit
<1>11. OnScreen /\ pos \in Int /\ cpanic \in BOOLEAN
  <2>1. PICK M \in Nat : M = ROWS - 1 /\ M >= 1
    BY ConsoleAssumption
  <2>2. M * COLS >= 1
    BY <2>1, ConsoleAssumption
  <2>3. 0 \in 0..((ROWS - 1) * COLS - 1)
    BY <2>1, <2>2, ConsoleAssumption
  <2>4. pos = 0 /\ cpanic = FALSE /\ 0 \in Int
    BY DEF ConsoleInit
  <2>5. QED
    BY Zenon, <2>3, <2>4 DEF OnScreen
<1>12. Text(input.r, input.w) = <<>> /\ Text(input.w, input.e) = <<>>
  BY Zenon, <1>2, <1>3, <1>4, TextsAre, TextEmpty
<1>13. QED
  BY Zenon, <1>4, <1>6, <1>9, <1>10, <1>11, <1>12
     DEF ConsoleInv, ConsoleTypeOK, Discipline!LineInit

(* The console's invariant.                                                 *)
LEMMA ConsoleInvHolds == ConsoleSpec => []ConsoleInv
<1>1. ConsoleInit => ConsoleInv
  BY Zenon, ConsoleStarts
<1>2. ConsoleInv /\ [ConsoleNext]_consoleVars => ConsoleInv'
  BY Zenon, ConsoleStep
<1>3. QED
  BY <1>1, <1>2, PTL DEF ConsoleSpec

(* The cursor never leaves the screen and cgaputc() never panics, whatever  *)
(* is echoed, erased or written.                                            *)
THEOREM ConsoleOnScreen == ConsoleSpec => []OnScreen
<1>1. ConsoleInv => OnScreen
  BY Zenon DEF ConsoleInv
<1>2. QED
  BY <1>1, ConsoleInvHolds, PTL

(* No reader sleeps while there is a finished line: no wakeup is lost       *)
(* between consoleread()'s test and its sleep().                            *)
THEOREM ConsoleSleepJustified == ConsoleSpec => []SleepJustified
<1>1. ConsoleInv => SleepJustified
  BY DEF ConsoleInv, ReaderInv, SleepJustified
<1>2. QED
  BY <1>1, ConsoleInvHolds, PTL

(* A ^D is taken only by a read that has got nothing so far, and ends it.   *)
THEOREM ConsoleEofAlone == ConsoleSpec => EofAlone
<1>1. ConsoleInv /\ [ConsoleNext]_consoleVars => [EofStep]_consoleVars
  BY Zenon, ConsoleStep
<1>2. EofAlone <=> [][EofStep]_consoleVars
  BY PTL DEF EofAlone, EofStep
<1>3. QED
  BY <1>1, <1>2, ConsoleInvHolds, PTL DEF ConsoleSpec

(* The ring with its wrapping indices implements the line discipline: what  *)
(* is read is what was typed, in order, and only the last line is edited.   *)
THEOREM ConsoleImplementsDiscipline == ConsoleSpec => ConsoleIsDiscipline
<1>1. ConsoleInit => Discipline!LineInit
  BY Zenon, ConsoleStarts
<1>2. ConsoleInv /\ [ConsoleNext]_consoleVars => [Discipline!LineNext]_(Discipline!lineVars)
  BY Zenon, ConsoleStep DEF LineStep
<1>3. QED
  BY <1>1, <1>2, ConsoleInvHolds, PTL DEF ConsoleSpec, ConsoleIsDiscipline, Discipline!LineSpec

-----------------------------------------------------------------------------
(* The clock: what has passed since a call is what the two readings of      *)
(* ticks differ by, modulo TWORD.                                           *)
Times == 0..(TWORD - 1)
SleepCalls == [pc : {"user", "sleep", "check"}, n : Nat, ticks0 : Times, passed : Times,
               killed : BOOLEAN]
Timed(t, x) == x.pc # "user" => (t - x.ticks0) % TWORD = x.passed

ClockInv ==
  /\ ticks \in Times /\ sl \in [Sleepers -> SleepCalls]
  /\ \A p \in Sleepers : Timed(ticks, sl[p])

(* What one step must do.                                                   *)
SleptStep ==
  \A p \in Sleepers : sl[p].pc = "check" /\ sl'[p].pc = "user" =>
    sl[p].passed >= sl[p].n \/ sl[p].killed

(* A tick more on both sides.                                               *)
LEMMA TickCounted ==
  ASSUME NEW t \in Times, NEW u \in Times, NEW k \in Times, (t - u) % TWORD = k, k < TWORD - 1
  PROVE  (t + 1) % TWORD \in Times /\ k + 1 \in Times /\ (((t + 1) % TWORD) - u) % TWORD = k + 1
<1>1. TWORD \in Nat \ {0} /\ t \in Nat /\ u \in Nat /\ k \in Nat /\ t - u \in Int
  BY ClockAssumption DEF Times
<1>2. k + 1 \in 0..(TWORD - 1) /\ k + 1 \in Times
  BY <1>1 DEF Times
<1>3. PICK q \in Int, r \in 0..(TWORD - 1) : t - u = q * TWORD + r /\ r = (t - u) % TWORD
  BY Zenon, <1>1, ModQuotient
<1>4. (t + 1) % TWORD = IF t + 1 = TWORD THEN 0 ELSE t + 1
  BY <1>1 DEF Times
<1>5. t - u = q * TWORD + k
  BY Zenon, <1>3
<1>6. CASE t + 1 = TWORD
  <2>1. (t + 1) % TWORD = 0
    BY Zenon, <1>4, <1>6
  <2>2. 0 - u = (q - 1) * TWORD + (k + 1) /\ q - 1 \in Int /\ 0 - u \in Int
    BY <1>1, <1>5, <1>6
  <2>3. (0 - u) % TWORD = k + 1
    BY Zenon, <1>1, <1>2, <2>2, ModUnique
  <2>4. 0 \in Times
    BY <1>1 DEF Times
  <2>5. QED
    BY Zenon, <1>2, <2>1, <2>3, <2>4
<1>7. CASE t + 1 # TWORD
  <2>1. PICK v : v = (t + 1) % TWORD
    BY Zenon
  <2>2. v = t + 1
    BY Zenon, <1>4, <1>7, <2>1
  <2>3. v \in Times /\ v - u = q * TWORD + (k + 1) /\ v - u \in Int
    BY <1>1, <1>5, <1>7, <2>2 DEF Times
  <2>4. (v - u) % TWORD = k + 1
    BY Zenon, <1>1, <1>2, <2>3, ModUnique
  <2>5. QED
    BY Zenon, <1>2, <2>1, <2>3, <2>4
<1>8. QED
  BY Zenon, <1>6, <1>7

(* The clock interrupt.                                                     *)
LEMMA TickStep ==
  ASSUME ClockInv, Tick
  PROVE  ClockInv' /\ SleptStep
<1>1. ticks \in Times /\ \A p \in Sleepers : sl[p] \in SleepCalls /\ Timed(ticks, sl[p])
  BY Zenon DEF ClockInv
<1>2. /\ ticks' = (ticks + 1) % TWORD
      /\ \A p \in Sleepers : sl[p].passed < TWORD - 1
      /\ sl' = [p \in Sleepers |-> IF sl[p].pc = "user" THEN sl[p]
                                 ELSE [sl[p] EXCEPT !.passed = @ + 1, !.pc = "check"]]
  BY Zenon DEF Tick
<1>3. ticks' \in Times
  <2>1. \A t \in Times : (t + 1) % TWORD \in Times
    BY ClockAssumption DEF Times
  <2>2. QED
    BY Zenon, <1>1, <1>2, <2>1
<1>4. ASSUME NEW p \in Sleepers
      PROVE  /\ sl'[p] \in SleepCalls /\ Timed(ticks', sl'[p])
             /\ sl[p].pc = "check" => sl'[p].pc # "user"
  <2>1. sl'[p] = IF sl[p].pc = "user" THEN sl[p]
                 ELSE [sl[p] EXCEPT !.passed = @ + 1, !.pc = "check"]
    BY Zenon, <1>2
  <2>2. PICK x \in SleepCalls : x = sl[p]
    BY Zenon, <1>1
  <2>3. Timed(ticks, x) /\ x.passed < TWORD - 1
    BY Zenon, <1>1, <1>2, <2>2
  <2>4. CASE x.pc = "user"
    <3>1. sl'[p] = x
      BY Zenon, <2>1, <2>2, <2>4
    <3>2. x.pc # "check"
      BY <2>4
    <3>3. QED
      BY Zenon, <2>2, <2>4, <3>1, <3>2 DEF Timed
  <2>5. CASE x.pc # "user"
    <3>1. PICK y : y = [x EXCEPT !.passed = @ + 1, !.pc = "check"]
      BY Zenon
    <3>2. x.ticks0 \in Times /\ x.passed \in Times
      BY DEF SleepCalls
    <3>3. (ticks - x.ticks0) % TWORD = x.passed
      BY Zenon, <2>3, <2>5 DEF Timed
    <3>4. x.passed + 1 \in Times /\ (ticks' - x.ticks0) % TWORD = x.passed + 1
      <4>1. /\ x.passed + 1 \in Times
            /\ (((ticks + 1) % TWORD) - x.ticks0) % TWORD = x.passed + 1
        BY Zenon, <1>1, <2>3, <3>2, <3>3, TickCounted
      <4>2. QED
        BY Zenon, <1>2, <4>1
    <3>5. y.pc = "check" /\ y.ticks0 = x.ticks0 /\ y.passed = x.passed + 1 /\ y \in SleepCalls
      BY <3>1, <3>4 DEF SleepCalls
    <3>6. sl'[p] = y
      BY Zenon, <2>1, <2>2, <2>5, <3>1
    <3>7. Timed(ticks', y)
      BY Zenon, <3>4, <3>5 DEF Timed
    <3>8. y.pc # "user"
      BY <3>5
    <3>9. QED
      BY Zenon, <3>5, <3>6, <3>7, <3>8
  <2>6. QED
    BY Zenon, <2>4, <2>5
<1>5. sl' \in [Sleepers -> SleepCalls]
  <2>1. \A p \in Sleepers : (IF sl[p].pc = "user" THEN sl[p]
                            ELSE [sl[p] EXCEPT !.passed = @ + 1, !.pc = "check"]) \in SleepCalls
    BY Zenon, <1>2, <1>4
  <2>2. QED
    BY Zenon, <1>2, <2>1
<1>6. QED
  BY Zenon, <1>3, <1>4, <1>5 DEF ClockInv, SleptStep

(* A step of one process.                                                   *)
LEMMA SleeperStep ==
  ASSUME ClockInv, NEW p \in Sleepers, NEW x \in SleepCalls, SGo(p, x), Timed(ticks, x),
         sl[p].pc = "check" /\ x.pc = "user" => sl[p].passed >= sl[p].n \/ sl[p].killed
  PROVE  ClockInv' /\ SleptStep
<1>1. ticks \in Times /\ sl \in [Sleepers -> SleepCalls] /\ \A q \in Sleepers : Timed(ticks, sl[q])
  BY Zenon DEF ClockInv
<1>2. ticks' = ticks /\ sl' = [sl EXCEPT ![p] = x]
  BY Zenon DEF SGo
<1>3. /\ sl' \in [Sleepers -> SleepCalls] /\ sl'[p] = x
      /\ \A q \in Sleepers : q # p => sl'[q] = sl[q]
  BY Zenon, <1>1, <1>2
<1>4. \A q \in Sleepers : Timed(ticks', sl'[q])
  BY Zenon, <1>1, <1>2, <1>3
<1>5. ASSUME NEW q \in Sleepers, sl[q].pc = "check", sl'[q].pc = "user"
      PROVE  sl[q].passed >= sl[q].n \/ sl[q].killed
  <2>1. q = p
    BY <1>3, <1>5
  <2>2. QED
    BY Zenon, <1>3, <1>5, <2>1
<1>6. QED
  BY Zenon, <1>1, <1>2, <1>3, <1>4, <1>5 DEF ClockInv, SleptStep

(* A process goes to sleep.                                                 *)
LEMMA AsleepStep ==
  ASSUME ClockInv, NEW p \in Sleepers, NEW y \in SleepCalls, sleep(p, y),
         (ticks - y.ticks0) % TWORD = y.passed
  PROVE  ClockInv' /\ SleptStep
<1>1. PICK k \in BOOLEAN : SGo(p, [y EXCEPT !.pc = "sleep", !.killed = k])
  BY Zenon DEF sleep
<1>2. PICK x : x = [y EXCEPT !.pc = "sleep", !.killed = k]
  BY Zenon
<1>3. x \in SleepCalls /\ x.pc = "sleep" /\ x.ticks0 = y.ticks0 /\ x.passed = y.passed
  BY <1>2 DEF SleepCalls
<1>4. x.pc # "user"
  BY <1>3
<1>5. Timed(ticks, x) /\ SGo(p, x)
  BY Zenon, <1>1, <1>2, <1>3 DEF Timed
<1>6. QED
  BY Zenon, <1>3, <1>4, <1>5, SleeperStep

(* Every step of the clock and of the processes that sleep.                 *)
LEMMA ClockStep ==
  ASSUME ClockInv, [ClockNext]_clockVars
  PROVE  ClockInv' /\ SleptStep
<1>1. ticks \in Times /\ \A q \in Sleepers : sl[q] \in SleepCalls /\ Timed(ticks, sl[q])
  BY Zenon DEF ClockInv
<1>2. TWORD \in Nat \ {0} /\ 0 \in Times
  BY ClockAssumption DEF Times
<1>3. ASSUME NEW k \in BOOLEAN
      PROVE  /\ [Awake EXCEPT !.killed = k] \in SleepCalls
             /\ [Awake EXCEPT !.killed = k].pc = "user" /\ Awake \in SleepCalls /\ Awake.pc = "user"
  BY <1>2 DEF Awake, SleepCalls
<1>4. CASE UNCHANGED clockVars
  <2>1. ticks' = ticks /\ sl' = sl
    BY <1>4 DEF clockVars
  <2>2. SleptStep
    BY <2>1 DEF SleptStep
  <2>3. QED
    BY Zenon, <2>1, <2>2 DEF ClockInv
<1>5. CASE Tick
  BY Zenon, <1>5, TickStep
<1>6. ASSUME NEW p \in Sleepers, NEW n \in Naps, SysSleep(p, n) PROVE ClockInv' /\ SleptStep
  <2>1. CASE n = 0
    BY Zenon, <1>4, <1>6, <2>1 DEF SysSleep
  <2>2. CASE n # 0
    <3>1. PICK y : y = [Awake EXCEPT !.n = n, !.ticks0 = ticks]
      BY Zenon
    <3>2. sleep(p, y)
      BY Zenon, <1>6, <2>2, <3>1 DEF SysSleep
    <3>3. n \in Nat
      BY ClockAssumption
    <3>4. y \in SleepCalls /\ y.ticks0 = ticks /\ y.passed = 0
      BY <1>1, <1>2, <3>1, <3>3 DEF Awake, SleepCalls
    <3>5. (ticks - ticks) % TWORD = 0
      BY <1>1, <1>2 DEF Times
    <3>6. (ticks - y.ticks0) % TWORD = y.passed
      BY Zenon, <3>4, <3>5
    <3>7. QED
      BY Zenon, <3>2, <3>4, <3>6, AsleepStep
  <2>3. QED
    BY Zenon, <2>1, <2>2
<1>7. ASSUME NEW p \in Sleepers, Check(p) PROVE ClockInv' /\ SleptStep
  <2>1. sl[p] \in SleepCalls /\ sl[p].pc = "check" /\ sl[p].pc # "user"
    BY <1>1, <1>7 DEF Check
  <2>2. (ticks - sl[p].ticks0) % TWORD = sl[p].passed
    BY Zenon, <1>1, <2>1 DEF Timed
  <2>3. CASE NotYet(sl[p]) /\ ~sl[p].killed
    <3>1. sleep(p, sl[p])
      BY Zenon, <1>7, <2>3 DEF Check
    <3>2. QED
      BY Zenon, <2>1, <2>2, <3>1, AsleepStep
  <2>4. CASE ~(NotYet(sl[p]) /\ ~sl[p].killed)
    <3>1. SGo(p, [Awake EXCEPT !.killed = sl[p].killed])
      BY Zenon, <1>7, <2>4 DEF Check
    <3>2. sl[p].killed \in BOOLEAN /\ sl[p].passed \in Times /\ sl[p].n \in Nat
      BY <2>1 DEF SleepCalls
    <3>3. PICK x : x = [Awake EXCEPT !.killed = sl[p].killed]
      BY Zenon
    <3>4. x \in SleepCalls /\ x.pc = "user"
      BY Zenon, <1>3, <3>2, <3>3
    <3>5. ~(sl[p].passed < sl[p].n) \/ sl[p].killed
      BY Zenon, <2>2, <2>4 DEF NotYet
    <3>6. sl[p].passed >= sl[p].n \/ sl[p].killed
      BY <3>2, <3>5 DEF Times
    <3>7. SGo(p, x) /\ Timed(ticks, x)
      BY Zenon, <3>1, <3>3, <3>4 DEF Timed
    <3>8. QED
      BY Zenon, <3>4, <3>6, <3>7, SleeperStep
  <2>5. QED
    BY Zenon, <2>3, <2>4
<1>8. ASSUME NEW p \in Sleepers, KillSleeper(p) PROVE ClockInv' /\ SleptStep
  <2>1. sl[p] \in SleepCalls /\ sl[p].pc # "user"
    BY <1>1, <1>8 DEF KillSleeper
  <2>2. (ticks - sl[p].ticks0) % TWORD = sl[p].passed
    BY Zenon, <1>1, <2>1 DEF Timed
  <2>3. PICK x : x = [sl[p] EXCEPT !.killed = TRUE, !.pc = "check"]
    BY Zenon
  <2>4. x \in SleepCalls /\ x.pc = "check" /\ x.ticks0 = sl[p].ticks0 /\ x.passed = sl[p].passed
    BY <2>1, <2>3 DEF SleepCalls
  <2>5. SGo(p, x)
    BY Zenon, <1>8, <2>3 DEF KillSleeper
  <2>6. Timed(ticks, x)
    BY Zenon, <2>2, <2>4 DEF Timed
  <2>7. x.pc # "user"
    BY <2>4
  <2>8. QED
    BY Zenon, <2>4, <2>5, <2>6, <2>7, SleeperStep
<1>9. ASSUME NEW p \in Sleepers, NewSleeper(p) PROVE ClockInv' /\ SleptStep
  <2>1. SGo(p, Awake) /\ sl[p].pc # "check"
    BY <1>9 DEF NewSleeper
  <2>2. Awake \in SleepCalls /\ Awake.pc = "user"
    BY Zenon, <1>3
  <2>3. Timed(ticks, Awake)
    BY Zenon, <2>2 DEF Timed
  <2>4. QED
    BY Zenon, <2>1, <2>2, <2>3, SleeperStep
<1>10. QED
  BY Zenon, <1>4, <1>5, <1>6, <1>7, <1>8, <1>9 DEF ClockNext

(* sys_sleep(n) returns after n ticks or more, or killed, also when ticks   *)
(* wraps: the difference of two unsigned readings is the time passed.       *)
THEOREM ClockSleptEnough == ClockSpec => SleptEnough
<1>1. ClockInit => ClockInv
  <2>1. ASSUME ClockInit PROVE ClockInv
    <3>1. 0 \in Times /\ ticks = 0
      BY <2>1, ClockAssumption DEF Times, ClockInit
    <3>2. Awake \in SleepCalls /\ Awake.pc = "user"
      BY <3>1 DEF Awake, SleepCalls
    <3>3. sl = [p \in Sleepers |-> Awake]
      BY Zenon, <2>1 DEF ClockInit
    <3>4. sl \in [Sleepers -> SleepCalls] /\ \A p \in Sleepers : Timed(ticks, sl[p])
      BY Zenon, <3>2, <3>3 DEF Timed
    <3>5. QED
      BY Zenon, <3>1, <3>4 DEF ClockInv
  <2>2. QED
    BY Zenon, <2>1
<1>2. ClockInv /\ [ClockNext]_clockVars => ClockInv' /\ [SleptStep]_clockVars
  BY Zenon, ClockStep
<1>3. SleptEnough <=> [][SleptStep]_clockVars
  BY PTL DEF SleptEnough, SleptStep
<1>4. QED
  BY <1>1, <1>2, <1>3, PTL DEF ClockSpec
=============================================================================
