---------------------------- MODULE ConsoleProofs ----------------------------
(***************************************************************************)
(* Proofs about Console, for every ring size, line length, backlog, set of *)
(* strings and any number of calls. The first part has the lemmas about    *)
(* the operators of Sums, StrEdit and LineBuf: what each function of       *)
(* stredit.c and of the line buffer returns, preserves and bounds. The     *)
(* second part proves the invariants, the action property and the          *)
(* refinement of the console, the third what a frame shows of it.          *)
(***************************************************************************)
EXTENDS Console, ConsoleRender, SequenceTheorems, WellFoundedInduction, TLAPS

-----------------------------------------------------------------------------
(* Sums. Induction is by the least number for which a statement fails. *)

(* Every set of natural numbers has a least element. *)
LEMMA LeastNat ==
    ASSUME NEW T, T \subseteq Nat, T # {}
    PROVE  \E x \in T : \A y \in T : x <= y
<1>1. PICK x \in T : \A y \in T : ~(<<y, x>> \in OpToRel(<, Nat))
  BY NatLessThanWellFounded, WFMin
<1>2. \A y \in T : ~(y < x)
  BY <1>1 DEF OpToRel
<1> QED BY <1>2

(* The first n partial sums of f *)
PartialSums(f, n, g) ==
    /\ g = [k \in 0..n |-> g[k]]
    /\ g[0] = 0
    /\ \A k \in 1..n : g[k] = g[k - 1] + f[k - 1]

(* They exist for every n, *)
LEMMA SumsExist ==
    ASSUME NEW f
    PROVE  \A n \in Nat : \E g : PartialSums(f, n, g)
<1> DEFINE T == {n \in Nat : ~\E g : PartialSums(f, n, g)}
<1> SUFFICES ASSUME T # {} PROVE FALSE
  OBVIOUS
<1>1. PICK n \in T : \A m \in T : n <= m
  BY LeastNat
<1>2. n \in Nat /\ n # 0
  <2>1. PartialSums(f, 0, [k \in 0..0 |-> 0])
    BY DEF PartialSums
  <2> QED BY <2>1
<1>3. n - 1 \in Nat /\ n - 1 \notin T
  BY <1>1, <1>2
<1>4. PICK g : PartialSums(f, n - 1, g)
  BY <1>3
<1> DEFINE h == [k \in 0..n |-> IF k = n THEN g[n - 1] + f[n - 1] ELSE g[k]]
<1>5. h[0] = 0 /\ h = [k \in 0..n |-> h[k]]
  BY <1>2, <1>4 DEF PartialSums
<1>6. ASSUME NEW k \in 1..n PROVE h[k] = h[k - 1] + f[k - 1]
  <2>1. h[n] = g[n - 1] + f[n - 1] /\ \A j \in 0..(n - 1) : h[j] = g[j]
    BY <1>2
  <2>2. k - 1 \in 0..(n - 1) /\ k \in 0..n /\ (k # n => k \in 1..(n - 1) /\ k \in 0..(n - 1))
    BY <1>2
  <2> HIDE DEF h
  <2>3. k # n => g[k] = g[k - 1] + f[k - 1]
    BY <1>4, <2>2 DEF PartialSums
  <2> QED BY <2>1, <2>2, <2>3
<1>7. PartialSums(f, n, h)
  BY <1>5, <1>6 DEF PartialSums
<1> QED BY <1>7

(* and they are unique. *)
LEMMA SumsUnique ==
    ASSUME NEW f, NEW n \in Nat, NEW m \in Nat, NEW g, NEW h, n <= m,
           PartialSums(f, n, g), PartialSums(f, m, h)
    PROVE  \A k \in 0..n : g[k] = h[k]
<1> DEFINE T == {k \in 0..n : g[k] # h[k]}
<1> SUFFICES ASSUME T # {} PROVE FALSE
  OBVIOUS
<1>1. T \subseteq Nat
  OBVIOUS
<1>2. PICK k \in T : \A j \in T : k <= j
  BY <1>1, LeastNat
<1>3. k # 0
  BY DEF PartialSums
<1>4. k - 1 \in 0..n /\ k - 1 \notin T /\ k \in 1..n /\ k \in 1..m
  BY <1>2, <1>3
<1>5. g[k] = g[k - 1] + f[k - 1] /\ h[k] = h[k - 1] + f[k - 1]
  BY <1>4 DEF PartialSums
<1> QED BY <1>4, <1>5

(* What the recursive function of SumTo computes *)
LEMMA SumRecursion ==
    ASSUME NEW f
    PROVE  /\ SumTo(f, 0) = 0
           /\ \A n \in Nat : SumTo(f, n + 1) = SumTo(f, n) + f[n]
<1> DEFINE G(g) == g = [k \in Nat |-> IF k = 0 THEN 0 ELSE g[k - 1] + f[k - 1]]
           s == CHOOSE g : G(g)
           p(n) == CHOOSE g : PartialSums(f, n, g)
           t == [k \in Nat |-> p(k)[k]]
<1>1. \A n \in Nat : PartialSums(f, n, p(n))
  BY SumsExist
<1>2. t[0] = 0
  BY <1>1 DEF PartialSums
<1>3. ASSUME NEW n \in Nat, n # 0 PROVE t[n] = t[n - 1] + f[n - 1]
  <2>0. n - 1 \in Nat /\ n \in 1..n /\ n - 1 <= n
    BY <1>3
  <2>1. PartialSums(f, n, p(n)) /\ PartialSums(f, n - 1, p(n - 1))
    BY <1>1, <1>3, <2>0
  <2> HIDE DEF p
  <2>2. \A k \in 0..(n - 1) : p(n - 1)[k] = p(n)[k]
    BY <2>0, <2>1, SumsUnique
  <2>3. p(n)[n] = p(n)[n - 1] + f[n - 1]
    BY <2>0, <2>1 DEF PartialSums
  <2>4. p(n - 1)[n - 1] = p(n)[n - 1]
    BY <2>0, <2>2
  <2> QED BY <2>0, <2>3, <2>4
<1> HIDE DEF p
<1>4. G(t)
  <2> DEFINE u == [k \in Nat |-> IF k = 0 THEN 0 ELSE t[k - 1] + f[k - 1]]
  <2>1. \A k \in Nat : t[k] = u[k]
    BY <1>2, <1>3
  <2>2. t = [k \in Nat |-> t[k]] /\ u = [k \in Nat |-> u[k]]
    OBVIOUS
  <2> HIDE DEF t, u
  <2>3. t = u
    BY <2>1, <2>2
  <2> QED BY <2>3 DEF u
<1> HIDE DEF t
<1>5. G(s)
  BY <1>4
<1>6. \A n : SumTo(f, n) = s[n]
  BY DEF SumTo
<1> HIDE DEF s
<1>7. \A n \in Nat : s[n] = IF n = 0 THEN 0 ELSE s[n - 1] + f[n - 1]
  BY <1>5
<1> HIDE DEF G
<1>8. s[0] = 0 /\ \A n \in Nat : s[n + 1] = s[n] + f[n]
  BY <1>7
<1> QED BY <1>6, <1>8

(* A sum of integers is an integer. *)
LEMMA SumType ==
    ASSUME NEW f, NEW n \in Nat, \A k \in 0..(n - 1) : f[k] \in Int
    PROVE  SumTo(f, n) \in Int
<1> DEFINE T == {k \in 0..n : SumTo(f, k) \notin Int}
<1> SUFFICES ASSUME T # {} PROVE FALSE
  OBVIOUS
<1>1. T \subseteq Nat
  OBVIOUS
<1>2. PICK k \in T : \A j \in T : k <= j
  BY <1>1, LeastNat
<1>3. k # 0
  BY SumRecursion
<1>4. k - 1 \in Nat /\ k - 1 \in 0..n /\ k - 1 \notin T /\ k - 1 \in 0..(n - 1) /\ (k - 1) + 1 = k
  BY <1>2, <1>3
<1>5. SumTo(f, k) = SumTo(f, k - 1) + f[k - 1]
  BY <1>4, SumRecursion
<1>6. SumTo(f, k - 1) \in Int /\ f[k - 1] \in Int /\ SumTo(f, k) \notin Int
  BY <1>4
<1> QED BY <1>5, <1>6

(* Sums of the same values are the same. *)
LEMMA SumSame ==
    ASSUME NEW f, NEW g, NEW n \in Nat, \A k \in 0..(n - 1) : f[k] = g[k]
    PROVE  SumTo(f, n) = SumTo(g, n)
<1> DEFINE T == {k \in 0..n : SumTo(f, k) # SumTo(g, k)}
<1> SUFFICES ASSUME T # {} PROVE FALSE
  OBVIOUS
<1>1. T \subseteq Nat
  OBVIOUS
<1>2. PICK k \in T : \A j \in T : k <= j
  BY <1>1, LeastNat
<1>3. k # 0
  BY SumRecursion
<1>4. k - 1 \in Nat /\ k - 1 \in 0..n /\ k - 1 \notin T /\ k - 1 \in 0..(n - 1) /\ (k - 1) + 1 = k
  BY <1>2, <1>3
<1>5. SumTo(f, k) = SumTo(f, k - 1) + f[k - 1] /\ SumTo(g, k) = SumTo(g, k - 1) + g[k - 1]
  BY <1>4, SumRecursion
<1>6. SumTo(f, k - 1) = SumTo(g, k - 1) /\ f[k - 1] = g[k - 1] /\ SumTo(f, k) # SumTo(g, k)
  BY <1>4
<1> QED BY <1>5, <1>6

(* Dropping the first value of a sum *)
LEMMA SumShift ==
    ASSUME NEW f, NEW g, NEW n \in Nat, \A k \in 0..n : f[k] \in Int,
           \A k \in 0..(n - 1) : g[k] = f[k + 1]
    PROVE  SumTo(f, n + 1) = f[0] + SumTo(g, n)
<1> DEFINE T == {k \in 0..n : SumTo(f, k + 1) # f[0] + SumTo(g, k)}
<1> SUFFICES ASSUME T # {} PROVE FALSE
  OBVIOUS
<1>1. T \subseteq Nat
  OBVIOUS
<1>2. PICK k \in T : \A j \in T : k <= j
  BY <1>1, LeastNat
<1>3. k # 0
  <2>1. SumTo(f, 0 + 1) = SumTo(f, 0) + f[0] /\ SumTo(f, 0) = 0 /\ SumTo(g, 0) = 0
    BY SumRecursion
  <2>2. f[0] \in Int
    OBVIOUS
  <2>3. SumTo(f, 0 + 1) = f[0] + SumTo(g, 0)
    BY <2>1, <2>2
  <2> QED BY <2>3
<1>4. /\ k - 1 \in Nat /\ k \in Nat /\ k - 1 \in 0..n /\ k - 1 \notin T /\ k - 1 \in 0..(n - 1)
      /\ (k - 1) + 1 = k /\ k \in 0..n /\ 0 \in 0..n
  BY <1>2, <1>3
<1>5. SumTo(f, k + 1) = SumTo(f, k) + f[k] /\ SumTo(g, k) = SumTo(g, k - 1) + g[k - 1]
  BY <1>4, SumRecursion
<1>6. /\ SumTo(f, k) = f[0] + SumTo(g, k - 1) /\ g[k - 1] = f[k]
      /\ SumTo(f, k + 1) # f[0] + SumTo(g, k)
  BY <1>4
<1>7. SumTo(g, k - 1) \in Int /\ f[0] \in Int /\ f[k] \in Int
  <2>1. \A j \in 0..((k - 1) - 1) : g[j] \in Int
    <3> SUFFICES ASSUME NEW j \in 0..((k - 1) - 1) PROVE g[j] \in Int
      OBVIOUS
    <3>1. j \in 0..(n - 1) /\ j + 1 \in 0..n
      BY <1>4
    <3> QED BY <3>1
  <2> QED BY <1>4, <2>1, SumType
<1> QED BY <1>5, <1>6, <1>7

(* Changing one value of a sum *)
LEMMA SumChange ==
    ASSUME NEW f, NEW g, NEW n \in Nat, NEW j \in 0..(n - 1),
           \A k \in 0..(n - 1) : f[k] \in Int, g[j] \in Int,
           \A k \in (0..(n - 1)) \ {j} : g[k] = f[k]
    PROVE  SumTo(g, n) = SumTo(f, n) - f[j] + g[j]
<1> DEFINE T == {k \in (j + 1)..n : SumTo(g, k) # SumTo(f, k) - f[j] + g[j]}
<1> SUFFICES ASSUME T # {} PROVE FALSE
  OBVIOUS
<1>1. T \subseteq Nat
  OBVIOUS
<1>2. PICK k \in T : \A ix \in T : k <= ix
  BY <1>1, LeastNat
<1>3. /\ k - 1 \in Nat /\ k - 1 \in 0..(n - 1) /\ (k - 1) + 1 = k /\ k - 1 >= j
      /\ k \in (j + 1)..n
  BY <1>2
<1>4. SumTo(f, k) = SumTo(f, k - 1) + f[k - 1] /\ SumTo(g, k) = SumTo(g, k - 1) + g[k - 1]
  BY <1>3, SumRecursion
<1>5. SumTo(f, k - 1) \in Int /\ f[j] \in Int
  <2>1. \A ix \in 0..((k - 1) - 1) : f[ix] \in Int
    BY <1>3
  <2> QED BY <1>3, <2>1, SumType
<1>6. SumTo(g, k) # SumTo(f, k) - f[j] + g[j]
  BY <1>2
<1>7. CASE k - 1 = j
  <2>1. \A ix \in 0..((k - 1) - 1) : f[ix] = g[ix]
    BY <1>3, <1>7
  <2>2. SumTo(f, k - 1) = SumTo(g, k - 1)
    BY <1>3, <2>1, SumSame
  <2> QED BY <1>4, <1>5, <1>6, <1>7, <2>2
<1>8. CASE k - 1 # j
  <2>1. k - 1 \in (j + 1)..n /\ k - 1 \notin T
    BY <1>2, <1>3, <1>8
  <2>2. SumTo(g, k - 1) = SumTo(f, k - 1) - f[j] + g[j]
    BY <2>1
  <2>3. g[k - 1] = f[k - 1] /\ f[k - 1] \in Int
    BY <1>3, <1>8
  <2> QED BY <1>4, <1>5, <1>6, <2>2, <2>3
<1> QED BY <1>7, <1>8

-----------------------------------------------------------------------------
(* Texts *)

(* A piece of a string, of the length that its bounds give it. *)
LEMMA PieceType ==
    ASSUME NEW S, NEW s \in Seq(S), NEW p \in Nat, NEW q \in Int, q <= Len(s)
    PROVE  /\ SubSeq(s, p + 1, q) \in Seq(S)
           /\ Len(SubSeq(s, p + 1, q)) = IF p + 1 <= q THEN q - p ELSE 0
OBVIOUS

(* memmove() in stredit_insert(): the text grows by what is inserted. *)
LEMMA InsertText ==
    ASSUME NEW S, NEW s \in Seq(S), NEW t \in Seq(S), NEW p \in 0..Len(s)
    PROVE  LET u == SubSeq(s, 1, p) \o t \o SubSeq(s, p + 1, Len(s))
           IN  u \in Seq(S) /\ Len(u) = Len(s) + Len(t)
<1> DEFINE a == SubSeq(s, 1, p)
           b == SubSeq(s, p + 1, Len(s))
<1>1. a \in Seq(S) /\ Len(a) = p
  <2>1. SubSeq(s, 0 + 1, p) \in Seq(S) /\ Len(SubSeq(s, 0 + 1, p)) = IF 1 <= p THEN p ELSE 0
    BY PieceType
  <2> QED BY <2>1
<1>2. b \in Seq(S) /\ Len(b) = Len(s) - p
  BY PieceType
<1> HIDE DEF a, b
<1>3. a \o t \in Seq(S) /\ Len(a \o t) = p + Len(t)
  BY <1>1, ConcatProperties
<1>4. (a \o t) \o b \in Seq(S) /\ Len((a \o t) \o b) = Len(a \o t) + Len(b)
  BY <1>2, <1>3, ConcatProperties
<1>5. Len(s) \in Nat /\ Len(t) \in Nat
  OBVIOUS
<1>6. Len((a \o t) \o b) = Len(s) + Len(t)
  BY <1>2, <1>3, <1>4, <1>5
<1> QED BY <1>4, <1>6 DEF a, b

(* memmove() in stredit_delete(): the text loses k characters. *)
LEMMA DeleteText ==
    ASSUME NEW S, NEW s \in Seq(S), NEW q \in Nat, NEW k \in Nat, q + k <= Len(s)
    PROVE  LET u == SubSeq(s, 1, q) \o SubSeq(s, q + k + 1, Len(s))
           IN  u \in Seq(S) /\ Len(u) = Len(s) - k
<1> DEFINE a == SubSeq(s, 1, q)
           b == SubSeq(s, q + k + 1, Len(s))
<1>1. a \in Seq(S) /\ Len(a) = q
  <2>1. SubSeq(s, 0 + 1, q) \in Seq(S) /\ Len(SubSeq(s, 0 + 1, q)) = IF 1 <= q THEN q ELSE 0
    BY PieceType
  <2> QED BY <2>1
<1>2. b \in Seq(S) /\ Len(b) = Len(s) - (q + k)
  <2>1. q + k \in Nat
    OBVIOUS
  <2> QED BY <2>1, PieceType
<1> HIDE DEF a, b
<1>3. a \o b \in Seq(S) /\ Len(a \o b) = Len(a) + Len(b)
  BY <1>1, <1>2, ConcatProperties
<1>4. Len(a \o b) = Len(s) - k
  <2>1. Len(s) \in Nat
    OBVIOUS
  <2> QED BY <1>1, <1>2, <1>3, <2>1
<1> QED BY <1>3, <1>4 DEF a, b

-----------------------------------------------------------------------------
(* The editor *)

(* The editor's block has room for its header, its text and the NUL. *)
RoomForText(ed) == ed.raw = "live" => ed.alloc_size >= Reserved + Len(ed.text) + 1

(* A new editor is empty, and its block is large enough. *)
LEMMA NewEditor ==
    /\ stredit_cleared \in Editor
    /\ stredit_init \in Editor
    /\ RoomForText(stredit_cleared) /\ RoomForText(stredit_init)
    /\ stredit_init.text = <<>> /\ stredit_init.prefix = 0 /\ stredit_init.raw = "live"
BY StrEditAssumption DEF stredit_cleared, stredit_init, Editor, PtrState, Reserved, RoomForText

(* stredit_insert() within its bounds keeps the prefix, grows the text by  *)
(* exactly what is inserted, and leaves a block that is large enough       *)
(* whatever its size was.                                                  *)
LEMMA InsertEditor ==
    ASSUME NEW ed \in Editor, NEW p \in Int, NEW s \in Seq(Char),
           stredit_can_insert(ed, p, Len(s))
    PROVE  LET e == stredit_insert(ed, p, s)
           IN  /\ e \in Editor
               /\ Len(e.text) = Len(ed.text) + Len(s)
               /\ Len(e.text) <= MaxLine
               /\ e.prefix = ed.prefix /\ e.raw = ed.raw /\ e.rows = ed.rows
               /\ RoomForText(e)
<1> DEFINE u == SubSeq(ed.text, 1, p) \o s \o SubSeq(ed.text, p + 1, Len(ed.text))
           a == stredit_alloc(ed, Len(ed.text) + Len(s))
           e == stredit_insert(ed, p, s)
<1>1. ed.text \in Seq(Char) /\ p \in 0..Len(ed.text) /\ Len(ed.text) + Len(s) <= MaxLine
  BY DEF Editor, stredit_can_insert
<1>2. u \in Seq(Char) /\ Len(u) = Len(ed.text) + Len(s)
  BY <1>1, InsertText
<1>3. a \in Nat /\ a >= Reserved + (Len(ed.text) + Len(s)) + 1
  BY <1>1, StrEditAssumption DEF Editor, stredit_alloc, NeedsRealloc, Max2, Reserved
<1> HIDE DEF u, a
<1>4. e = [ed EXCEPT !.text = u, !.alloc_size = a]
  BY DEF stredit_insert, u, a
<1>5. /\ e \in Editor
      /\ e.text = u /\ e.alloc_size = a
      /\ e.prefix = ed.prefix /\ e.raw = ed.raw /\ e.rows = ed.rows
  BY <1>2, <1>3, <1>4 DEF Editor
<1> HIDE DEF e
<1>6. RoomForText(e)
  BY <1>2, <1>3, <1>5 DEF RoomForText
<1> QED BY <1>1, <1>2, <1>5, <1>6 DEF e

(* stredit_delete() removes nothing before the prefix, and never more than *)
(* there is or than was asked for.                                         *)
LEMMA DeleteEditor ==
    ASSUME NEW ed \in Editor, ed.prefix <= Len(ed.text),
           NEW p \in Int, p <= Len(ed.text), NEW n \in Int
    PROVE  LET e == stredit_delete(ed, p, n)
               k == stredit_deleted(ed, p, n)
           IN  /\ e \in Editor
               /\ k \in Nat
               /\ Len(e.text) = Len(ed.text) - k
               /\ k <= Max2(0, n)
               /\ e.prefix <= Len(e.text)
               /\ p <= Len(e.text)
               /\ k > 0 => ed.prefix <= p + n - k
               /\ e.prefix = ed.prefix /\ e.raw = ed.raw /\ e.rows = ed.rows
               /\ RoomForText(ed) => RoomForText(e)
<1> DEFINE q == Max2(p, ed.prefix)
           k == stredit_deleted(ed, p, n)
           u == SubSeq(ed.text, 1, q) \o SubSeq(ed.text, q + k + 1, Len(ed.text))
           e == stredit_delete(ed, p, n)
<1>1. ed.text \in Seq(Char) /\ ed.prefix \in Nat /\ Len(ed.text) \in Nat
  BY DEF Editor
<1>2. q \in Nat /\ q <= Len(ed.text) /\ ed.prefix <= q /\ p <= q
  BY <1>1 DEF Max2
<1>3. k = Max2(0, Min2(n - (q - p), Len(ed.text) - q))
  BY DEF stredit_deleted
<1>4. k \in Nat /\ q + k <= Len(ed.text) /\ k <= Max2(0, n) /\ (k > 0 => k <= n - (q - p))
  BY <1>1, <1>2, <1>3 DEF Max2, Min2
<1> HIDE DEF q, k
<1>5. u \in Seq(Char) /\ Len(u) = Len(ed.text) - k
  BY <1>1, <1>2, <1>4, DeleteText
<1> HIDE DEF u
<1>6. e = [ed EXCEPT !.text = u]
  BY DEF stredit_delete, u, q, k
<1>7. /\ e \in Editor
      /\ e.text = u /\ e.alloc_size = ed.alloc_size
      /\ e.prefix = ed.prefix /\ e.raw = ed.raw /\ e.rows = ed.rows
  BY <1>5, <1>6 DEF Editor
<1> HIDE DEF e
<1>8. RoomForText(ed) => RoomForText(e)
  BY <1>1, <1>4, <1>5, <1>7 DEF RoomForText, Editor, Reserved
<1>9. e.prefix <= Len(e.text) /\ p <= Len(e.text) /\ (k > 0 => ed.prefix <= p + n - k)
  BY <1>1, <1>2, <1>4, <1>5, <1>7
<1> QED BY <1>4, <1>5, <1>7, <1>8, <1>9 DEF e, k

(* stredit_set_prefix() at a position of the text sets that position. *)
LEMMA SetPrefix ==
    ASSUME NEW ed \in Editor, NEW n \in Nat, n <= Len(ed.text)
    PROVE  LET e == stredit_set_prefix(ed, n)
           IN  /\ e \in Editor
               /\ e.prefix = n
               /\ e.text = ed.text /\ e.raw = ed.raw /\ e.alloc_size = ed.alloc_size
               /\ e.rows = ed.rows
BY DEF stredit_set_prefix, Editor, Min2, Max2

-----------------------------------------------------------------------------
(* The ring *)

(* linebuf_nth_to_index() of a line or of the slot after the last line *)
LEMMA IndexValue ==
    ASSUME NEW b \in LineBuffer, NEW n \in 0..Capacity
    PROVE  /\ linebuf_nth_to_index(b, n) \in Slots
           /\ linebuf_nth_to_index(b, n) =
                IF b.start + n < Capacity THEN b.start + n ELSE b.start + n - Capacity
<1>1. b.start \in Nat /\ b.start < Capacity /\ Capacity \in Nat \ {0}
  BY LineBufAssumption DEF LineBuffer, Slots
<1>2. b.start + n \in Nat /\ b.start + n < 2 * Capacity
  BY <1>1
<1> QED BY <1>1, <1>2 DEF linebuf_nth_to_index, Slots

(* Different line numbers have different slots, and every slot has one. *)
LEMMA IndexBijection ==
    ASSUME NEW b \in LineBuffer
    PROVE  /\ \A n, m \in 0..(Capacity - 1) :
                linebuf_nth_to_index(b, n) = linebuf_nth_to_index(b, m) => n = m
           /\ \A ix \in Slots : \E n \in 0..(Capacity - 1) : ix = linebuf_nth_to_index(b, n)
<1>1. b.start \in Nat /\ b.start < Capacity /\ Capacity \in Nat \ {0}
  BY LineBufAssumption DEF LineBuffer, Slots
<1>2. \A n \in 0..(Capacity - 1) : linebuf_nth_to_index(b, n) =
        IF b.start + n < Capacity THEN b.start + n ELSE b.start + n - Capacity
  BY <1>1, IndexValue
<1>3. ASSUME NEW ix \in Slots
      PROVE  \E n \in 0..(Capacity - 1) : ix = linebuf_nth_to_index(b, n)
  <2>1. ix \in Nat /\ ix < Capacity
    BY <1>1 DEF Slots
  <2>2. CASE ix >= b.start
    <3>1. ix - b.start \in 0..(Capacity - 1)
      BY <1>1, <2>1, <2>2
    <3>2. linebuf_nth_to_index(b, ix - b.start) = ix
      BY <1>1, <1>2, <2>1, <3>1
    <3> QED BY <3>1, <3>2
  <2>3. CASE ix < b.start
    <3>1. ix - b.start + Capacity \in 0..(Capacity - 1)
      BY <1>1, <2>1, <2>3
    <3>2. linebuf_nth_to_index(b, ix - b.start + Capacity) = ix
      BY <1>1, <1>2, <2>1, <3>1
    <3> QED BY <3>1, <3>2
  <2> QED BY <1>1, <2>1, <2>2, <2>3
<1> QED BY <1>1, <1>2, <1>3

(* The pointers of the array, by line number: live before line n, dead     *)
(* from line n on                                                          *)
LiveBelow(b, n) ==
    \A m \in 0..(Capacity - 1) :
        b.lines[linebuf_nth_to_index(b, m)].ptr = "live" <=> m < n

(* The slot of line n is NULL *)
NullAt(b, n) == b.lines[linebuf_nth_to_index(b, n)].ptr = "null"

(* The ring between two calls: the lines before the last are in the array, *)
(* the last one is in the editor and has a NULL slot.                      *)
RingOK(b) ==
    /\ LiveBelow(b, b.size - 1)
    /\ b.size > 0 => NullAt(b, b.size - 1) /\ b.edit.raw = "live"

(* A line that is read is one of the buffer's. *)
LEMMA NthLine ==
    ASSUME NEW b \in LineBuffer, NEW n \in 0..(b.size - 1)
    PROVE  linebuf_get_nth_line(b, n) \in Fline
<1>1. b.edit \in Editor /\ b.size \in 0..Capacity /\ b.lines \in [Slots -> Fline]
  BY DEF LineBuffer
<1>2. n \in 0..Capacity
  BY <1>1, LineBufAssumption
<1>3. linebuf_nth_to_index(b, n) \in Slots
  BY <1>2, IndexValue
<1> QED BY <1>1, <1>3 DEF linebuf_get_nth_line, Fline, Editor

(* What linebuf_recycle_oldest_lines(buf, 1) does to each field. *)
LEMMA RecycleFields ==
    ASSUME NEW b \in LineBuffer, b.size > 0
    PROVE  LET r == linebuf_recycle_oldest_line(b)
           IN  /\ r \in LineBuffer
               /\ r.size = b.size - 1
               /\ r.start = (b.start + 1) % Capacity
               /\ r.absolute = b.absolute + 1
               /\ r.absolute_rendered = b.absolute_rendered
               /\ b.size > 1 => r.edit = b.edit /\ r.lines = [b.lines EXCEPT ![b.start] = FreedSlot]
               /\ b.size = 1 => r.edit = [b.edit EXCEPT !.raw = "freed"] /\ r.lines = b.lines
<1> DEFINE FL == linebuf_get_nth_line(b, 0)
           r == linebuf_recycle_oldest_line(b)
<1>1. /\ b.lines \in [Slots -> Fline] /\ b.edit \in Editor /\ b.start \in Slots
      /\ b.size \in 0..Capacity /\ b.absolute \in Nat /\ b.absolute_rendered \in Nat
      /\ b.total_rendered \in Int /\ b.total_size_except_last \in Int
      /\ Capacity \in Nat \ {0}
  BY LineBufAssumption DEF LineBuffer
<1>2. FL.rows \in Nat /\ FL.text \in Seq(Char)
  <2>1. FL \in Fline
    BY <1>1, NthLine
  <2> QED BY <2>1 DEF Fline
<1> HIDE DEF FL
<1>3. (b.start + 1) % Capacity \in Slots
  BY <1>1 DEF Slots
<1>4. FreedSlot \in Fline
  BY DEF FreedSlot, Fline, PtrState
<1>5. /\ [b.lines EXCEPT ![b.start] = FreedSlot] \in [Slots -> Fline]
      /\ [b.edit EXCEPT !.raw = "freed"] \in Editor
  BY <1>1, <1>4 DEF Editor, PtrState
<1>6. r = [b EXCEPT
        !.total_rendered = @ - FL.rows,
        !.total_size_except_last = IF b.size = 1 THEN @ ELSE @ - Len(FL.text),
        !.lines = IF b.size = 1 THEN @ ELSE [@ EXCEPT ![b.start] = FreedSlot],
        !.edit = IF b.size = 1 THEN [@ EXCEPT !.raw = "freed"] ELSE @,
        !.start = (@ + 1) % Capacity, !.size = @ - 1, !.absolute = @ + 1]
  BY DEF linebuf_recycle_oldest_line, FL
<1> HIDE DEF r
<1>7. /\ r.size = b.size - 1
      /\ r.start = (b.start + 1) % Capacity
      /\ r.absolute = b.absolute + 1
      /\ r.absolute_rendered = b.absolute_rendered
      /\ r.lines = IF b.size = 1 THEN b.lines ELSE [b.lines EXCEPT ![b.start] = FreedSlot]
      /\ r.edit = IF b.size = 1 THEN [b.edit EXCEPT !.raw = "freed"] ELSE b.edit
  BY <1>6 DEF LineBuffer
<1>8. r \in LineBuffer
  <2>1. r.lines \in [Slots -> Fline] /\ r.edit \in Editor
    BY <1>1, <1>5, <1>7
  <2>2. r.start \in Slots /\ r.size \in 0..Capacity /\ r.absolute \in Nat /\ r.absolute_rendered \in Nat
    BY <1>1, <1>3, <1>7
  <2>3. r.total_rendered \in Int /\ r.total_size_except_last \in Int
    BY <1>1, <1>2, <1>6 DEF LineBuffer
  <2>4. r = [lines |-> r.lines, edit |-> r.edit, start |-> r.start, size |-> r.size,
             absolute |-> r.absolute, total_rendered |-> r.total_rendered,
             total_size_except_last |-> r.total_size_except_last,
             absolute_rendered |-> r.absolute_rendered]
    BY <1>6 DEF LineBuffer
  <2> QED BY <2>1, <2>2, <2>3, <2>4 DEF LineBuffer
<1> QED BY <1>1, <1>7, <1>8 DEF r

(* Recycling keeps the ring in order: the dangling pointer it leaves in    *)
(* the array is behind the last line.                                      *)
LEMMA RecycleRing ==
    ASSUME NEW b \in LineBuffer, b.size > 0, RingOK(b)
    PROVE  LET r == linebuf_recycle_oldest_line(b)
           IN  LiveBelow(r, r.size - 1) /\ (r.size > 0 => NullAt(r, r.size - 1))
<1> DEFINE r == linebuf_recycle_oldest_line(b)
<1>1. /\ r \in LineBuffer
      /\ r.size = b.size - 1
      /\ r.start = (b.start + 1) % Capacity
      /\ b.size > 1 => r.lines = [b.lines EXCEPT ![b.start] = FreedSlot]
      /\ b.size = 1 => r.lines = b.lines
  BY RecycleFields
<1> HIDE DEF r
<1>2. /\ b.start \in Nat /\ b.start < Capacity /\ b.start \in Slots
      /\ Capacity \in Nat \ {0} /\ b.size \in 0..Capacity
      /\ b.lines \in [Slots -> Fline]
  BY LineBufAssumption DEF LineBuffer, Slots
<1>3. linebuf_nth_to_index(b, 0) = b.start
  BY <1>2, IndexValue
<1>4. ASSUME NEW m \in 0..(Capacity - 1), m # Capacity - 1
      PROVE  /\ linebuf_nth_to_index(r, m) = linebuf_nth_to_index(b, m + 1)
             /\ linebuf_nth_to_index(b, m + 1) \in Slots
             /\ linebuf_nth_to_index(b, m + 1) # b.start
  <2>1. r.start = IF b.start + 1 < Capacity THEN b.start + 1 ELSE 0
    BY <1>1, <1>2
  <2>2. linebuf_nth_to_index(r, m) =
          IF r.start + m < Capacity THEN r.start + m ELSE r.start + m - Capacity
    BY <1>1, <1>2, IndexValue
  <2>3. /\ m + 1 \in 0..(Capacity - 1)
        /\ linebuf_nth_to_index(b, m + 1) \in Slots
        /\ linebuf_nth_to_index(b, m + 1) =
             IF b.start + (m + 1) < Capacity THEN b.start + (m + 1) ELSE b.start + (m + 1) - Capacity
    BY <1>2, <1>4, IndexValue
  <2> QED BY <1>2, <1>4, <2>1, <2>2, <2>3
<1>5. linebuf_nth_to_index(r, Capacity - 1) = b.start
  <2>1. r.start = IF b.start + 1 < Capacity THEN b.start + 1 ELSE 0
    BY <1>1, <1>2
  <2>2. linebuf_nth_to_index(r, Capacity - 1) =
          IF r.start + (Capacity - 1) < Capacity THEN r.start + (Capacity - 1)
                                                 ELSE r.start + (Capacity - 1) - Capacity
    BY <1>1, <1>2, IndexValue
  <2> QED BY <1>2, <2>1, <2>2
<1>6. r.lines[b.start].ptr # "live"
  <2>1. CASE b.size > 1
    BY <1>1, <1>2, <2>1 DEF FreedSlot
  <2>2. CASE b.size = 1
    <3>1. b.lines[b.start].ptr = "null"
      BY <1>3, <2>2 DEF RingOK, NullAt
    <3> QED BY <1>1, <2>2, <3>1
  <2> QED BY <1>2, <2>1, <2>2
<1>7. ASSUME NEW m \in 0..(Capacity - 1), m # Capacity - 1
      PROVE  r.lines[linebuf_nth_to_index(r, m)] = b.lines[linebuf_nth_to_index(b, m + 1)]
  BY <1>1, <1>2, <1>4, <1>7
<1>8. LiveBelow(r, r.size - 1)
  <2> SUFFICES ASSUME NEW m \in 0..(Capacity - 1)
               PROVE  r.lines[linebuf_nth_to_index(r, m)].ptr = "live" <=> m < r.size - 1
    BY DEF LiveBelow
  <2>1. CASE m = Capacity - 1
    <3>1. ~(m < r.size - 1)
      BY <1>1, <1>2, <2>1
    <3>2. r.lines[linebuf_nth_to_index(r, m)].ptr # "live"
      BY <1>5, <1>6, <2>1
    <3> QED BY <3>1, <3>2
  <2>2. CASE m # Capacity - 1
    <3>1. m + 1 \in 0..(Capacity - 1)
      BY <1>2, <2>2
    <3>2. b.lines[linebuf_nth_to_index(b, m + 1)].ptr = "live" <=> m + 1 < b.size - 1
      BY <3>1 DEF RingOK, LiveBelow
    <3>3. m + 1 < b.size - 1 <=> m < r.size - 1
      BY <1>1, <1>2
    <3> QED BY <1>7, <2>2, <3>2, <3>3
  <2> QED BY <2>1, <2>2
<1>9. ASSUME r.size > 0 PROVE NullAt(r, r.size - 1)
  <2>1. r.size - 1 \in 0..(Capacity - 1) /\ r.size - 1 # Capacity - 1 /\ r.size - 1 + 1 = b.size - 1
    BY <1>1, <1>2, <1>9
  <2>2. r.lines[linebuf_nth_to_index(r, r.size - 1)] = b.lines[linebuf_nth_to_index(b, b.size - 1)]
    BY <1>7, <2>1
  <2> QED BY <2>2 DEF RingOK, NullAt
<1> QED BY <1>8, <1>9 DEF r

(* After making space there is room for a line; the ring is in order. *)
LEMMA MakeSpace ==
    ASSUME NEW b \in LineBuffer, RingOK(b)
    PROVE  LET m == linebuf_make_space(b)
           IN  /\ m \in LineBuffer /\ RingOK(m)
               /\ m.size < Capacity
               /\ linebuf_end(m) = linebuf_end(b)
               /\ m.absolute_rendered = b.absolute_rendered
<1> DEFINE m == linebuf_make_space(b)
           r == linebuf_recycle_oldest_line(b)
<1>1. b.size \in 0..Capacity /\ b.absolute \in Nat /\ Capacity \in Nat \ {0} /\ b.edit \in Editor
  BY LineBufAssumption DEF LineBuffer
<1>2. CASE b.size < Capacity
  BY <1>1, <1>2 DEF linebuf_make_space
<1>3. CASE b.size = Capacity
  <2>1. m = r
    BY <1>1, <1>3 DEF linebuf_make_space
  <2>2. /\ r \in LineBuffer /\ r.size = b.size - 1 /\ r.absolute = b.absolute + 1
        /\ r.absolute_rendered = b.absolute_rendered
        /\ b.size > 1 => r.edit = b.edit
    <3>1. b.size > 0
      BY <1>1, <1>3
    <3> HIDE DEF r
    <3> QED BY <3>1, RecycleFields DEF r
  <2>3. LiveBelow(r, r.size - 1) /\ (r.size > 0 => NullAt(r, r.size - 1))
    BY <1>1, <1>3, RecycleRing
  <2> HIDE DEF m, r
  <2>4. RingOK(r)
    BY <1>1, <2>2, <2>3 DEF RingOK
  <2>5. linebuf_end(r) = linebuf_end(b) /\ r.size < Capacity
    BY <1>1, <1>3, <2>2 DEF linebuf_end
  <2> QED BY <2>1, <2>2, <2>4, <2>5 DEF m
<1> QED BY <1>1, <1>2, <1>3

(* Freezing hands the live block of the editor over to the array. *)
LEMMA FreezeLast ==
    ASSUME NEW b \in LineBuffer, RingOK(b), b.size > 0
    PROVE  LET f == linebuf_freeze_last(b)
           IN  /\ f \in LineBuffer /\ LiveBelow(f, f.size)
               /\ f.size = b.size /\ f.absolute = b.absolute
               /\ f.absolute_rendered = b.absolute_rendered
<1> DEFINE f == linebuf_freeze_last(b)
           k == linebuf_nth_to_index(b, b.size - 1)
           FL == [ptr |-> b.edit.raw, text |-> b.edit.text, rows |-> b.edit.rows]
<1>1. /\ b.lines \in [Slots -> Fline] /\ b.edit \in Editor /\ b.start \in Slots
      /\ b.size \in 0..Capacity /\ b.absolute \in Nat /\ b.absolute_rendered \in Nat
      /\ b.total_rendered \in Int /\ b.total_size_except_last \in Int
      /\ Capacity \in Nat \ {0}
  BY LineBufAssumption DEF LineBuffer
<1>2. k \in Slots
  BY <1>1, IndexValue
<1>3. FL \in Fline /\ FL.ptr = "live" /\ Len(b.edit.text) \in Int
  BY <1>1 DEF Editor, Fline, RingOK
<1>4. f = [b EXCEPT !.total_size_except_last = @ + Len(b.edit.text),
                    !.lines = [@ EXCEPT ![k] = FL],
                    !.edit = stredit_cleared]
  BY DEF linebuf_freeze_last
<1> HIDE DEF f, k, FL
<1>5. /\ f.lines = [b.lines EXCEPT ![k] = FL]
      /\ f.edit = stredit_cleared /\ f.start = b.start /\ f.size = b.size
      /\ f.absolute = b.absolute /\ f.absolute_rendered = b.absolute_rendered
      /\ f.total_rendered = b.total_rendered
      /\ f.total_size_except_last = b.total_size_except_last + Len(b.edit.text)
  BY <1>4 DEF LineBuffer
<1>6. f \in LineBuffer
  <2>1. f.lines \in [Slots -> Fline] /\ f.edit \in Editor /\ f.total_size_except_last \in Int
    <3>1. f.lines \in [Slots -> Fline]
      BY <1>1, <1>3, <1>5
    <3>2. f.edit \in Editor
      BY <1>5, NewEditor
    <3>3. f.total_size_except_last \in Int
      BY <1>1, <1>3, <1>5
    <3> QED BY <3>1, <3>2, <3>3
  <2>2. f = [lines |-> f.lines, edit |-> f.edit, start |-> f.start, size |-> f.size,
             absolute |-> f.absolute, total_rendered |-> f.total_rendered,
             total_size_except_last |-> f.total_size_except_last,
             absolute_rendered |-> f.absolute_rendered]
    BY <1>4 DEF LineBuffer
  <2> QED BY <1>1, <1>5, <2>1, <2>2 DEF LineBuffer
<1>7. LiveBelow(f, f.size)
  <2> SUFFICES ASSUME NEW m \in 0..(Capacity - 1)
               PROVE  f.lines[linebuf_nth_to_index(f, m)].ptr = "live" <=> m < f.size
    BY DEF LiveBelow
  <2>1. linebuf_nth_to_index(f, m) = linebuf_nth_to_index(b, m) /\ linebuf_nth_to_index(b, m) \in Slots
    BY <1>1, <1>5, IndexValue DEF linebuf_nth_to_index
  <2>2. CASE m = b.size - 1
    <3>1. f.lines[k] = FL
      BY <1>1, <1>2, <1>5
    <3> QED BY <1>1, <1>3, <1>5, <2>1, <2>2, <3>1 DEF k
  <2>3. CASE m # b.size - 1
    <3>1. linebuf_nth_to_index(b, m) # k
      BY <1>1, <2>3, IndexBijection DEF k
    <3>2. f.lines[linebuf_nth_to_index(b, m)] = b.lines[linebuf_nth_to_index(b, m)]
      BY <1>1, <1>5, <2>1, <3>1
    <3>3. b.lines[linebuf_nth_to_index(b, m)].ptr = "live" <=> m < b.size - 1
      BY DEF RingOK, LiveBelow
    <3>4. m < b.size - 1 <=> m < f.size
      BY <1>1, <1>5, <2>3
    <3> QED BY <2>1, <3>2, <3>3, <3>4
  <2> QED BY <2>2, <2>3
<1> QED BY <1>5, <1>6, <1>7 DEF f

(* Appending a line where there is room puts the ring in order again. *)
LEMMA AppendEmpty ==
    ASSUME NEW b \in LineBuffer, b.size < Capacity, LiveBelow(b, b.size)
    PROVE  LET a == linebuf_append_empty(b)
           IN  /\ a \in LineBuffer /\ RingOK(a)
               /\ a.edit = stredit_init
               /\ a.size = b.size + 1 /\ a.absolute = b.absolute
               /\ a.absolute_rendered = b.absolute_rendered
<1> DEFINE a == linebuf_append_empty(b)
           k == linebuf_nth_to_index(b, b.size)
<1>1. /\ b.lines \in [Slots -> Fline] /\ b.start \in Slots
      /\ b.size \in 0..Capacity /\ b.absolute \in Nat /\ b.absolute_rendered \in Nat
      /\ b.total_rendered \in Int /\ b.total_size_except_last \in Int
      /\ Capacity \in Nat \ {0}
  BY LineBufAssumption DEF LineBuffer
<1>2. k \in Slots
  BY <1>1, IndexValue
<1>3. NullSlot \in Fline /\ NullSlot.ptr = "null"
  BY DEF NullSlot, Fline, PtrState
<1>4. a = [b EXCEPT !.size = @ + 1, !.lines = [@ EXCEPT ![k] = NullSlot], !.edit = stredit_init]
  BY DEF linebuf_append_empty
<1> HIDE DEF a, k
<1>5. /\ a.lines = [b.lines EXCEPT ![k] = NullSlot]
      /\ a.edit = stredit_init /\ a.start = b.start /\ a.size = b.size + 1
      /\ a.absolute = b.absolute /\ a.absolute_rendered = b.absolute_rendered
      /\ a.total_rendered = b.total_rendered
      /\ a.total_size_except_last = b.total_size_except_last
  BY <1>4 DEF LineBuffer
<1>6. a \in LineBuffer
  <2>1. a.lines \in [Slots -> Fline] /\ a.edit \in Editor /\ a.size \in 0..Capacity
    <3>1. a.lines \in [Slots -> Fline]
      BY <1>1, <1>3, <1>5
    <3>2. a.edit \in Editor
      BY <1>5, NewEditor
    <3>3. a.size \in 0..Capacity
      BY <1>1, <1>5
    <3> QED BY <3>1, <3>2, <3>3
  <2>2. a = [lines |-> a.lines, edit |-> a.edit, start |-> a.start, size |-> a.size,
             absolute |-> a.absolute, total_rendered |-> a.total_rendered,
             total_size_except_last |-> a.total_size_except_last,
             absolute_rendered |-> a.absolute_rendered]
    BY <1>4 DEF LineBuffer
  <2> QED BY <1>1, <1>5, <2>1, <2>2 DEF LineBuffer
<1>7. a.lines[k] = NullSlot
  BY <1>1, <1>2, <1>5
<1>8. \A m \in 0..(Capacity - 1) :
        linebuf_nth_to_index(a, m) = linebuf_nth_to_index(b, m) /\ linebuf_nth_to_index(b, m) \in Slots
  BY <1>1, <1>5, IndexValue DEF linebuf_nth_to_index
<1>9. LiveBelow(a, a.size - 1)
  <2> SUFFICES ASSUME NEW m \in 0..(Capacity - 1)
               PROVE  a.lines[linebuf_nth_to_index(a, m)].ptr = "live" <=> m < a.size - 1
    BY DEF LiveBelow
  <2>1. CASE m = b.size
    BY <1>1, <1>3, <1>5, <1>7, <1>8, <2>1 DEF k
  <2>2. CASE m # b.size
    <3>1. linebuf_nth_to_index(b, m) # k
      BY <1>1, <2>2, IndexBijection DEF k
    <3>2. a.lines[linebuf_nth_to_index(b, m)] = b.lines[linebuf_nth_to_index(b, m)]
      BY <1>1, <1>5, <1>8, <3>1
    <3>3. b.lines[linebuf_nth_to_index(b, m)].ptr = "live" <=> m < b.size
      BY DEF LiveBelow
    <3>4. a.size - 1 = b.size
      BY <1>1, <1>5
    <3> QED BY <1>8, <3>2, <3>3, <3>4
  <2> QED BY <2>1, <2>2
<1>10. NullAt(a, a.size - 1) /\ a.edit.raw = "live"
  <2>1. a.size - 1 = b.size /\ b.size \in 0..(Capacity - 1)
    BY <1>1, <1>5
  <2> QED BY <1>3, <1>5, <1>7, <1>8, <2>1, NewEditor DEF NullAt, k
<1> QED BY <1>5, <1>6, <1>9, <1>10 DEF a, RingOK

(* linebuf_newline(): in any rotation of the ring, full or not, the line   *)
(* just ended joins the array, the new one is empty, and its number is one *)
(* more than the last.                                                     *)
LEMMA NewlineRing ==
    ASSUME NEW b \in LineBuffer, RingOK(b)
    PROVE  LET r == linebuf_newline(b)
           IN  /\ r \in LineBuffer /\ RingOK(r)
               /\ r.edit = stredit_init
               /\ r.size > 0
               /\ linebuf_end(r) = linebuf_end(b) + 1
               /\ r.absolute_rendered = b.absolute_rendered
<1> DEFINE m == linebuf_make_space(b)
           f == IF m.size > 0 THEN linebuf_freeze_last(m) ELSE m
           r == linebuf_newline(b)
<1>1. /\ m \in LineBuffer /\ RingOK(m) /\ m.size < Capacity
      /\ linebuf_end(m) = linebuf_end(b) /\ m.absolute_rendered = b.absolute_rendered
  BY MakeSpace
<1>2. r = linebuf_append_empty(f)
  BY DEF linebuf_newline
<1> HIDE DEF m, r
<1>3. /\ f \in LineBuffer /\ LiveBelow(f, f.size)
      /\ f.size = m.size /\ f.absolute = m.absolute
      /\ f.absolute_rendered = m.absolute_rendered
  <2>1. CASE m.size > 0
    BY <1>1, <2>1, FreezeLast
  <2>2. CASE ~(m.size > 0)
    <3>1. m.size = 0
      BY <1>1, <2>2 DEF LineBuffer
    <3>2. LiveBelow(m, m.size)
      BY <1>1, <3>1, LineBufAssumption DEF RingOK, LiveBelow
    <3> QED BY <1>1, <2>2, <3>2
  <2> QED BY <2>1, <2>2
<1> HIDE DEF f
<1>4. /\ r \in LineBuffer /\ RingOK(r) /\ r.edit = stredit_init
      /\ r.size = f.size + 1 /\ r.absolute = f.absolute
      /\ r.absolute_rendered = f.absolute_rendered
  BY <1>1, <1>2, <1>3, AppendEmpty
<1>5. m.size \in Nat /\ m.absolute \in Nat
  BY <1>1, LineBufAssumption DEF LineBuffer
<1>6. r.size > 0 /\ linebuf_end(r) = linebuf_end(b) + 1
  BY <1>1, <1>3, <1>4, <1>5 DEF linebuf_end
<1> QED BY <1>1, <1>3, <1>4, <1>6 DEF r

(* Editing the last line leaves the ring alone. *)
LEMMA EditLast ==
    ASSUME NEW b \in LineBuffer, NEW e \in Editor, e.raw = b.edit.raw
    PROVE  LET r == [b EXCEPT !.edit = e]
           IN  /\ r \in LineBuffer
               /\ RingOK(b) => RingOK(r)
               /\ r.edit = e /\ r.size = b.size /\ r.absolute = b.absolute
               /\ r.lines = b.lines /\ r.start = b.start
               /\ r.absolute_rendered = b.absolute_rendered
<1> DEFINE r == [b EXCEPT !.edit = e]
<1>1. r \in LineBuffer
  BY DEF LineBuffer
<1>2. /\ r.edit = e /\ r.size = b.size /\ r.absolute = b.absolute
      /\ r.lines = b.lines /\ r.start = b.start
      /\ r.absolute_rendered = b.absolute_rendered
  BY DEF LineBuffer
<1> HIDE DEF r
<1>3. RingOK(b) => RingOK(r)
  BY <1>2 DEF RingOK, LiveBelow, NullAt, linebuf_nth_to_index
<1> QED BY <1>1, <1>2, <1>3 DEF r

(* console_fline_update_render_lines() counts at least one row. *)
LEMMA RowsType ==
    ASSUME NEW t \in Seq(Char), NEW w \in Nat \ {0}
    PROVE  Rows(t, w) \in Nat
<1>1. Len(t) + w - 1 \in Nat
  OBVIOUS
<1>2. (Len(t) + w - 1) \div w \in Nat
  BY <1>1
<1> QED BY <1>2 DEF Rows

(* Laying out one line changes nothing but row counts. *)
LEMMA LayoutLine ==
    ASSUME NEW b \in LineBuffer, NEW w \in Nat \ {0}, NEW abs \in Nat,
           b.absolute <= abs, abs < linebuf_end(b)
    PROVE  LET r == linebuf_layout_line(b, abs, w)
           IN  /\ r \in LineBuffer
               /\ RingOK(b) => RingOK(r)
               /\ r.edit.raw = b.edit.raw /\ r.edit.text = b.edit.text
               /\ r.edit.prefix = b.edit.prefix /\ r.edit.alloc_size = b.edit.alloc_size
               /\ r.size = b.size /\ r.absolute = b.absolute /\ r.start = b.start
               /\ r.absolute_rendered = b.absolute_rendered
<1> DEFINE FL == linebuf_get_line(b, abs)
           rows == Rows(FL.text, w)
           total == b.total_rendered - FL.rows + rows
           k == linebuf_nth_to_index(b, abs - b.absolute)
           r == linebuf_layout_line(b, abs, w)
<1>1. /\ b.lines \in [Slots -> Fline] /\ b.edit \in Editor
      /\ b.size \in 0..Capacity /\ b.absolute \in Nat /\ b.total_rendered \in Int
      /\ Capacity \in Nat \ {0}
  BY LineBufAssumption DEF LineBuffer
<1>2. abs - b.absolute \in 0..(b.size - 1)
  BY <1>1 DEF linebuf_end
<1>3. FL \in Fline
  BY <1>2, NthLine DEF linebuf_get_line
<1>4. FL.rows \in Nat /\ FL.text \in Seq(Char)
  BY <1>3 DEF Fline
<1>5. rows \in Nat
  BY <1>4, RowsType
<1>6. total \in Int
  BY <1>1, <1>4, <1>5
<1>7. k \in Slots
  BY <1>1, <1>2, IndexValue
<1>8. r = IF abs = linebuf_end(b) - 1
          THEN [b EXCEPT !.edit = [@ EXCEPT !.rows = rows], !.total_rendered = total]
          ELSE [b EXCEPT !.lines = [@ EXCEPT ![k] = [FL EXCEPT !.rows = rows]],
                         !.total_rendered = total]
  BY DEF linebuf_layout_line
<1> HIDE DEF FL, rows, total, k, r
<1>9. CASE abs = linebuf_end(b) - 1
  <2> DEFINE e == [b.edit EXCEPT !.rows = rows]
  <2>1. /\ e \in Editor /\ e.raw = b.edit.raw /\ e.text = b.edit.text
        /\ e.prefix = b.edit.prefix /\ e.alloc_size = b.edit.alloc_size
    BY <1>1, <1>5 DEF Editor
  <2>2. r = [b EXCEPT !.edit = e, !.total_rendered = total]
    BY <1>8, <1>9
  <2> HIDE DEF e
  <2>3. /\ r \in LineBuffer /\ r.edit = e /\ r.lines = b.lines
        /\ r.size = b.size /\ r.absolute = b.absolute /\ r.start = b.start
        /\ r.absolute_rendered = b.absolute_rendered
    BY <1>6, <2>1, <2>2 DEF LineBuffer
  <2>4. RingOK(b) => RingOK(r)
    BY <2>1, <2>3 DEF RingOK, LiveBelow, NullAt, linebuf_nth_to_index
  <2> QED BY <2>1, <2>3, <2>4 DEF r
<1>10. CASE abs # linebuf_end(b) - 1
  <2> DEFINE line == [FL EXCEPT !.rows = rows]
             slots == [b.lines EXCEPT ![k] = line]
  <2>1. line \in Fline /\ line.ptr = b.lines[k].ptr
    <3>1. FL = b.lines[k]
      BY <1>1, <1>2, <1>10 DEF FL, k, linebuf_get_line, linebuf_get_nth_line, linebuf_end
    <3> QED BY <1>3, <1>5, <3>1 DEF Fline
  <2>2. r = [b EXCEPT !.lines = slots, !.total_rendered = total]
    BY <1>8, <1>10
  <2> HIDE DEF line
  <2>3. slots \in [Slots -> Fline] /\ \A ix \in Slots : slots[ix].ptr = b.lines[ix].ptr
    BY <1>1, <1>7, <2>1
  <2> HIDE DEF slots
  <2>4. /\ r \in LineBuffer /\ r.edit = b.edit /\ r.lines = slots
        /\ r.size = b.size /\ r.absolute = b.absolute /\ r.start = b.start
        /\ r.absolute_rendered = b.absolute_rendered
    BY <1>6, <2>2, <2>3 DEF LineBuffer
  <2>5. ASSUME NEW m \in 0..Capacity
        PROVE  /\ linebuf_nth_to_index(r, m) = linebuf_nth_to_index(b, m)
               /\ r.lines[linebuf_nth_to_index(r, m)].ptr = b.lines[linebuf_nth_to_index(b, m)].ptr
    <3>1. linebuf_nth_to_index(b, m) \in Slots
      BY IndexValue
    <3>2. linebuf_nth_to_index(r, m) = linebuf_nth_to_index(b, m)
      BY <2>4 DEF linebuf_nth_to_index
    <3> QED BY <2>3, <2>4, <3>1, <3>2
  <2>6. RingOK(b) => RingOK(r)
    <3> SUFFICES ASSUME RingOK(b) PROVE RingOK(r)
      OBVIOUS
    <3>1. LiveBelow(r, r.size - 1)
      BY <1>1, <2>4, <2>5 DEF RingOK, LiveBelow
    <3>2. r.size > 0 => NullAt(r, r.size - 1) /\ r.edit.raw = "live"
      BY <1>1, <2>4, <2>5 DEF RingOK, NullAt
    <3> QED BY <3>1, <3>2 DEF RingOK
  <2> QED BY <2>4, <2>6 DEF r
<1> QED BY <1>9, <1>10

(* The end of the layout only moves absolute_rendered. *)
LEMMA LayoutEnd ==
    ASSUME NEW b \in LineBuffer
    PROVE  LET r == linebuf_layout_end(b)
           IN  /\ r \in LineBuffer
               /\ RingOK(b) => RingOK(r)
               /\ r.edit = b.edit /\ r.size = b.size /\ r.absolute = b.absolute
               /\ r.lines = b.lines /\ r.start = b.start
               /\ r.absolute_rendered = Max2(b.absolute_rendered, linebuf_end(b) - 2)
<1> DEFINE r == linebuf_layout_end(b)
           v == Max2(b.absolute_rendered, linebuf_end(b) - 2)
<1>1. v \in Nat
  BY LineBufAssumption DEF LineBuffer, Max2, linebuf_end
<1>2. r = [b EXCEPT !.absolute_rendered = v]
  BY DEF linebuf_layout_end
<1> HIDE DEF v, r
<1>3. /\ r \in LineBuffer /\ r.edit = b.edit /\ r.size = b.size /\ r.absolute = b.absolute
      /\ r.lines = b.lines /\ r.start = b.start /\ r.absolute_rendered = v
  BY <1>1, <1>2 DEF LineBuffer
<1>4. RingOK(b) => RingOK(r)
  BY <1>3 DEF RingOK, LiveBelow, NullAt, linebuf_nth_to_index
<1> QED BY <1>3, <1>4 DEF r, v

-----------------------------------------------------------------------------
(* The stored lines, by their absolute number *)

(* The lines numbered S are the same in two buffers *)
SameLines(b, r, S) == \A abs \in S : linebuf_get_line(r, abs) = linebuf_get_line(b, abs)

(* A line that is stored has a number, a text and a row count. *)
LEMMA LineType ==
    ASSUME NEW b \in LineBuffer, NEW abs \in b.absolute..(linebuf_end(b) - 1)
    PROVE  /\ linebuf_get_line(b, abs) \in Fline
           /\ linebuf_get_line(b, abs).text \in Seq(Char)
           /\ linebuf_get_line(b, abs).rows \in Nat
<1>1. b.absolute \in Nat /\ b.size \in Nat
  BY LineBufAssumption DEF LineBuffer
<1>2. abs - b.absolute \in 0..(b.size - 1)
  BY <1>1 DEF linebuf_end
<1>3. linebuf_get_line(b, abs) \in Fline
  BY <1>2, NthLine DEF linebuf_get_line
<1> QED BY <1>3 DEF Fline

(* Recycling drops the oldest line and discounts its rows and its text;    *)
(* the other lines keep their number and their content.                    *)
LEMMA RecycleLines ==
    ASSUME NEW b \in LineBuffer, b.size > 0
    PROVE  LET r == linebuf_recycle_oldest_line(b)
               FL == linebuf_get_line(b, b.absolute)
           IN  /\ SameLines(b, r, (b.absolute + 1)..(linebuf_end(b) - 1))
               /\ r.total_rendered = b.total_rendered - FL.rows
               /\ r.total_size_except_last =
                    IF b.size = 1 THEN b.total_size_except_last
                                  ELSE b.total_size_except_last - Len(FL.text)
<1> DEFINE r == linebuf_recycle_oldest_line(b)
           FL == linebuf_get_nth_line(b, 0)
<1>1. /\ b.start \in Nat /\ b.start < Capacity /\ b.start \in Slots
      /\ Capacity \in Nat \ {0} /\ b.size \in 0..Capacity /\ b.absolute \in Nat
      /\ b.lines \in [Slots -> Fline]
  BY LineBufAssumption DEF LineBuffer, Slots
<1>2. /\ r \in LineBuffer
      /\ r.size = b.size - 1 /\ r.absolute = b.absolute + 1
      /\ r.start = (b.start + 1) % Capacity
      /\ b.size > 1 => r.edit = b.edit /\ r.lines = [b.lines EXCEPT ![b.start] = FreedSlot]
  BY <1>1, RecycleFields
<1>3. /\ r.total_rendered = b.total_rendered - FL.rows
      /\ r.total_size_except_last =
           IF b.size = 1 THEN b.total_size_except_last
                         ELSE b.total_size_except_last - Len(FL.text)
  <2>1. r = [b EXCEPT
        !.total_rendered = @ - FL.rows,
        !.total_size_except_last = IF b.size = 1 THEN @ ELSE @ - Len(FL.text),
        !.lines = IF b.size = 1 THEN @ ELSE [@ EXCEPT ![b.start] = FreedSlot],
        !.edit = IF b.size = 1 THEN [@ EXCEPT !.raw = "freed"] ELSE @,
        !.start = (@ + 1) % Capacity, !.size = @ - 1, !.absolute = @ + 1]
    BY DEF linebuf_recycle_oldest_line
  <2> HIDE DEF r, FL
  <2> QED BY <1>1, <2>1 DEF LineBuffer
<1>4. FL = linebuf_get_line(b, b.absolute)
  <2>1. b.absolute - b.absolute = 0
    BY <1>1
  <2> QED BY <2>1 DEF linebuf_get_line
<1> HIDE DEF r, FL
<1>5. r.start = IF b.start + 1 < Capacity THEN b.start + 1 ELSE 0
  BY <1>1, <1>2
<1>6. ASSUME NEW abs \in (b.absolute + 1)..(linebuf_end(b) - 1)
      PROVE  linebuf_get_line(r, abs) = linebuf_get_line(b, abs)
  <2> DEFINE m == abs - b.absolute
  <2>1. /\ m \in 1..(b.size - 1) /\ abs - r.absolute = m - 1 /\ b.size > 1
        /\ m \in 0..Capacity /\ m - 1 \in 0..Capacity /\ m < Capacity
        /\ m = b.size - 1 <=> m - 1 = r.size - 1
    BY <1>1, <1>2 DEF linebuf_end
  <2> HIDE DEF m
  <2>2. /\ linebuf_nth_to_index(b, m) \in Slots
        /\ linebuf_nth_to_index(b, m) =
             IF b.start + m < Capacity THEN b.start + m ELSE b.start + m - Capacity
        /\ linebuf_nth_to_index(r, m - 1) =
             IF r.start + (m - 1) < Capacity THEN r.start + (m - 1) ELSE r.start + (m - 1) - Capacity
    BY <1>2, <2>1, IndexValue
  <2>3. linebuf_nth_to_index(r, m - 1) = linebuf_nth_to_index(b, m)
    BY <1>1, <1>5, <2>1, <2>2
  <2>4. linebuf_nth_to_index(b, m) # b.start
    BY <1>1, <2>1, <2>2
  <2>5. r.lines[linebuf_nth_to_index(b, m)] = b.lines[linebuf_nth_to_index(b, m)]
    BY <1>1, <1>2, <2>1, <2>2, <2>4
  <2>6. linebuf_get_nth_line(r, m - 1) = linebuf_get_nth_line(b, m)
    BY <1>2, <2>1, <2>3, <2>5 DEF linebuf_get_nth_line
  <2> QED BY <2>1, <2>6 DEF linebuf_get_line, m
<1> QED BY <1>3, <1>4, <1>6 DEF r, FL, SameLines

(* Freezing the last line and appending an empty one, where there is room, *)
(* keeps all lines and counts the text of the one that is frozen.          *)
LEMMA AddLine ==
    ASSUME NEW b \in LineBuffer, b.size < Capacity
    PROVE  LET f == IF b.size > 0 THEN linebuf_freeze_last(b) ELSE b
               a == linebuf_append_empty(f)
           IN  /\ a.size = b.size + 1 /\ a.absolute = b.absolute
               /\ a.edit = stredit_init
               /\ a.total_rendered = b.total_rendered
               /\ a.total_size_except_last =
                    IF b.size > 0 THEN b.total_size_except_last + Len(b.edit.text)
                                  ELSE b.total_size_except_last
               /\ SameLines(b, a, b.absolute..(linebuf_end(b) - 1))
<1> DEFINE f == IF b.size > 0 THEN linebuf_freeze_last(b) ELSE b
           a == linebuf_append_empty(f)
           k == linebuf_nth_to_index(b, b.size - 1)
           h == linebuf_nth_to_index(f, f.size)
           FL == [ptr |-> b.edit.raw, text |-> b.edit.text, rows |-> b.edit.rows]
<1>1. /\ b.lines \in [Slots -> Fline] /\ b.edit \in Editor /\ b.start \in Slots
      /\ b.size \in 0..Capacity /\ b.absolute \in Nat
      /\ Capacity \in Nat \ {0} /\ b.size \in 0..(Capacity - 1)
  BY LineBufAssumption DEF LineBuffer
<1>2. b.size > 0 => f = [b EXCEPT !.total_size_except_last = @ + Len(b.edit.text),
                    !.lines = [@ EXCEPT ![k] = FL],
                    !.edit = stredit_cleared]
  BY DEF linebuf_freeze_last
<1>3. ~(b.size > 0) => f = b
  OBVIOUS
<1> HIDE DEF f, k, FL
<1>4. /\ f.lines = (IF b.size > 0 THEN [b.lines EXCEPT ![k] = FL] ELSE b.lines)
      /\ f.start = b.start /\ f.size = b.size /\ f.absolute = b.absolute
      /\ f.total_rendered = b.total_rendered
      /\ f.total_size_except_last = IF b.size > 0
           THEN b.total_size_except_last + Len(b.edit.text) ELSE b.total_size_except_last
      /\ DOMAIN f = DOMAIN b
  BY <1>2, <1>3 DEF LineBuffer
<1>5. a = [f EXCEPT !.size = @ + 1, !.lines = [@ EXCEPT ![h] = NullSlot], !.edit = stredit_init]
  BY DEF linebuf_append_empty
<1>6. DOMAIN f = {"lines", "edit", "start", "size", "absolute", "total_rendered",
                  "total_size_except_last", "absolute_rendered"}
  BY <1>4 DEF LineBuffer
<1> HIDE DEF a, h
<1>7. /\ a.lines = [f.lines EXCEPT ![h] = NullSlot]
      /\ a.start = f.start /\ a.size = f.size + 1 /\ a.absolute = f.absolute
      /\ a.edit = stredit_init
      /\ a.total_rendered = f.total_rendered
      /\ a.total_size_except_last = f.total_size_except_last
  BY <1>5, <1>6
<1>8. ASSUME NEW abs \in b.absolute..(linebuf_end(b) - 1)
      PROVE  linebuf_get_line(a, abs) = linebuf_get_line(b, abs)
  <2> DEFINE m == abs - b.absolute
             j == linebuf_nth_to_index(b, m)
  <2>1. /\ m \in 0..(b.size - 1) /\ m \in 0..(Capacity - 1) /\ m \in 0..Capacity
        /\ abs - a.absolute = m /\ m # a.size - 1 /\ b.size > 0 /\ m # b.size
        /\ b.size - 1 \in 0..(Capacity - 1)
    <3>1. a.absolute = b.absolute /\ a.size = b.size + 1
      BY <1>4, <1>7
    <3> QED BY <1>1, <3>1 DEF linebuf_end
  <2> HIDE DEF m
  <2>2. linebuf_nth_to_index(a, m) = j /\ h = linebuf_nth_to_index(b, b.size)
    BY <1>4, <1>7 DEF linebuf_nth_to_index, h
  <2>3. j \in Slots /\ k \in Slots
    BY <1>1, <2>1, IndexValue DEF k
  <2>4. j # h
    BY <1>1, <2>1, <2>2, IndexBijection
  <2>5. j = k <=> m = b.size - 1
    BY <1>1, <2>1, IndexBijection DEF k
  <2> HIDE DEF j
  <2>6. a.lines[j] = f.lines[j]
    <3>1. f.lines \in [Slots -> Fline \cup {FL}]
      BY <1>1, <1>4, <2>3
    <3> QED BY <1>7, <2>3, <2>4, <3>1
  <2>7. linebuf_get_line(a, abs) = f.lines[j]
    BY <2>1, <2>2, <2>6 DEF linebuf_get_line, linebuf_get_nth_line
  <2>8. linebuf_get_line(b, abs) = IF m = b.size - 1 THEN FL ELSE b.lines[j]
    BY DEF linebuf_get_line, linebuf_get_nth_line, m, j, FL
  <2>9. f.lines[j] = IF j = k THEN FL ELSE b.lines[j]
    BY <1>1, <1>4, <2>1, <2>3
  <2> QED BY <2>5, <2>7, <2>8, <2>9
<1> QED BY <1>4, <1>7, <1>8 DEF f, a, SameLines

(* linebuf_newline() keeps every line but the oldest one of a full ring. *)
LEMMA NewlineLines ==
    ASSUME NEW b \in LineBuffer, RingOK(b)
    PROVE  LET r == linebuf_newline(b)
           IN  /\ SameLines(b, r, r.absolute..(linebuf_end(b) - 1))
               /\ b.size < Capacity => r.absolute = b.absolute /\ r.size = b.size + 1
               /\ b.size = Capacity => r.absolute = b.absolute + 1 /\ r.size = b.size
<1> DEFINE m == linebuf_make_space(b)
           f == IF m.size > 0 THEN linebuf_freeze_last(m) ELSE m
           a == linebuf_append_empty(f)
<1>1. b.size \in 0..Capacity /\ b.absolute \in Nat /\ Capacity \in Nat \ {0}
  BY LineBufAssumption DEF LineBuffer
<1>2. linebuf_newline(b) = a
  BY DEF linebuf_newline
<1>3. m \in LineBuffer /\ m.size < Capacity /\ linebuf_end(m) = linebuf_end(b)
  BY MakeSpace
<1>4. /\ a.size = m.size + 1 /\ a.absolute = m.absolute
      /\ SameLines(m, a, m.absolute..(linebuf_end(m) - 1))
  <2> HIDE DEF m
  <2> QED BY <1>3, AddLine
<1> HIDE DEF f, a
<1>5. CASE b.size < Capacity
  <2>1. m = b
    BY <1>1, <1>5 DEF linebuf_make_space
  <2> QED BY <1>1, <1>2, <1>4, <1>5, <2>1
<1>6. CASE b.size = Capacity
  <2> DEFINE c == linebuf_recycle_oldest_line(b)
  <2>1. m = c
    BY <1>1, <1>6 DEF linebuf_make_space
  <2>2. /\ c.size = b.size - 1 /\ c.absolute = b.absolute + 1
        /\ SameLines(b, c, (b.absolute + 1)..(linebuf_end(b) - 1))
    <3>1. b.size > 0
      BY <1>1, <1>6
    <3> QED BY <3>1, RecycleFields, RecycleLines
  <2> HIDE DEF m, c
  <2>3. a.size = b.size /\ a.absolute = b.absolute + 1
    BY <1>1, <1>4, <2>1, <2>2
  <2>4. SameLines(b, a, (b.absolute + 1)..(linebuf_end(b) - 1))
    BY <1>3, <1>4, <2>1, <2>2 DEF SameLines
  <2> QED BY <1>1, <1>2, <1>6, <2>3, <2>4
<1> QED BY <1>1, <1>5, <1>6

(* Editing the last line leaves the others alone. *)
LEMMA EditLines ==
    ASSUME NEW b \in LineBuffer, NEW e \in Editor
    PROVE  LET r == [b EXCEPT !.edit = e]
           IN  /\ SameLines(b, r, b.absolute..(linebuf_end(b) - 2))
               /\ r.total_rendered = b.total_rendered
               /\ r.total_size_except_last = b.total_size_except_last
<1> DEFINE r == [b EXCEPT !.edit = e]
<1>1. /\ r.lines = b.lines /\ r.start = b.start /\ r.size = b.size /\ r.absolute = b.absolute
      /\ r.total_rendered = b.total_rendered
      /\ r.total_size_except_last = b.total_size_except_last
      /\ b.absolute \in Nat /\ b.size \in Nat
  BY LineBufAssumption DEF LineBuffer
<1> HIDE DEF r
<1>2. ASSUME NEW abs \in b.absolute..(linebuf_end(b) - 2)
      PROVE  linebuf_get_line(r, abs) = linebuf_get_line(b, abs)
  <2>1. abs - b.absolute # b.size - 1
    BY <1>1 DEF linebuf_end
  <2> QED BY <1>1, <2>1 DEF linebuf_get_line, linebuf_get_nth_line, linebuf_nth_to_index
<1> QED BY <1>1, <1>2 DEF r, SameLines

(* linebuf_update_render() gives a line the rows of its text, keeps its    *)
(* text and the other lines, and counts the difference.                    *)
LEMMA LayoutLines ==
    ASSUME NEW b \in LineBuffer, NEW w \in Nat \ {0}, NEW abs \in Nat,
           b.absolute <= abs, abs < linebuf_end(b)
    PROVE  LET r == linebuf_layout_line(b, abs, w)
               FL == linebuf_get_line(b, abs)
           IN  /\ SameLines(b, r, (b.absolute..(linebuf_end(b) - 1)) \ {abs})
               /\ linebuf_get_line(r, abs) = [FL EXCEPT !.rows = Rows(FL.text, w)]
               /\ r.total_rendered = b.total_rendered - FL.rows + Rows(FL.text, w)
               /\ r.total_size_except_last = b.total_size_except_last
<1> DEFINE FL == linebuf_get_line(b, abs)
           rows == Rows(FL.text, w)
           total == b.total_rendered - FL.rows + rows
           n == abs - b.absolute
           k == linebuf_nth_to_index(b, n)
           r == linebuf_layout_line(b, abs, w)
<1>1. /\ b.lines \in [Slots -> Fline] /\ b.edit \in Editor
      /\ b.size \in 0..Capacity /\ b.absolute \in Nat /\ Capacity \in Nat \ {0}
  BY LineBufAssumption DEF LineBuffer
<1>2. n \in 0..(b.size - 1) /\ n \in 0..(Capacity - 1) /\ (n = b.size - 1 <=> abs = linebuf_end(b) - 1)
  BY <1>1 DEF linebuf_end
<1>3. k \in Slots
  BY <1>1, <1>2, IndexValue
<1>4. r.size = b.size /\ r.absolute = b.absolute /\ r.start = b.start
  BY LayoutLine
<1>5. r = IF abs = linebuf_end(b) - 1
          THEN [b EXCEPT !.edit = [@ EXCEPT !.rows = rows], !.total_rendered = total]
          ELSE [b EXCEPT !.lines = [@ EXCEPT ![k] = [FL EXCEPT !.rows = rows]],
                         !.total_rendered = total]
  BY DEF linebuf_layout_line
<1>6. FL = IF n = b.size - 1 THEN [ptr |-> b.edit.raw, text |-> b.edit.text, rows |-> b.edit.rows]
                             ELSE b.lines[k]
  BY DEF linebuf_get_line, linebuf_get_nth_line
<1> HIDE DEF r, rows, total, FL
<1>7. r.total_rendered = total /\ r.total_size_except_last = b.total_size_except_last
  BY <1>5 DEF LineBuffer
<1>8. /\ n = b.size - 1 => r.edit = [b.edit EXCEPT !.rows = rows] /\ r.lines = b.lines
      /\ n # b.size - 1 => r.edit = b.edit /\ r.lines = [b.lines EXCEPT ![k] = [FL EXCEPT !.rows = rows]]
  BY <1>2, <1>5 DEF LineBuffer
<1>9. ASSUME NEW m \in 0..(b.size - 1)
      PROVE  linebuf_get_nth_line(r, m) =
               IF m = n THEN [FL EXCEPT !.rows = rows] ELSE linebuf_get_nth_line(b, m)
  <2> DEFINE j == linebuf_nth_to_index(b, m)
  <2>1. m \in 0..(Capacity - 1) /\ j \in Slots /\ linebuf_nth_to_index(r, m) = j
    BY <1>1, <1>4, IndexValue DEF linebuf_nth_to_index
  <2>2. j = k <=> m = n
    BY <1>1, <1>2, <2>1, IndexBijection
  <2> HIDE DEF j, k, n
  <2>3. CASE n = b.size - 1 /\ m = n
    BY <1>1, <1>4, <1>6, <1>8, <2>3 DEF linebuf_get_nth_line, Editor
  <2>4. CASE n = b.size - 1 /\ m # n
    BY <1>4, <1>8, <2>1, <2>4 DEF linebuf_get_nth_line, j
  <2>5. CASE n # b.size - 1 /\ m = n
    BY <1>1, <1>3, <1>4, <1>8, <2>1, <2>2, <2>5 DEF linebuf_get_nth_line
  <2>6. CASE n # b.size - 1 /\ m # n
    BY <1>1, <1>3, <1>4, <1>8, <2>1, <2>2, <2>6 DEF linebuf_get_nth_line, j
  <2> QED BY <2>3, <2>4, <2>5, <2>6
<1>10. linebuf_get_line(r, abs) = [FL EXCEPT !.rows = rows]
  BY <1>2, <1>4, <1>9 DEF linebuf_get_line
<1>11. SameLines(b, r, (b.absolute..(linebuf_end(b) - 1)) \ {abs})
  <2> SUFFICES ASSUME NEW x \in b.absolute..(linebuf_end(b) - 1), x # abs
               PROVE  linebuf_get_line(r, x) = linebuf_get_line(b, x)
    BY DEF SameLines
  <2>1. x - b.absolute \in 0..(b.size - 1) /\ x - b.absolute # n
    BY <1>1 DEF linebuf_end
  <2> QED BY <1>4, <1>9, <2>1 DEF linebuf_get_line
<1> QED BY <1>7, <1>10, <1>11 DEF r, total, rows, FL


(***************************************************************************)
(* The inductive invariant                                                 *)
(***************************************************************************)

(* TypeOK without the render flag, which nothing else depends on *)
Types ==
    /\ buf \in LineBuffer
    /\ cursor \in Int
    /\ render_width \in Nat
    /\ scroll \in Int
    /\ mode \in {"program"} \cup InputModes
    /\ pc \in PCs
    /\ job \in Job

(* The line buffer: the ring is in order, there is a line except in        *)
(* console_create(), and the editor's block is large enough.               *)
BufferOK ==
    /\ RingOK(buf)
    /\ buf.size = 0 => pc = "newline"
    /\ RoomForText(buf.edit)

(* Inside a call of console_write_raw(), its newlines included *)
InRaw == pc = "raw" \/ (pc \in {"newline", "clean"} /\ job.ret = "raw")

(* Inside a call of console_write(), outside console_write_raw() *)
InWrite ==
    \/ pc \in {"write", "control", "lock"}
    \/ pc \in {"newline", "clean"} /\ job.ret = "write"

(* The locals: what is left of a run is part of the string, and all of it  *)
(* when a key is written; a control character has been found where the     *)
(* loop looks at it; only the program is in console_write(); the layout    *)
(* does not start before the first line.                                   *)
JobOK ==
    /\ pc = "idle" => job = NoJob
    /\ InRaw => job.left <= job.line /\ job.offset + job.line <= Len(job.out)
    /\ InRaw /\ mode # "program" => job.offset + job.line = Len(job.out)
    /\ pc = "control" => job.offset < Len(job.out)
    /\ pc = "lock" => job.lock \in InputModes
    /\ job.lock # "none" \/ InWrite => mode = "program"
    /\ pc = "view" => render_width # 0 /\ buf.absolute <= job.abs

(* The inductive invariant *)
IInv == Types /\ BufferOK /\ CursorInEditable /\ JobOK

-----------------------------------------------------------------------------

(* The scan of console_write() for a control character ends inside the     *)
(* string: at the first one, or at the end.                                *)
LEMMA RunEndExists ==
    ASSUME NEW out \in Seq(Char), NEW offset \in Nat, offset < Len(out)
    PROVE  /\ RunEnd(out, offset) \in offset..Len(out)
           /\ RunEnd(out, offset) = Len(out) \/ out[RunEnd(out, offset) + 1] \in Controls
<1> DEFINE T == {e \in offset..Len(out) : e = Len(out) \/ out[e + 1] \in Controls}
<1>1. Len(out) \in T /\ T \subseteq Nat
  OBVIOUS
<1> HIDE DEF T
<1>2. PICK e \in T : \A d \in T : e <= d
  BY <1>1, LeastNat
<1>3. e \in offset..Len(out) /\ (e = Len(out) \/ out[e + 1] \in Controls)
  BY <1>2 DEF T
<1>4. \A j \in offset..(e - 1) : out[j + 1] \notin Controls
  <2> SUFFICES ASSUME NEW j \in offset..(e - 1), out[j + 1] \in Controls PROVE FALSE
    OBVIOUS
  <2>1. j \in offset..Len(out) /\ j < e
    BY <1>3
  <2>2. j \in T
    BY <2>1 DEF T
  <2> QED BY <1>2, <1>3, <2>1, <2>2
<1> QED BY <1>3, <1>4 DEF RunEnd

(* The state at the call of console_newline() in console_create() *)
LEMMA InitIInv == Init => IInv
<1> SUFFICES ASSUME Init PROVE IInv
  OBVIOUS
<1>1. buf \in LineBuffer
  <2>1. NullSlot \in Fline
    BY DEF NullSlot, Fline, PtrState
  <2>2. 0 \in Slots /\ 0 \in 0..Capacity
    BY LineBufAssumption DEF Slots
  <2> QED BY <2>1, <2>2, NewEditor DEF Init, linebuf_init, LineBuffer
<1>2. Types
  BY <1>1 DEF Init, Types, PCs, NoJob, Job, InputModes
<1>3. BufferOK
  <2>1. buf.size = 0 /\ buf.edit = stredit_cleared /\ buf.lines = [ix \in Slots |-> NullSlot]
    BY DEF Init, linebuf_init
  <2>2. LiveBelow(buf, buf.size - 1)
    <3> SUFFICES ASSUME NEW m \in 0..(Capacity - 1)
                 PROVE  ~(buf.lines[linebuf_nth_to_index(buf, m)].ptr = "live") /\ ~(m < buf.size - 1)
      BY DEF LiveBelow
    <3>1. linebuf_nth_to_index(buf, m) \in Slots
      BY <1>1, IndexValue, LineBufAssumption
    <3> QED BY <2>1, <3>1 DEF NullSlot
  <2> QED BY <2>1, <2>2, NewEditor DEF Init, BufferOK, RingOK
<1>4. CursorInEditable
  BY DEF Init, CursorInEditable, linebuf_init
<1>5. JobOK
  BY DEF Init, JobOK, InRaw, InWrite, NoJob
<1> QED BY <1>2, <1>3, <1>4, <1>5 DEF IInv

-----------------------------------------------------------------------------
(* console_newline() *)

(* A new line keeps the invariant, from any rotation of the ring. *)
LEMMA NewlineIInv == IInv /\ console_newline => IInv'
<1> SUFFICES ASSUME IInv, console_newline PROVE IInv'
  OBVIOUS
<1>1. /\ buf' = linebuf_newline(buf) /\ cursor' = 0 /\ pc = "newline" /\ pc' = "clean"
      /\ UNCHANGED <<render_width, scroll, mode, job>>
  BY DEF console_newline, view
<1>2. /\ buf' \in LineBuffer /\ RingOK(buf') /\ buf'.edit = stredit_init /\ buf'.size > 0
  BY <1>1, NewlineRing DEF IInv, Types, BufferOK
<1>3. Types'
  BY <1>1, <1>2 DEF IInv, Types, PCs
<1>4. BufferOK'
  BY <1>2, NewEditor DEF BufferOK
<1>5. CursorInEditable'
  <2>1. buf'.edit.prefix = 0 /\ Len(buf'.edit.text) = 0
    BY <1>2, NewEditor
  <2> QED BY <1>1, <2>1, StrEditAssumption DEF CursorInEditable
<1>6. JobOK'
  BY <1>1 DEF IInv, JobOK, InRaw, InWrite
<1> QED BY <1>3, <1>4, <1>5, <1>6 DEF IInv

(* Dropping a line over the backlog keeps the invariant. *)
LEMMA CleanIInv == IInv /\ linebuf_clean_backlog => IInv'
<1> SUFFICES ASSUME IInv, linebuf_clean_backlog PROVE IInv'
  OBVIOUS
<1>1. /\ buf' = linebuf_recycle_oldest_line(buf) /\ pc = "clean" /\ buf.size > 1
      /\ UNCHANGED <<cursor, render_width, scroll, mode, pc, job>>
  BY DEF linebuf_clean_backlog, linebuf_over_backlog, view
<1>2. buf \in LineBuffer /\ buf.size \in 0..Capacity /\ buf.size > 0
  BY <1>1, LineBufAssumption DEF IInv, Types, LineBuffer
<1>3. buf' \in LineBuffer /\ buf'.size = buf.size - 1 /\ buf'.edit = buf.edit
  BY <1>1, <1>2, RecycleFields
<1>4. RingOK(buf')
  <2>1. buf.size > 0 /\ RingOK(buf)
    BY <1>1, <1>2, LineBufAssumption DEF IInv, BufferOK
  <2>2. LiveBelow(buf', buf'.size - 1) /\ (buf'.size > 0 => NullAt(buf', buf'.size - 1))
    BY <1>1, <1>2, <2>1, RecycleRing
  <2> QED BY <1>3, <2>1, <2>2 DEF RingOK
<1>5. Types'
  BY <1>1, <1>3 DEF IInv, Types
<1>6. BufferOK'
  BY <1>1, <1>2, <1>3, <1>4, LineBufAssumption DEF IInv, BufferOK
<1>7. CursorInEditable'
  BY <1>1, <1>2, <1>3, LineBufAssumption DEF IInv, CursorInEditable
<1>8. JobOK'
  BY <1>1 DEF IInv, JobOK, InRaw, InWrite
<1> QED BY <1>5, <1>6, <1>7, <1>8 DEF IInv

(* Returning from console_newline() keeps the invariant. *)
LEMMA ReturnIInv == IInv /\ newline_return => IInv'
<1> SUFFICES ASSUME IInv, newline_return PROVE IInv'
  OBVIOUS
<1>1. /\ pc = "clean" /\ pc' = job.ret /\ job' = IF job.ret = "idle" THEN NoJob ELSE job
      /\ UNCHANGED <<buf, cursor, render_width, scroll, mode>>
  BY DEF newline_return, view
<1>2. job.ret \in {"idle", "write", "raw"} /\ NoJob \in Job
  BY DEF IInv, Types, Job, NoJob
<1>3. Types'
  BY <1>1, <1>2 DEF IInv, Types, PCs
<1>4. BufferOK' /\ CursorInEditable'
  BY <1>1 DEF IInv, BufferOK, CursorInEditable
<1>5. JobOK'
  BY <1>1, <1>2 DEF IInv, JobOK, InRaw, InWrite, NoJob
<1> QED BY <1>3, <1>4, <1>5 DEF IInv

-----------------------------------------------------------------------------
(* console_write() and console_write_raw() *)

(* In console_write() there is a last line, and it is an editor. *)
LEMMA LastLine ==
    ASSUME IInv, pc # "newline"
    PROVE  /\ buf \in LineBuffer /\ buf.edit \in Editor /\ buf.size > 0
           /\ cursor \in Nat /\ cursor <= Len(buf.edit.text)
           /\ buf.edit.prefix \in Nat /\ buf.edit.prefix <= cursor
           /\ Len(buf.edit.text) \in Nat /\ Len(buf.edit.text) <= MaxLine
<1>1. buf \in LineBuffer /\ buf.edit \in Editor /\ buf.size \in 0..Capacity /\ cursor \in Int
  BY DEF IInv, Types, LineBuffer
<1>2. buf.size > 0
  BY <1>1, LineBufAssumption DEF IInv, BufferOK
<1>3. buf.edit.prefix \in Nat /\ buf.edit.text \in Seq(Char)
  BY <1>1 DEF Editor
<1> QED BY <1>1, <1>2, <1>3 DEF IInv, CursorInEditable

(* A step that only edits the last line, after which the cursor is in its  *)
(* editable part, keeps the invariant of the buffer and of the cursor.     *)
LEMMA EditStep ==
    ASSUME IInv, pc # "newline",
           NEW e \in Editor, e.raw = buf.edit.raw, RoomForText(e),
           buf' = [buf EXCEPT !.edit = e],
           cursor' \in Int, e.prefix <= cursor', cursor' <= Len(e.text),
           Len(e.text) <= MaxLine,
           mode' = "program" /\ pc' # "newline" => e.prefix = 0
    PROVE  /\ buf' \in LineBuffer
           /\ BufferOK' /\ CursorInEditable'
           /\ buf'.absolute = buf.absolute
<1>1. buf \in LineBuffer /\ buf.size > 0 /\ buf.size \in 0..Capacity
  BY LastLine DEF LineBuffer
<1>2. /\ buf' \in LineBuffer /\ (RingOK(buf) => RingOK(buf'))
      /\ buf'.edit = e /\ buf'.size = buf.size /\ buf'.absolute = buf.absolute
  BY <1>1, EditLast
<1>3. BufferOK'
  BY <1>1, <1>2, LineBufAssumption DEF IInv, BufferOK
<1>4. CursorInEditable'
  BY <1>2 DEF CursorInEditable
<1> QED BY <1>2, <1>3, <1>4

(* Assigning to the locals keeps their types. *)
LEMMA JobUpdate ==
    ASSUME NEW j \in Job, NEW n \in Nat, NEW r \in {"idle", "write", "raw"}
    PROVE  /\ [j EXCEPT !.left = n, !.ret = r] \in Job
           /\ [j EXCEPT !.offset = n, !.ret = r] \in Job
<1> USE DEF Job
<1>1. [j EXCEPT !.ret = r] \in Job
  OBVIOUS
<1>2. [j EXCEPT !.left = n] \in Job /\ [j EXCEPT !.offset = n] \in Job
  OBVIOUS
<1>3. [[j EXCEPT !.left = n] EXCEPT !.ret = r] \in Job
  BY <1>2
<1> QED
  BY <1>2, <1>3

(* Leaving console_write() keeps the invariant of the locals. *)
LEMMA WriteReturnJob ==
    ASSUME Types, JobOK, WriteReturn, UNCHANGED mode
    PROVE  job' \in Job /\ pc' \in PCs /\ pc' # "newline" /\ JobOK'
<1>1. NoJob \in Job /\ job \in Job /\ NoJob.lock = "none"
  BY DEF Types, NoJob, Job
<1>2. CASE job.lock = "none"
  BY <1>1, <1>2 DEF WriteReturn, JobOK, InRaw, InWrite, PCs
<1>3. CASE job.lock # "none"
  <2>1. job' = job /\ pc' = "lock"
    BY <1>3 DEF WriteReturn
  <2>2. job.lock \in InputModes
    BY <1>1, <1>3 DEF Job
  <2> QED BY <1>1, <1>3, <2>1, <2>2 DEF JobOK, InRaw, InWrite, PCs
<1> QED BY <1>2, <1>3

(* The scan for a run of plain characters keeps the invariant. *)
LEMMA WriteRunIInv == IInv /\ console_write_run => IInv'
<1> SUFFICES ASSUME IInv, console_write_run PROVE IInv'
  OBVIOUS
<1> DEFINE n == RunEnd(job.out, job.offset) - job.offset
<1>1. /\ pc = "write" /\ pc' = "raw" /\ job.offset < Len(job.out)
      /\ job' = [job EXCEPT !.line = n, !.left = n]
      /\ UNCHANGED <<buf, cursor, render_width, scroll, mode>>
  BY DEF console_write_run, view
<1>2. job \in Job /\ job.out \in Seq(Char) /\ job.offset \in Nat
  BY DEF IInv, Types, Job
<1>3. RunEnd(job.out, job.offset) \in job.offset..Len(job.out)
  BY <1>1, <1>2, RunEndExists
<1>4. n \in Nat /\ job.offset + n <= Len(job.out)
  BY <1>2, <1>3
<1> HIDE DEF n
<1>5. /\ job' \in Job /\ job'.left = n /\ job'.line = n /\ job'.offset = job.offset
      /\ job'.out = job.out /\ job'.lock = job.lock
  BY <1>1, <1>2, <1>4 DEF Job
<1>6. Types'
  BY <1>1, <1>5 DEF IInv, Types, PCs
<1>7. BufferOK' /\ CursorInEditable'
  BY <1>1 DEF IInv, BufferOK, CursorInEditable
<1>8. JobOK'
  BY <1>1, <1>4, <1>5 DEF IInv, JobOK, InRaw, InWrite
<1> QED BY <1>6, <1>7, <1>8 DEF IInv

(* The three ways out of a write that leave the text alone keep it. *)
LEMMA WriteEndIInv ==
    IInv /\ (console_write_end \/ console_write_raw_fail) => IInv'
<1> SUFFICES ASSUME IInv, console_write_end \/ console_write_raw_fail PROVE IInv'
  OBVIOUS
<1>1. /\ WriteReturn /\ pc \in {"write", "raw"}
      /\ UNCHANGED <<buf, cursor, render_width, scroll, mode>>
  BY DEF console_write_end, console_write_raw_fail, view
<1>2. job' \in Job /\ pc' \in PCs /\ pc' # "newline" /\ JobOK'
  BY <1>1, WriteReturnJob DEF IInv
<1>3. Types'
  BY <1>1, <1>2 DEF IInv, Types
<1>4. BufferOK' /\ CursorInEditable'
  BY <1>1 DEF IInv, BufferOK, CursorInEditable
<1> QED BY <1>2, <1>3, <1>4 DEF IInv

(* The end of console_write_raw() keeps the invariant. *)
LEMMA RawReturnIInv == IInv /\ console_write_raw_return => IInv'
<1> SUFFICES ASSUME IInv, console_write_raw_return PROVE IInv'
  OBVIOUS
<1>1. /\ pc = "raw" /\ UNCHANGED <<buf, cursor, render_width, scroll, mode>>
  BY DEF console_write_raw_return, view
<1>2. CASE WriteReturn
  <2>1. job' \in Job /\ pc' \in PCs /\ pc' # "newline" /\ JobOK'
    BY <1>1, <1>2, WriteReturnJob DEF IInv
  <2>2. Types' /\ BufferOK' /\ CursorInEditable'
    BY <1>1, <2>1 DEF IInv, Types, BufferOK, CursorInEditable
  <2> QED BY <2>1, <2>2 DEF IInv
<1>3. CASE /\ ~(job.offset + job.line >= Len(job.out))
           /\ pc' = "control" /\ job' = [job EXCEPT !.offset = @ + job.line]
  <2>1. job \in Job /\ job.offset \in Nat /\ job.line \in Nat /\ Len(job.out) \in Nat
    BY DEF IInv, Types, Job
  <2>2. /\ job' \in Job /\ job'.offset = job.offset + job.line /\ job'.out = job.out
        /\ job'.lock = job.lock
    BY <1>3, <2>1 DEF Job
  <2>3. Types' /\ BufferOK' /\ CursorInEditable'
    BY <1>1, <1>3, <2>2 DEF IInv, Types, BufferOK, CursorInEditable, PCs
  <2>4. mode = "program"
    BY <1>1, <1>3, <2>1 DEF IInv, JobOK, InRaw
  <2>5. JobOK'
    BY <1>1, <1>3, <2>1, <2>2, <2>4 DEF IInv, JobOK, InRaw, InWrite
  <2> QED BY <2>3, <2>5 DEF IInv
<1> QED BY <1>2, <1>3 DEF console_write_raw_return

(* A round that inserts keeps the invariant: what fits goes into the line, *)
(* and the block of the editor is large enough for it.                     *)
LEMMA RoundIInv == IInv /\ console_write_raw_round => IInv'
<1> SUFFICES ASSUME IInv, console_write_raw_round PROVE IInv'
  OBVIOUS
<1> DEFINE n == RoundSize
           t == RoundText
           e == stredit_insert(buf.edit, cursor, t)
<1>1. /\ pc = "raw" /\ job.left > 0 /\ stredit_can_insert(buf.edit, cursor, n)
      /\ buf' = [buf EXCEPT !.edit = e] /\ cursor' = cursor + n
      /\ pc' = (IF n < job.left THEN "newline" ELSE "raw")
      /\ job' = [job EXCEPT !.left = @ - n, !.ret = "raw"]
      /\ UNCHANGED <<render_width, scroll, mode>>
  BY DEF console_write_raw_round, last_line, view
<1>2. /\ job \in Job /\ job.out \in Seq(Char) /\ job.offset \in Nat
      /\ job.line \in Nat /\ job.left \in Nat /\ Len(job.out) \in Nat
  BY DEF IInv, Types, Job
<1>3. job.left <= job.line /\ job.offset + job.line <= Len(job.out)
  BY <1>1 DEF IInv, JobOK, InRaw
<1>4. /\ buf \in LineBuffer /\ buf.edit \in Editor
      /\ cursor \in Nat /\ cursor <= Len(buf.edit.text)
      /\ buf.edit.prefix \in Nat /\ buf.edit.prefix <= cursor
      /\ Len(buf.edit.text) \in Nat /\ Len(buf.edit.text) <= MaxLine
      /\ MaxLine \in Nat
  BY <1>1, LastLine, StrEditAssumption
<1>5. n \in Nat /\ n <= job.left
  BY <1>2, <1>4 DEF RoundSize, Min2, stredit_capacity, last_line
<1>6. t \in Seq(Char) /\ Len(t) = n
  <2> DEFINE q == job.offset + n
  <2>1. q <= Len(job.out) /\ q \in Int /\ q - job.offset = n /\ (job.offset + 1 <= q <=> n > 0)
    BY <1>2, <1>3, <1>5
  <2>2. t = SubSeq(job.out, job.offset + 1, q)
    BY DEF RoundText
  <2> HIDE DEF n, t, q
  <2>3. /\ SubSeq(job.out, job.offset + 1, q) \in Seq(Char)
        /\ Len(SubSeq(job.out, job.offset + 1, q)) = IF job.offset + 1 <= q THEN q - job.offset ELSE 0
    BY <1>2, <2>1, PieceType
  <2>4. Len(t) = IF n > 0 THEN n ELSE 0
    BY <2>1, <2>2, <2>3
  <2> QED BY <1>5, <2>2, <2>3, <2>4
<1> HIDE DEF n, t
<1>7. /\ e \in Editor /\ Len(e.text) = Len(buf.edit.text) + n /\ Len(e.text) <= MaxLine
      /\ e.prefix = buf.edit.prefix /\ e.raw = buf.edit.raw /\ RoomForText(e)
  <2>1. stredit_can_insert(buf.edit, cursor, Len(t)) /\ cursor \in Int
    BY <1>1, <1>4, <1>6
  <2> HIDE DEF e
  <2> QED BY <1>4, <1>6, <2>1, InsertEditor DEF e
<1> HIDE DEF e
<1>8. e.prefix <= cursor' /\ cursor' <= Len(e.text) /\ cursor' \in Int
  BY <1>1, <1>4, <1>5, <1>7
<1>9. mode' = "program" /\ pc' # "newline" => e.prefix = 0
  BY <1>1, <1>7 DEF IInv, CursorInEditable
<1>10. buf' \in LineBuffer /\ BufferOK' /\ CursorInEditable' /\ buf'.absolute = buf.absolute
  BY <1>1, <1>7, <1>8, <1>9, EditStep
<1>11. /\ job' \in Job /\ job'.left = job.left - n /\ job'.ret = "raw"
       /\ job'.line = job.line /\ job'.offset = job.offset /\ job'.out = job.out
       /\ job'.lock = job.lock
  <2>1. /\ job'.left = job.left - n /\ job'.ret = "raw"
        /\ job'.line = job.line /\ job'.offset = job.offset /\ job'.out = job.out
        /\ job'.lock = job.lock /\ job'.abs = job.abs
    BY <1>1, <1>2 DEF Job
  <2>2. job.left - n \in Nat
    BY <1>2, <1>5
  <2>3. job' \in Job
    BY <1>1, <1>2, <2>2, JobUpdate
  <2> QED BY <2>1, <2>3
<1>12. Types'
  BY <1>1, <1>8, <1>10, <1>11 DEF IInv, Types, PCs
<1>13. JobOK'
  BY <1>1, <1>2, <1>3, <1>5, <1>11 DEF IInv, JobOK, InRaw, InWrite
<1> QED BY <1>10, <1>12, <1>13 DEF IInv

(* A newline character keeps the invariant. *)
LEMMA WriteNewlineIInv == IInv /\ write_newline => IInv'
<1> SUFFICES ASSUME IInv, write_newline PROVE IInv'
  OBVIOUS
<1>1. /\ pc = "control" /\ pc' = "newline"
      /\ job' = [job EXCEPT !.offset = @ + 1, !.ret = "write"]
      /\ UNCHANGED <<buf, cursor, render_width, scroll, mode>>
  BY DEF write_newline, view
<1>2. job \in Job /\ job.offset \in Nat
  BY DEF IInv, Types, Job
<1>3. job' \in Job /\ job'.ret = "write" /\ job'.lock = job.lock
  <2>1. job.offset + 1 \in Nat
    BY <1>2
  <2>2. job' \in Job
    BY <1>1, <1>2, <2>1, JobUpdate
  <2> QED BY <1>1, <1>2, <2>2 DEF Job
<1>4. Types'
  BY <1>1, <1>3 DEF IInv, Types, PCs
<1>5. BufferOK' /\ CursorInEditable'
  BY <1>1 DEF IInv, BufferOK, CursorInEditable
<1>6. JobOK'
  BY <1>1, <1>3 DEF IInv, JobOK, InRaw, InWrite
<1> QED BY <1>4, <1>5, <1>6 DEF IInv

(* A backspace keeps the invariant: the program's line has no prefix, so   *)
(* that the cursor moves back only together with the text.                 *)
LEMMA BackspaceIInv == IInv /\ write_backspace => IInv'
<1> SUFFICES ASSUME IInv, write_backspace PROVE IInv'
  OBVIOUS
<1> DEFINE e == stredit_delete(buf.edit, cursor - 1, 1)
           k == stredit_deleted(buf.edit, cursor - 1, 1)
<1>1. /\ pc = "control" /\ pc' = "write"
      /\ IF cursor > 0 THEN buf' = [buf EXCEPT !.edit = e] /\ cursor' = cursor - 1
                       ELSE UNCHANGED <<buf, cursor>>
      /\ job' = [job EXCEPT !.offset = @ + 1]
      /\ UNCHANGED <<render_width, scroll, mode>>
  BY DEF write_backspace, last_line, view
<1>2. job \in Job /\ job.offset \in Nat
  BY DEF IInv, Types, Job
<1>3. job' \in Job /\ job'.lock = job.lock
  BY <1>1, <1>2 DEF Job
<1>4. mode = "program" /\ buf.edit.prefix = 0
  BY <1>1 DEF IInv, JobOK, InWrite, CursorInEditable
<1>5. buf' \in LineBuffer /\ cursor' \in Int /\ BufferOK' /\ CursorInEditable'
  <2>1. CASE cursor > 0
    <3>1. /\ buf \in LineBuffer /\ buf.edit \in Editor
          /\ cursor \in Nat /\ cursor <= Len(buf.edit.text)
          /\ Len(buf.edit.text) \in Nat /\ Len(buf.edit.text) <= MaxLine
      BY <1>1, LastLine
    <3>2. cursor - 1 \in Int /\ cursor - 1 <= Len(buf.edit.text) /\ buf.edit.prefix <= Len(buf.edit.text)
      BY <1>4, <3>1
    <3> HIDE DEF e, k
    <3>3. /\ e \in Editor /\ k \in Nat /\ Len(e.text) = Len(buf.edit.text) - k
          /\ e.prefix = buf.edit.prefix /\ e.raw = buf.edit.raw
          /\ cursor - 1 <= Len(e.text)
          /\ RoomForText(buf.edit) => RoomForText(e)
      <4>1. PICK p \in Int : p = cursor - 1
        BY <3>2
      <4>2. e = stredit_delete(buf.edit, p, 1) /\ k = stredit_deleted(buf.edit, p, 1)
        BY <4>1 DEF e, k
      <4>3. p <= Len(buf.edit.text) /\ 1 \in Int
        BY <3>2, <4>1
      <4> QED BY <3>1, <3>2, <4>1, <4>2, <4>3, DeleteEditor
    <3>4. /\ RoomForText(e) /\ Len(e.text) <= MaxLine /\ e.prefix <= cursor' /\ cursor' <= Len(e.text)
          /\ cursor' \in Int /\ e.prefix = 0
      BY <1>1, <1>4, <2>1, <3>1, <3>3, StrEditAssumption DEF IInv, BufferOK
    <3> QED BY <1>1, <2>1, <3>3, <3>4, EditStep
  <2>2. CASE ~(cursor > 0)
    BY <1>1, <2>2 DEF IInv, Types, BufferOK, CursorInEditable
  <2> QED BY <2>1, <2>2
<1>6. Types'
  BY <1>1, <1>3, <1>5 DEF IInv, Types, PCs
<1>7. JobOK'
  BY <1>1, <1>3 DEF IInv, JobOK, InRaw, InWrite
<1> QED BY <1>5, <1>6, <1>7 DEF IInv

(* An escape sequence keeps the invariant: the erased part starts at the   *)
(* cursor, which then moves only within what is left.                      *)
LEMMA EscapeIInv == IInv /\ write_escape => IInv'
<1> SUFFICES ASSUME IInv, write_escape PROVE IInv'
  OBVIOUS
<1> DEFINE m == Len(buf.edit.text) - cursor
           erase == At(job.out, job.offset + 1, "[", "K")
           e == IF erase THEN stredit_delete(buf.edit, cursor, m) ELSE buf.edit
           offset == job.offset + (IF erase THEN 3 ELSE 1)
           back == At(job.out, offset, SOH, "D") /\ cursor > 0
           forth == At(job.out, offset, SOH, "C") /\ cursor < Len(e.text)
<1>1. /\ pc = "control" /\ pc' = "write"
      /\ buf' = [buf EXCEPT !.edit = e]
      /\ cursor' = (IF back THEN cursor - 1 ELSE IF forth THEN cursor + 1 ELSE cursor)
      /\ job' = [job EXCEPT !.offset = offset]
      /\ UNCHANGED <<render_width, scroll, mode>>
  BY DEF write_escape, last_line, view
<1>2. job \in Job /\ job.offset \in Nat
  BY DEF IInv, Types, Job
<1>3. offset \in Nat
  BY <1>2
<1>4. mode = "program" /\ buf.edit.prefix = 0 /\ RoomForText(buf.edit)
  BY <1>1 DEF IInv, JobOK, InWrite, CursorInEditable, BufferOK
<1>5. /\ buf.edit \in Editor /\ cursor \in Nat /\ cursor <= Len(buf.edit.text)
      /\ Len(buf.edit.text) \in Nat /\ Len(buf.edit.text) <= MaxLine
  BY <1>1, LastLine
<1>6. cursor' \in {cursor - 1, cursor, cursor + 1} /\ (cursor' = cursor - 1 => cursor > 0)
      /\ (cursor' = cursor + 1 => cursor < Len(e.text))
  BY <1>1, <1>5
<1> HIDE DEF offset, back, forth
<1>7. job' \in Job /\ job'.lock = job.lock
  BY <1>1, <1>2, <1>3 DEF Job
<1>8. /\ e \in Editor /\ e.raw = buf.edit.raw /\ RoomForText(e) /\ e.prefix = 0
      /\ cursor <= Len(e.text) /\ Len(e.text) <= MaxLine /\ Len(e.text) \in Nat
  <2>1. CASE erase
    <3> DEFINE f == stredit_delete(buf.edit, cursor, m)
               k == stredit_deleted(buf.edit, cursor, m)
    <3>1. m \in Int /\ cursor \in Int /\ buf.edit.prefix <= Len(buf.edit.text)
      BY <1>4, <1>5
    <3> HIDE DEF f, k, m
    <3>2. /\ f \in Editor /\ f.raw = buf.edit.raw /\ k \in Nat
          /\ Len(f.text) = Len(buf.edit.text) - k
          /\ f.prefix = buf.edit.prefix /\ cursor <= Len(f.text)
          /\ RoomForText(buf.edit) => RoomForText(f)
      BY <1>5, <3>1, DeleteEditor DEF f, k
    <3>3. Len(f.text) <= MaxLine /\ Len(f.text) \in Nat
      BY <1>5, <3>2, StrEditAssumption
    <3>4. e = f
      BY <2>1 DEF f
    <3> HIDE DEF e
    <3> QED BY <1>4, <3>2, <3>3, <3>4
  <2>2. CASE ~erase
    BY <1>4, <1>5, <2>2
  <2> QED BY <2>1, <2>2
<1> HIDE DEF e
<1>9. cursor' \in Int /\ e.prefix <= cursor' /\ cursor' <= Len(e.text)
  BY <1>5, <1>6, <1>8
<1>10. buf' \in LineBuffer /\ BufferOK' /\ CursorInEditable'
  BY <1>1, <1>8, <1>9, EditStep
<1>11. Types'
  BY <1>1, <1>7, <1>9, <1>10 DEF IInv, Types, PCs
<1>12. JobOK'
  BY <1>1, <1>4, <1>7 DEF IInv, JobOK, InRaw, InWrite
<1> QED BY <1>10, <1>11, <1>12 DEF IInv

(* Locking the prompt keeps the invariant. *)
LEMMA LockIInv == IInv /\ console_lock_prefix => IInv'
<1> SUFFICES ASSUME IInv, console_lock_prefix PROVE IInv'
  OBVIOUS
<1> DEFINE e == stredit_set_prefix(buf.edit, cursor)
<1>1. /\ pc = "lock" /\ pc' = "idle" /\ job' = NoJob /\ mode' = job.lock
      /\ buf' = [buf EXCEPT !.edit = e]
      /\ UNCHANGED <<cursor, render_width, scroll>>
  BY DEF console_lock_prefix, last_line, view
<1>2. NoJob \in Job /\ NoJob.lock = "none" /\ job.lock \in InputModes
  BY <1>1 DEF NoJob, Job, IInv, JobOK
<1>3. /\ buf.edit \in Editor /\ cursor \in Nat /\ cursor <= Len(buf.edit.text)
      /\ Len(buf.edit.text) <= MaxLine
  BY <1>1, LastLine
<1> HIDE DEF e
<1>4. /\ e \in Editor /\ e.prefix = cursor /\ e.text = buf.edit.text
      /\ e.raw = buf.edit.raw /\ e.alloc_size = buf.edit.alloc_size
  BY <1>3, SetPrefix DEF e
<1>5. RoomForText(e)
  BY <1>4 DEF IInv, BufferOK, RoomForText
<1>6. mode' # "program" /\ cursor' \in Int /\ e.prefix <= cursor' /\ cursor' <= Len(e.text)
  BY <1>1, <1>2, <1>3, <1>4 DEF InputModes
<1>7. buf' \in LineBuffer /\ BufferOK' /\ CursorInEditable'
  BY <1>1, <1>3, <1>4, <1>5, <1>6, EditStep
<1>8. Types'
  BY <1>1, <1>2, <1>7 DEF IInv, Types, PCs
<1>9. JobOK'
  BY <1>1, <1>2 DEF JobOK, InRaw, InWrite
<1> QED BY <1>7, <1>8, <1>9 DEF IInv

-----------------------------------------------------------------------------
(* Calls *)

(* A string to write is a well-formed job. *)
LEMMA NewJob ==
    ASSUME NEW out \in Seq(Char), NEW lock \in {"none"} \cup InputModes
    PROVE  LET j == [NoJob EXCEPT !.out = out, !.lock = lock]
           IN  j \in Job /\ j.lock = lock
BY DEF NoJob, Job

(* The start of a write keeps the invariant. *)
LEMMA StartIInv ==
    ASSUME IInv, pc = "idle", mode = "program",
           NEW out \in Seq(Char), NEW lock \in {"none"} \cup InputModes,
           StartWrite(out, lock)
    PROVE  IInv'
<1>1. /\ pc' = "write" /\ job' = [NoJob EXCEPT !.out = out, !.lock = lock]
      /\ UNCHANGED <<buf, cursor, render_width, scroll, mode>>
  BY DEF StartWrite, view
<1>2. job' \in Job
  BY <1>1, NewJob
<1>3. Types' /\ BufferOK' /\ CursorInEditable'
  BY <1>1, <1>2 DEF IInv, Types, PCs, BufferOK, CursorInEditable
<1>4. JobOK'
  BY <1>1 DEF JobOK, InRaw, InWrite
<1> QED BY <1>3, <1>4 DEF IInv

(* Running a file and EXE, which start a line, keep the invariant. *)
LEMMA StartLineIInv == IInv /\ (RunFile \/ KeyExe) => IInv'
<1> SUFFICES ASSUME IInv, RunFile \/ KeyExe PROVE IInv'
  OBVIOUS
<1>1. /\ pc = "idle" /\ pc' = "newline" /\ mode' = "program"
      /\ UNCHANGED <<buf, cursor, render_width, scroll, job>>
  BY DEF RunFile, KeyExe, Typing, view
<1>2. job = NoJob /\ NoJob.ret = "idle" /\ NoJob.lock = "none"
  BY <1>1 DEF IInv, JobOK, NoJob
<1>3. Types' /\ BufferOK' /\ CursorInEditable'
  BY <1>1 DEF IInv, Types, PCs, BufferOK, CursorInEditable
<1>4. JobOK'
  BY <1>1, <1>2 DEF JobOK, InRaw, InWrite
<1> QED BY <1>3, <1>4 DEF IInv

(* What touches only the flag or the scroll position keeps the invariant. *)
LEMMA ViewIInv ==
    IInv /\ (EnterGraphics \/ (\E d \in {-1, 1} : KeyScroll(d)) \/ UNCHANGED vars) => IInv'
<1> SUFFICES ASSUME IInv,
                    EnterGraphics \/ (\E d \in {-1, 1} : KeyScroll(d)) \/ UNCHANGED vars
             PROVE  IInv'
  OBVIOUS
<1>1. UNCHANGED <<buf, cursor, render_width, mode, pc, job>> /\ scroll' \in Int
  <2>1. CASE EnterGraphics
    BY <2>1 DEF EnterGraphics, view, IInv, Types
  <2>2. CASE \E d \in {-1, 1} : KeyScroll(d)
    BY <2>2 DEF KeyScroll, IInv, Types
  <2>3. CASE UNCHANGED vars
    BY <2>3 DEF vars, IInv, Types
  <2> QED BY <2>1, <2>2, <2>3
<1>2. Types'
  BY <1>1 DEF IInv, Types
<1>3. BufferOK' /\ CursorInEditable'
  BY <1>1 DEF IInv, BufferOK, CursorInEditable
<1>4. JobOK'
  BY <1>1 DEF IInv, JobOK, InRaw, InWrite
<1> QED BY <1>2, <1>3, <1>4 DEF IInv

(* The arrow keys keep the invariant. *)
LEMMA ArrowIInv == ASSUME NEW d \in {-1, 1} PROVE IInv /\ KeyArrow(d) => IInv'
<1> SUFFICES ASSUME IInv, KeyArrow(d) PROVE IInv'
  OBVIOUS
<1>1. /\ pc = "idle" /\ cursor' = cursor + d
      /\ buf.edit.prefix <= cursor + d /\ cursor + d <= Len(buf.edit.text)
      /\ UNCHANGED <<buf, render_width, scroll, mode, pc, job>>
  BY DEF KeyArrow, Typing, console_set_cursor, last_line, view
<1>2. Types'
  BY <1>1 DEF IInv, Types
<1>3. BufferOK'
  BY <1>1 DEF IInv, BufferOK
<1>4. CursorInEditable'
  BY <1>1 DEF IInv, CursorInEditable
<1>5. JobOK'
  BY <1>1 DEF IInv, JobOK, InRaw, InWrite
<1> QED BY <1>2, <1>3, <1>4, <1>5 DEF IInv

(* DEL and AC/ON keep the invariant: stredit_delete() stops at the prompt, *)
(* and so does the cursor.                                                 *)
LEMMA EraseIInv == IInv /\ (KeyClear \/ KeyDelete) => IInv'
<1> SUFFICES ASSUME IInv, KeyClear \/ KeyDelete PROVE IInv'
  OBVIOUS
<1>1. /\ pc = "idle" /\ mode # "program"
      /\ UNCHANGED <<render_width, scroll, mode, pc, job>>
  BY DEF KeyClear, KeyDelete, Typing, InputModes, view
<1>2. /\ buf.edit \in Editor /\ cursor \in Nat /\ cursor <= Len(buf.edit.text)
      /\ buf.edit.prefix \in Nat /\ buf.edit.prefix <= cursor
      /\ Len(buf.edit.text) \in Nat /\ Len(buf.edit.text) <= MaxLine
  BY <1>1, LastLine
<1>3. RoomForText(buf.edit) /\ 1 \in Int /\ buf.edit.prefix <= Len(buf.edit.text)
  BY <1>2 DEF IInv, BufferOK
<1>4. PICK p \in Int, n \in Int :
        /\ p <= Len(buf.edit.text)
        /\ buf' = [buf EXCEPT !.edit = stredit_delete(buf.edit, p, n)]
        /\ \/ cursor' = p /\ buf.edit.prefix <= p
           \/ n = 1 /\ p = cursor - 1 /\ cursor' = cursor - stredit_deleted(buf.edit, p, n)
  <2>1. CASE KeyClear
    <3> DEFINE p == buf.edit.prefix
               n == Len(buf.edit.text) - p
    <3>1. p \in Int /\ n \in Int /\ p <= Len(buf.edit.text)
      BY <1>2
    <3>2. buf' = [buf EXCEPT !.edit = stredit_delete(buf.edit, p, n)] /\ cursor' = p
      BY <2>1 DEF KeyClear, last_line
    <3>3. buf.edit.prefix <= p
      BY <1>2
    <3> HIDE DEF p, n
    <3> QED BY <3>1, <3>2, <3>3
  <2>2. CASE KeyDelete
    <3> DEFINE p == cursor - 1
    <3>1. p \in Int /\ p <= Len(buf.edit.text) /\ p = cursor - 1
      BY <1>2
    <3>2. /\ buf' = [buf EXCEPT !.edit = stredit_delete(buf.edit, p, 1)]
          /\ cursor' = cursor - stredit_deleted(buf.edit, p, 1)
      BY <2>2 DEF KeyDelete, last_line
    <3> HIDE DEF p
    <3> QED BY <1>3, <3>1, <3>2
  <2> QED BY <2>1, <2>2
<1> DEFINE e == stredit_delete(buf.edit, p, n)
           k == stredit_deleted(buf.edit, p, n)
<1> HIDE DEF e, k
<1>5. /\ e \in Editor /\ k \in Nat /\ Len(e.text) = Len(buf.edit.text) - k
      /\ k <= Max2(0, n) /\ e.prefix <= Len(e.text) /\ p <= Len(e.text)
      /\ k > 0 => buf.edit.prefix <= p + n - k
      /\ e.prefix = buf.edit.prefix /\ e.raw = buf.edit.raw
      /\ RoomForText(buf.edit) => RoomForText(e)
  BY <1>2, <1>3, <1>4, DeleteEditor DEF e, k
<1>6. Len(e.text) <= MaxLine
  BY <1>2, <1>5, StrEditAssumption
<1>7. cursor' \in Int /\ e.prefix <= cursor' /\ cursor' <= Len(e.text)
  <2>1. CASE cursor' = p /\ buf.edit.prefix <= p
    BY <1>2, <1>5, <2>1
  <2>2. CASE n = 1 /\ p = cursor - 1 /\ cursor' = cursor - k
    BY <1>2, <1>5, <2>2 DEF Max2
  <2> QED BY <1>4, <2>1, <2>2 DEF k
<1>8. buf' \in LineBuffer /\ BufferOK' /\ CursorInEditable'
  <2>1. buf' = [buf EXCEPT !.edit = e]
    BY <1>4 DEF e
  <2> QED BY <1>1, <1>3, <1>5, <1>6, <1>7, <2>1, EditStep
<1>9. Types'
  BY <1>1, <1>7, <1>8 DEF IInv, Types
<1>10. JobOK'
  BY <1>1 DEF IInv, JobOK, InRaw, InWrite
<1> QED BY <1>8, <1>9, <1>10 DEF IInv

(* A typed character is a run of length 1, in console_write_raw(). *)
LEMMA CharIInv == ASSUME NEW c \in Keys PROVE IInv /\ KeyChar(c) => IInv'
<1> SUFFICES ASSUME IInv, KeyChar(c) PROVE IInv'
  OBVIOUS
<1>1. /\ pc = "idle" /\ pc' = "raw"
      /\ job' = [NoJob EXCEPT !.out = <<c>>, !.line = 1, !.left = 1]
      /\ UNCHANGED <<buf, cursor, render_width, scroll, mode>>
  BY DEF KeyChar, Typing, view
<1>2. c \in Char
  BY ConsoleAssumption
<1>3. /\ job'.out = <<c>> /\ job'.offset = 0 /\ job'.line = 1 /\ job'.left = 1
      /\ job'.lock = "none" /\ job'.ret = "idle" /\ job'.abs = 0
      /\ job' = [out |-> <<c>>, offset |-> 0, line |-> 1, left |-> 1,
                 ret |-> "idle", lock |-> "none", abs |-> 0]
  BY <1>1 DEF NoJob
<1>4. job' \in Job
  BY <1>2, <1>3 DEF Job
<1>5. Types' /\ BufferOK' /\ CursorInEditable'
  BY <1>1, <1>4 DEF IInv, Types, PCs, BufferOK, CursorInEditable
<1>6. Len(job'.out) = 1
  BY <1>3
<1>7. JobOK'
  BY <1>1, <1>3, <1>6 DEF JobOK, InRaw, InWrite
<1> QED BY <1>5, <1>7 DEF IInv

-----------------------------------------------------------------------------
(* Rendering *)

(* Starting a layout keeps the invariant: lazy or not, it starts at a line *)
(* that is stored.                                                         *)
LEMMA RenderIInv == ASSUME NEW w \in Widths PROVE IInv /\ Render(w) => IInv'
<1> SUFFICES ASSUME IInv, Render(w) PROVE IInv'
  OBVIOUS
<1> DEFINE a == linebuf_layout_start(buf, lazy_view(w))
<1>1. /\ pc = "idle" /\ pc' = "view" /\ render_width' = w
      /\ job' = [NoJob EXCEPT !.abs = a]
      /\ UNCHANGED <<buf, cursor, scroll, mode>>
  BY DEF Render
<1>2. w \in Nat /\ w # 0
  BY ConsoleAssumption
<1>3. a \in Nat /\ buf.absolute <= a
  <2>1. buf.absolute \in Nat /\ buf.absolute_rendered \in Nat
    BY DEF IInv, Types, LineBuffer
  <2> QED BY <2>1 DEF linebuf_layout_start, Max2
<1> HIDE DEF a
<1>4. job' \in Job /\ job'.lock = "none" /\ job'.abs = a
  <2>1. job' = [out |-> <<>>, offset |-> 0, line |-> 0, left |-> 0,
                ret |-> "idle", lock |-> "none", abs |-> a]
    BY <1>1 DEF NoJob
  <2>2. <<>> \in Seq(Char)
    OBVIOUS
  <2> QED BY <1>3, <2>1, <2>2 DEF Job
<1>5. Types' /\ BufferOK' /\ CursorInEditable'
  BY <1>1, <1>2, <1>4 DEF IInv, Types, PCs, BufferOK, CursorInEditable
<1>6. JobOK'
  BY <1>1, <1>2, <1>3, <1>4 DEF JobOK, InRaw, InWrite
<1> QED BY <1>5, <1>6 DEF IInv

(* Laying out a line keeps the invariant. *)
LEMMA LayoutIInv == IInv /\ linebuf_update_render => IInv'
<1> SUFFICES ASSUME IInv, linebuf_update_render PROVE IInv'
  OBVIOUS
<1>1. /\ pc = "view" /\ job.abs < linebuf_end(buf)
      /\ buf' = linebuf_layout_line(buf, job.abs, render_width)
      /\ job' = [job EXCEPT !.abs = @ + 1]
      /\ UNCHANGED <<cursor, render_width, scroll, mode, pc>>
  BY DEF linebuf_update_render, view
<1>2. /\ buf \in LineBuffer /\ render_width \in Nat \ {0} /\ job \in Job
      /\ job.abs \in Nat /\ buf.absolute \in Nat /\ buf.absolute <= job.abs
  BY <1>1 DEF IInv, Types, JobOK, Job, LineBuffer
<1>3. /\ buf' \in LineBuffer /\ (RingOK(buf) => RingOK(buf'))
      /\ buf'.edit.raw = buf.edit.raw /\ buf'.edit.text = buf.edit.text
      /\ buf'.edit.prefix = buf.edit.prefix /\ buf'.edit.alloc_size = buf.edit.alloc_size
      /\ buf'.size = buf.size /\ buf'.absolute = buf.absolute
  BY <1>1, <1>2, LayoutLine
<1>4. job' \in Job /\ job'.lock = job.lock /\ job'.abs = job.abs + 1
  BY <1>1, <1>2 DEF Job
<1>5. Types'
  BY <1>1, <1>3, <1>4 DEF IInv, Types
<1>6. BufferOK'
  BY <1>1, <1>3 DEF IInv, BufferOK, RoomForText
<1>7. CursorInEditable'
  BY <1>1, <1>3 DEF IInv, CursorInEditable
<1>8. JobOK'
  BY <1>1, <1>2, <1>3, <1>4 DEF IInv, JobOK, InRaw, InWrite
<1> QED BY <1>5, <1>6, <1>7, <1>8 DEF IInv

(* The end of a layout keeps the invariant. *)
LEMMA RenderEndIInv == IInv /\ render_return => IInv'
<1> SUFFICES ASSUME IInv, render_return PROVE IInv'
  OBVIOUS
<1>1. /\ pc = "view" /\ pc' = "idle" /\ job' = NoJob
      /\ buf' = linebuf_layout_end(buf) /\ scroll' = console_clamp_scrollpos(scroll)
      /\ UNCHANGED <<cursor, render_width, mode>>
  BY DEF render_return
<1>2. /\ buf \in LineBuffer /\ buf.total_rendered \in Int /\ scroll \in Int /\ Height \in Int
  BY ConsoleAssumption DEF IInv, Types, LineBuffer
<1>3. scroll' \in Int
  BY <1>1, <1>2 DEF console_clamp_scrollpos, Max2, Min2
<1>4. buf' \in LineBuffer /\ (RingOK(buf) => RingOK(buf')) /\ buf'.edit = buf.edit /\ buf'.size = buf.size
  BY <1>1, <1>2, LayoutEnd
<1>5. NoJob \in Job /\ NoJob.lock = "none"
  BY DEF NoJob, Job
<1>6. Types'
  BY <1>1, <1>3, <1>4, <1>5 DEF IInv, Types, PCs
<1>7. BufferOK' /\ CursorInEditable'
  BY <1>1, <1>4 DEF IInv, BufferOK, CursorInEditable
<1>8. JobOK'
  BY <1>1, <1>5 DEF JobOK, InRaw, InWrite
<1> QED BY <1>6, <1>7, <1>8 DEF IInv

-----------------------------------------------------------------------------
(* The theorems *)

(* Every step of the console keeps the invariant. *)
LEMMA StepIInv == IInv /\ [Next]_vars => IInv'
<1> SUFFICES ASSUME IInv, [Next]_vars PROVE IInv'
  OBVIOUS
<1>1. CASE LoopStep
  BY <1>1, NewlineIInv, CleanIInv, ReturnIInv, WriteRunIInv, WriteEndIInv, RoundIInv,
     RawReturnIInv, WriteNewlineIInv, BackspaceIInv, EscapeIInv, LockIInv,
     LayoutIInv, RenderEndIInv DEF LoopStep
<1>2. CASE \E out \in Outputs : stdouterr_write(out)
  BY <1>2, StartIInv, ConsoleAssumption DEF stdouterr_write
<1>3. CASE \E out \in Prompts, m \in InputModes : Prompt(out, m)
  BY <1>3, StartIInv, ConsoleAssumption DEF Prompt
<1>4. CASE RunFile \/ KeyExe
  BY <1>4, StartLineIInv
<1>5. CASE EnterGraphics \/ (\E d \in {-1, 1} : KeyScroll(d)) \/ UNCHANGED vars
  BY <1>5, ViewIInv
<1>6. CASE \E d \in {-1, 1} : KeyArrow(d)
  BY <1>6, ArrowIInv
<1>7. CASE KeyClear \/ KeyDelete
  BY <1>7, EraseIInv
<1>8. CASE \E c \in Keys : KeyChar(c)
  BY <1>8, CharIInv
<1>9. CASE \E w \in Widths : Render(w)
  BY <1>9, RenderIInv
<1> QED BY <1>1, <1>2, <1>3, <1>4, <1>5, <1>6, <1>7, <1>8, <1>9 DEF Next, Call

(* The invariant holds in every behaviour of the console. *)
THEOREM Invariance == Spec => []IInv
BY InitIInv, StepIInv, PTL DEF Spec

(* The type of the render flag *)
FlagOK == render_needed \in BOOLEAN

(* Every step leaves a Boolean in the render flag. *)
LEMMA FlagStep == FlagOK /\ [Next]_vars => FlagOK'
<1> SUFFICES ASSUME render_needed \in BOOLEAN, [Next]_vars PROVE render_needed' \in BOOLEAN
  BY DEF FlagOK
<1>1. CASE LoopStep
  <2>1. \/ render_needed' = render_needed \/ render_needed' = TRUE \/ render_needed' = FALSE
    BY <1>1 DEF LoopStep, console_newline, linebuf_clean_backlog, newline_return,
       console_write_run, console_write_end, console_write_raw_round,
       console_write_raw_fail, console_write_raw_return, write_newline, write_backspace,
       write_escape, console_lock_prefix, linebuf_update_render, render_return
  <2> QED BY <2>1
<1>2. CASE Call
  <2>1. \/ render_needed' = render_needed \/ render_needed' = TRUE \/ render_needed' = FALSE
    BY <1>2 DEF Call, stdouterr_write, Prompt, StartWrite, RunFile, EnterGraphics, KeyArrow,
       KeyClear, KeyDelete, KeyChar, KeyExe, KeyScroll, Render
  <2> QED BY <2>1
<1>3. CASE UNCHANGED vars
  BY <1>3 DEF vars
<1> QED BY <1>1, <1>2, <1>3 DEF Next

(***************************************************************************)
(* Every variable keeps its type: the start index of the ring stays in the *)
(* array however often it wraps, and the size never exceeds it.            *)
(***************************************************************************)
THEOREM TypeCorrect == Spec => []TypeOK
<1>1. Init => FlagOK
  BY DEF Init, FlagOK
<1>2. Spec => []FlagOK
  BY <1>1, FlagStep, PTL DEF Spec
<1>3. IInv /\ FlagOK => TypeOK
  BY DEF IInv, Types, TypeOK, FlagOK
<1> QED BY <1>2, <1>3, Invariance, PTL

(***************************************************************************)
(* The cursor is in the editable part of the last line, for programs and   *)
(* users that write, erase, move and split in any order.                   *)
(***************************************************************************)
THEOREM CursorKept == Spec => []CursorInEditable
<1>1. IInv => CursorInEditable
  BY DEF IInv
<1> QED BY <1>1, Invariance, PTL

(***************************************************************************)
(* The editor's block is never too small for its text and the NUL, however *)
(* the text grows and whichever reallocations fail.                        *)
(***************************************************************************)
THEOREM BlockFits == Spec => []BlockLargeEnough
<1>1. IInv => BlockLargeEnough
  BY DEF IInv, BufferOK, RoomForText, BlockLargeEnough
<1> QED BY <1>1, Invariance, PTL

(***************************************************************************)
(* The frozen lines are exactly the live pointers of the array, for a ring *)
(* of any size in any rotation: nothing leaks, nothing freed is reachable. *)
(***************************************************************************)
THEOREM RingOwned == Spec => []RingOwnership
<1>1. IInv => RingOwnership
  <2> SUFFICES ASSUME IInv PROVE RingOwnership
    OBVIOUS
  <2>1. /\ buf \in LineBuffer /\ buf.size \in 0..Capacity /\ Capacity \in Nat \ {0}
        /\ RingOK(buf) /\ (buf.size = 0 => pc = "newline")
    BY LineBufAssumption DEF IInv, Types, LineBuffer, BufferOK
  <2>2. ASSUME NEW ix \in Slots
        PROVE  buf.lines[ix].ptr = "live" <=> ix \in FrozenSlots
    <3>1. PICK n \in 0..(Capacity - 1) : ix = linebuf_nth_to_index(buf, n)
      BY <2>1, IndexBijection
    <3>2. buf.lines[ix].ptr = "live" <=> n < buf.size - 1
      BY <2>1, <3>1 DEF RingOK, LiveBelow
    <3>3. ix \in FrozenSlots <=> n < buf.size - 1
      <4>1. ASSUME n < buf.size - 1 PROVE ix \in FrozenSlots
        <5>1. n \in 0..(buf.size - 2)
          BY <2>1, <4>1
        <5> QED BY <3>1, <5>1 DEF FrozenSlots
      <4>2. ASSUME ix \in FrozenSlots PROVE n < buf.size - 1
        <5>1. PICK m \in 0..(buf.size - 2) : ix = linebuf_nth_to_index(buf, m)
          BY <4>2 DEF FrozenSlots
        <5>2. m \in 0..(Capacity - 1) /\ m < buf.size - 1
          BY <2>1
        <5>3. linebuf_nth_to_index(buf, m) = linebuf_nth_to_index(buf, n)
          BY <3>1, <5>1
        <5>4. \A x, y \in 0..(Capacity - 1) :
                linebuf_nth_to_index(buf, x) = linebuf_nth_to_index(buf, y) => x = y
          BY <2>1, IndexBijection
        <5>5. m = n
          BY <5>2, <5>3, <5>4
        <5> QED BY <5>2, <5>5
      <4> QED BY <4>1, <4>2
    <3> QED BY <3>2, <3>3
  <2>3. FrozenSlots \subseteq Slots
    <3> SUFFICES ASSUME NEW m \in 0..(buf.size - 2)
                 PROVE  linebuf_nth_to_index(buf, m) \in Slots
      BY DEF FrozenSlots
    <3>1. m \in 0..Capacity
      BY <2>1
    <3> QED BY <2>1, <3>1, IndexValue
  <2>4. {ix \in Slots : buf.lines[ix].ptr = "live"} = FrozenSlots
    BY <2>2, <2>3
  <2> QED BY <2>1, <2>4 DEF RingOwnership, RingOK, NullAt
<1> QED BY <1>1, Invariance, PTL

(* The first q characters of a text do not depend on what follows them. *)
LEMMA HeadOfConcat ==
    ASSUME NEW S, NEW s \in Seq(S), NEW t \in Seq(S), NEW p \in 0..Len(s), NEW q \in 0..p
    PROVE  SubSeq(SubSeq(s, 1, p) \o t, 1, q) = SubSeq(s, 1, q)
<1> DEFINE a == SubSeq(s, 1, p)
           u == a \o t
<1>1. a \in Seq(S) /\ Len(a) = p /\ \A j \in 1..p : a[j] = s[j]
  OBVIOUS
<1> HIDE DEF a
<1>2. u \in Seq(S) /\ Len(u) = p + Len(t) /\ \A j \in 1..p : u[j] = a[j]
  <2>1. /\ u \in Seq(S) /\ Len(u) = Len(a) + Len(t)
        /\ \A j \in 1..(Len(a) + Len(t)) : u[j] = IF j <= Len(a) THEN a[j] ELSE t[j - Len(a)]
    BY <1>1, ConcatProperties
  <2>2. Len(t) \in Nat
    OBVIOUS
  <2> HIDE DEF u
  <2> QED BY <1>1, <2>1, <2>2
<1> HIDE DEF u
<1>3. /\ SubSeq(u, 1, q) \in Seq(S) /\ Len(SubSeq(u, 1, q)) = q
      /\ \A j \in 1..q : SubSeq(u, 1, q)[j] = u[j]
  BY <1>2
<1>4. /\ SubSeq(s, 1, q) \in Seq(S) /\ Len(SubSeq(s, 1, q)) = q
      /\ \A j \in 1..q : SubSeq(s, 1, q)[j] = s[j]
  OBVIOUS
<1>5. \A j \in 1..q : SubSeq(u, 1, q)[j] = SubSeq(s, 1, q)[j]
  BY <1>1, <1>2, <1>3, <1>4
<1> QED BY <1>3, <1>4, <1>5, SeqEqual DEF u, a

(* stredit_insert() behind the prefix keeps the prompt. *)
LEMMA InsertPrompt ==
    ASSUME NEW ed \in Editor, NEW p \in Int, NEW s \in Seq(Char), ed.prefix <= p,
           stredit_can_insert(ed, p, Len(s))
    PROVE  SamePrompt(ed, stredit_insert(ed, p, s))
<1> DEFINE rest == SubSeq(ed.text, p + 1, Len(ed.text))
           e == stredit_insert(ed, p, s)
<1>1. /\ ed.text \in Seq(Char) /\ ed.prefix \in Nat /\ Len(ed.text) \in Nat
      /\ p \in 0..Len(ed.text) /\ ed.prefix \in 0..p
  BY DEF Editor, stredit_can_insert
<1>2. /\ e.prefix = ed.prefix /\ Len(e.text) = Len(ed.text) + Len(s) /\ Len(s) \in Nat
  BY InsertEditor
<1>3. e.text = (SubSeq(ed.text, 1, p) \o s) \o rest
  BY DEF stredit_insert, Editor
<1>4. rest \in Seq(Char)
  BY <1>1
<1> HIDE DEF rest, e
<1>5. (SubSeq(ed.text, 1, p) \o s) \o rest = SubSeq(ed.text, 1, p) \o (s \o rest) /\ s \o rest \in Seq(Char)
  <2> DEFINE head == SubSeq(ed.text, 1, p)
  <2>1. head \in Seq(Char)
    BY <1>1
  <2>2. s \o rest \in Seq(Char)
    BY <1>4, ConcatProperties
  <2> HIDE DEF head
  <2>3. (head \o s) \o rest = head \o (s \o rest)
    BY <1>4, <2>1, ConcatAssociative
  <2> QED BY <2>2, <2>3 DEF head
<1>6. SubSeq(e.text, 1, ed.prefix) = SubSeq(ed.text, 1, ed.prefix)
  BY <1>1, <1>3, <1>5, HeadOfConcat
<1> QED BY <1>1, <1>2, <1>6 DEF SamePrompt, e

(* stredit_delete() keeps the prompt, whatever it is asked to delete. *)
LEMMA DeletePrompt ==
    ASSUME NEW ed \in Editor, ed.prefix <= Len(ed.text),
           NEW p \in Int, p <= Len(ed.text), NEW n \in Int
    PROVE  SamePrompt(ed, stredit_delete(ed, p, n))
<1> DEFINE q == Max2(p, ed.prefix)
           k == stredit_deleted(ed, p, n)
           rest == SubSeq(ed.text, q + k + 1, Len(ed.text))
           e == stredit_delete(ed, p, n)
<1>1. ed.text \in Seq(Char) /\ ed.prefix \in Nat /\ Len(ed.text) \in Nat
  BY DEF Editor
<1>2. q \in 0..Len(ed.text) /\ ed.prefix \in 0..q
  BY <1>1 DEF Max2
<1>3. k \in Nat /\ e.prefix = ed.prefix /\ e.prefix <= Len(e.text)
  BY DeleteEditor
<1>4. e.text = SubSeq(ed.text, 1, q) \o rest
  BY DEF stredit_delete, Editor
<1> HIDE DEF q, k
<1>5. rest \in Seq(Char)
  <2>1. q + k \in Nat
    BY <1>2, <1>3
  <2> QED BY <1>1, <2>1, PieceType
<1> HIDE DEF rest, e
<1>6. SubSeq(e.text, 1, ed.prefix) = SubSeq(ed.text, 1, ed.prefix)
  BY <1>1, <1>2, <1>4, <1>5, HeadOfConcat
<1> QED BY <1>3, <1>6 DEF SamePrompt, e

-----------------------------------------------------------------------------
(* What a step may do to the line buffer *)

(* An edit of the last line that keeps the prompt *)
EditOf(ed, e) ==
    /\ e \in Editor /\ e.raw = ed.raw /\ e.rows = ed.rows
    /\ Len(e.text) <= MaxLine
    /\ SamePrompt(ed, e)

(* A step that edits the last line; only console_lock_prefix() at the end  *)
(* of the program's prompt may change the prefix.                          *)
EditsLine ==
    /\ pc \notin {"newline", "clean", "view"} /\ pc' \notin {"clean", "view"}
    /\ \E e \in Editor :
         /\ buf' = [buf EXCEPT !.edit = e]
         /\ e.raw = buf.edit.raw /\ e.rows = buf.edit.rows /\ Len(e.text) <= MaxLine
         /\ mode # "program" => SamePrompt(buf.edit, e)
    /\ UNCHANGED render_width

(* A step outside console_newline() and the layout that leaves it alone *)
KeepsBuffer ==
    /\ pc \notin {"newline", "clean", "view"} /\ pc' \notin {"clean", "view"}
    /\ UNCHANGED <<buf, render_width>>

(* All the steps, by what they do to the buffer *)
BufferStep ==
    \/ console_newline \/ linebuf_clean_backlog \/ newline_return
    \/ EditsLine
    \/ KeepsBuffer
    \/ \E w \in Widths : Render(w)
    \/ linebuf_update_render \/ render_return
    \/ UNCHANGED vars

(* stredit_delete() is an edit of the line that keeps the prompt. *)
LEMMA DeleteEdits ==
    ASSUME NEW ed \in Editor, ed.prefix <= Len(ed.text), Len(ed.text) <= MaxLine,
           NEW p \in Int, p <= Len(ed.text), NEW n \in Int
    PROVE  EditOf(ed, stredit_delete(ed, p, n))
<1> DEFINE e == stredit_delete(ed, p, n)
           k == stredit_deleted(ed, p, n)
<1>1. /\ e \in Editor /\ k \in Nat /\ Len(e.text) = Len(ed.text) - k
      /\ e.raw = ed.raw /\ e.rows = ed.rows
  BY DeleteEditor
<1>2. SamePrompt(ed, e)
  BY DeletePrompt
<1>3. Len(ed.text) \in Nat /\ MaxLine \in Nat
  BY StrEditAssumption DEF Editor
<1> HIDE DEF e, k
<1>4. Len(e.text) <= MaxLine
  BY <1>1, <1>3
<1> QED BY <1>1, <1>2, <1>4 DEF EditOf, e

(* A round of console_write_raw() writes as many characters as it counts, *)
(* and they fit.                                                           *)
LEMMA RoundFits ==
    ASSUME IInv, console_write_raw_round
    PROVE  /\ RoundText \in Seq(Char) /\ Len(RoundText) = RoundSize
           /\ stredit_can_insert(buf.edit, cursor, Len(RoundText))
<1> DEFINE n == RoundSize
           t == RoundText
           q == job.offset + n
<1>1. pc = "raw" /\ stredit_can_insert(buf.edit, cursor, n)
  BY DEF console_write_raw_round, last_line
<1>2. /\ job.out \in Seq(Char) /\ job.offset \in Nat
      /\ job.line \in Nat /\ job.left \in Nat /\ Len(job.out) \in Nat
  BY DEF IInv, Types, Job
<1>3. job.left <= job.line /\ job.offset + job.line <= Len(job.out)
  BY <1>1 DEF IInv, JobOK, InRaw
<1>4. Len(buf.edit.text) \in Nat /\ Len(buf.edit.text) <= MaxLine /\ MaxLine \in Nat
  BY <1>1, LastLine, StrEditAssumption
<1>5. n \in Nat /\ n <= job.left
  BY <1>2, <1>4 DEF RoundSize, Min2, stredit_capacity, last_line
<1>6. q <= Len(job.out) /\ q \in Int /\ q - job.offset = n /\ (job.offset + 1 <= q <=> n > 0)
  BY <1>2, <1>3, <1>5
<1>7. t = SubSeq(job.out, job.offset + 1, q)
  BY DEF RoundText
<1> HIDE DEF n, t, q
<1>8. /\ SubSeq(job.out, job.offset + 1, q) \in Seq(Char)
      /\ Len(SubSeq(job.out, job.offset + 1, q)) = IF job.offset + 1 <= q THEN q - job.offset ELSE 0
  BY <1>2, <1>6, PieceType
<1>9. Len(t) = IF n > 0 THEN n ELSE 0
  BY <1>6, <1>7, <1>8
<1> QED BY <1>1, <1>5, <1>7, <1>8, <1>9 DEF n, t

(* The rounds of console_write_raw() edit the line. *)
LEMMA RoundEdits == IInv /\ console_write_raw_round => EditsLine
<1> SUFFICES ASSUME IInv, console_write_raw_round PROVE EditsLine
  OBVIOUS
<1> DEFINE e == stredit_insert(buf.edit, cursor, RoundText)
<1>1. /\ pc = "raw" /\ pc' \in {"newline", "raw"}
      /\ buf' = [buf EXCEPT !.edit = e] /\ UNCHANGED render_width
  BY DEF console_write_raw_round, last_line, view
<1>2. /\ buf.edit \in Editor /\ cursor \in Int /\ buf.edit.prefix <= cursor
  BY <1>1, LastLine
<1>3. RoundText \in Seq(Char) /\ stredit_can_insert(buf.edit, cursor, Len(RoundText))
  BY RoundFits
<1>4. /\ e \in Editor /\ Len(e.text) <= MaxLine /\ e.raw = buf.edit.raw /\ e.rows = buf.edit.rows
  BY <1>2, <1>3, InsertEditor
<1>5. SamePrompt(buf.edit, e)
  BY <1>2, <1>3, InsertPrompt
<1> HIDE DEF e
<1> QED BY <1>1, <1>4, <1>5 DEF EditsLine

(* Backspaces and escape sequences edit the line or move the cursor. *)
LEMMA ControlEdits ==
    IInv /\ (write_backspace \/ write_escape) => EditsLine \/ KeepsBuffer
<1> SUFFICES ASSUME IInv, write_backspace \/ write_escape PROVE EditsLine \/ KeepsBuffer
  OBVIOUS
<1>1. pc = "control" /\ pc' = "write" /\ UNCHANGED render_width
  BY DEF write_backspace, write_escape, view
<1>2. /\ buf.edit \in Editor /\ cursor \in Nat /\ cursor <= Len(buf.edit.text)
      /\ buf.edit.prefix \in Nat /\ buf.edit.prefix <= cursor
      /\ Len(buf.edit.text) \in Nat /\ Len(buf.edit.text) <= MaxLine
      /\ buf \in LineBuffer
  BY <1>1, LastLine
<1>3. CASE UNCHANGED buf
  BY <1>1, <1>3 DEF KeepsBuffer
<1>4. ASSUME NEW p \in Int, p <= Len(buf.edit.text), NEW n \in Int,
             buf' = [buf EXCEPT !.edit = stredit_delete(buf.edit, p, n)]
      PROVE  EditsLine
  <2> DEFINE e == stredit_delete(buf.edit, p, n)
  <2>1. EditOf(buf.edit, e)
    <3>1. buf.edit.prefix <= Len(buf.edit.text)
      BY <1>2
    <3> QED BY <1>2, <1>4, <3>1, DeleteEdits
  <2>2. buf' = [buf EXCEPT !.edit = e]
    BY <1>4
  <2> HIDE DEF e
  <2> QED BY <1>1, <2>1, <2>2 DEF EditOf, EditsLine
<1>5. CASE write_backspace
  <2>1. cursor - 1 \in Int /\ cursor - 1 <= Len(buf.edit.text) /\ 1 \in Int
    BY <1>2
  <2>2. UNCHANGED buf \/ buf' = [buf EXCEPT !.edit = stredit_delete(buf.edit, cursor - 1, 1)]
    BY <1>5 DEF write_backspace, last_line
  <2> QED BY <1>3, <1>4, <2>1, <2>2
<1>6. CASE write_escape
  <2> DEFINE m == Len(buf.edit.text) - cursor
  <2>1. m \in Int /\ cursor \in Int
    BY <1>2
  <2>2. \/ buf' = [buf EXCEPT !.edit = buf.edit]
        \/ buf' = [buf EXCEPT !.edit = stredit_delete(buf.edit, cursor, m)]
    BY <1>6 DEF write_escape, last_line
  <2>3. [buf EXCEPT !.edit = buf.edit] = buf
    BY <1>2 DEF LineBuffer
  <2> HIDE DEF m
  <2> QED BY <1>2, <1>3, <1>4, <2>1, <2>2, <2>3
<1> QED BY <1>5, <1>6

(* Locking the prompt, DEL and AC/ON edit the line. *)
LEMMA KeyEdits ==
    IInv /\ (console_lock_prefix \/ KeyClear \/ KeyDelete) => EditsLine
<1> SUFFICES ASSUME IInv, console_lock_prefix \/ KeyClear \/ KeyDelete PROVE EditsLine
  OBVIOUS
<1>1. pc \in {"lock", "idle"} /\ pc' = "idle" /\ UNCHANGED render_width
  BY DEF console_lock_prefix, KeyClear, KeyDelete, Typing, view
<1>2. /\ buf.edit \in Editor /\ cursor \in Nat /\ cursor <= Len(buf.edit.text)
      /\ buf.edit.prefix \in Nat /\ buf.edit.prefix <= cursor
      /\ Len(buf.edit.text) \in Nat /\ Len(buf.edit.text) <= MaxLine
  BY <1>1, LastLine
<1>3. CASE console_lock_prefix
  <2> DEFINE e == stredit_set_prefix(buf.edit, cursor)
  <2>1. mode = "program" /\ buf' = [buf EXCEPT !.edit = e]
    BY <1>3 DEF console_lock_prefix, IInv, JobOK, InWrite, last_line
  <2>2. /\ e \in Editor /\ e.text = buf.edit.text
        /\ e.raw = buf.edit.raw /\ e.rows = buf.edit.rows
    BY <1>2, SetPrefix
  <2> HIDE DEF e
  <2> QED BY <1>1, <1>2, <2>1, <2>2 DEF EditsLine
<1>4. ASSUME NEW p \in Int, p <= Len(buf.edit.text), NEW n \in Int,
             buf' = [buf EXCEPT !.edit = stredit_delete(buf.edit, p, n)]
      PROVE  EditsLine
  <2> DEFINE e == stredit_delete(buf.edit, p, n)
  <2>1. EditOf(buf.edit, e)
    <3>1. buf.edit.prefix <= Len(buf.edit.text)
      BY <1>2
    <3> QED BY <1>2, <1>4, <3>1, DeleteEdits
  <2>2. buf' = [buf EXCEPT !.edit = e]
    BY <1>4
  <2> HIDE DEF e
  <2> QED BY <1>1, <2>1, <2>2 DEF EditOf, EditsLine
<1>5. CASE KeyClear
  <2> DEFINE n == Len(buf.edit.text) - buf.edit.prefix
  <2>1. n \in Int /\ buf.edit.prefix \in Int /\ buf.edit.prefix <= Len(buf.edit.text)
    BY <1>2
  <2>2. buf' = [buf EXCEPT !.edit = stredit_delete(buf.edit, buf.edit.prefix, n)]
    BY <1>5 DEF KeyClear, last_line
  <2> HIDE DEF n
  <2> QED BY <1>4, <2>1, <2>2
<1>6. CASE KeyDelete
  <2>1. cursor - 1 \in Int /\ cursor - 1 <= Len(buf.edit.text) /\ 1 \in Int
    BY <1>2
  <2>2. buf' = [buf EXCEPT !.edit = stredit_delete(buf.edit, cursor - 1, 1)]
    BY <1>6 DEF KeyDelete, last_line
  <2> QED BY <1>4, <2>1, <2>2
<1> QED BY <1>3, <1>5, <1>6

(* Every step of the console is one of these. *)
LEMMA StepOfBuffer == IInv /\ [Next]_vars => BufferStep
<1> SUFFICES ASSUME IInv, [Next]_vars PROVE BufferStep
  OBVIOUS
<1>1. CASE console_write_raw_round
  BY <1>1, RoundEdits DEF BufferStep
<1>2. CASE write_backspace \/ write_escape
  BY <1>2, ControlEdits DEF BufferStep
<1>3. CASE console_lock_prefix \/ KeyClear \/ KeyDelete
  BY <1>3, KeyEdits DEF BufferStep
<1>4. CASE \/ console_write_run \/ console_write_end \/ console_write_raw_fail
           \/ console_write_raw_return \/ write_newline
  <2>1. pc \in {"write", "raw", "control"} /\ UNCHANGED <<buf, render_width>>
    BY <1>4 DEF console_write_run, console_write_end, console_write_raw_fail,
       console_write_raw_return, write_newline, view
  <2>2. pc' \notin {"clean", "view"}
    BY <1>4 DEF console_write_run, console_write_end, console_write_raw_fail,
       console_write_raw_return, write_newline, WriteReturn
  <2> QED BY <2>1, <2>2 DEF KeepsBuffer, BufferStep
<1>5. CASE \/ \E out \in Outputs : stdouterr_write(out)
           \/ \E out \in Prompts, m \in InputModes : Prompt(out, m)
           \/ RunFile \/ EnterGraphics \/ KeyExe
           \/ \E d \in {-1, 1} : KeyArrow(d)
           \/ \E c \in Keys : KeyChar(c)
           \/ \E d \in {-1, 1} : KeyScroll(d)
  <2>1. pc = "idle" /\ pc' \notin {"clean", "view"} /\ UNCHANGED <<buf, render_width>>
    BY <1>5 DEF stdouterr_write, Prompt, StartWrite, RunFile, EnterGraphics, KeyArrow,
       KeyChar, KeyExe, KeyScroll, Typing, view
  <2> QED BY <2>1 DEF KeepsBuffer, BufferStep
<1> QED
  BY <1>1, <1>2, <1>3, <1>4, <1>5 DEF Next, LoopStep, Call, BufferStep

-----------------------------------------------------------------------------

(* Every step keeps the prompt of a line that the user edits. *)
LEMMA StepKeepsPrompt ==
    ASSUME IInv, [Next]_vars, mode \in InputModes,
           linebuf_end(buf)' = linebuf_end(buf), pc # "newline"
    PROVE  SamePrompt(buf.edit, buf.edit')
<1>1. /\ buf \in LineBuffer /\ buf.edit \in Editor /\ buf.size > 0
      /\ cursor \in Nat /\ cursor <= Len(buf.edit.text)
      /\ buf.edit.prefix \in Nat /\ buf.edit.prefix <= cursor
      /\ Len(buf.edit.text) \in Nat
  BY LastLine
<1>2. SamePrompt(buf.edit, buf.edit)
  BY <1>1 DEF SamePrompt
<1>3. CASE buf'.edit = buf.edit
  BY <1>2, <1>3
<1>4. CASE EditsLine
  <2>1. PICK e \in Editor : buf' = [buf EXCEPT !.edit = e] /\ SamePrompt(buf.edit, e)
    BY <1>4 DEF EditsLine, InputModes
  <2>2. buf'.edit = e
    BY <1>1, <2>1, EditLast DEF LineBuffer
  <2> QED BY <2>1, <2>2
<1>5. CASE linebuf_update_render
  <2>1. buf'.edit.text = buf.edit.text /\ buf'.edit.prefix = buf.edit.prefix
    <3>1. /\ pc = "view" /\ job.abs < linebuf_end(buf)
          /\ buf' = linebuf_layout_line(buf, job.abs, render_width)
      BY <1>5 DEF linebuf_update_render
    <3>2. render_width \in Nat \ {0} /\ job.abs \in Nat /\ buf.absolute <= job.abs
      BY <3>1 DEF IInv, Types, JobOK, Job
    <3> QED BY <1>1, <3>1, <3>2, LayoutLine
  <2> QED BY <1>2, <2>1 DEF SamePrompt
<1>6. CASE linebuf_clean_backlog
  <2>1. buf.size > 1 /\ buf' = linebuf_recycle_oldest_line(buf)
    BY <1>6 DEF linebuf_clean_backlog, linebuf_over_backlog
  <2> QED BY <1>1, <1>3, <2>1, RecycleFields
<1>7. CASE render_return
  BY <1>1, <1>3, <1>7, LayoutEnd DEF render_return
<1>8. CASE newline_return \/ KeepsBuffer \/ (\E w \in Widths : Render(w)) \/ UNCHANGED vars
  <2>1. buf' = buf
    BY <1>8 DEF newline_return, KeepsBuffer, Render, vars
  <2> QED BY <1>3, <2>1
<1>9. CASE console_newline
  BY <1>9 DEF console_newline
<1>10. BufferStep
  BY StepOfBuffer
<1> QED BY <1>4, <1>5, <1>6, <1>7, <1>8, <1>9, <1>10 DEF BufferStep

(***************************************************************************)
(* What the user types, deletes and clears never changes the prompt, for   *)
(* prompts and lines of any length.                                        *)
(***************************************************************************)
THEOREM PromptIsKept == Spec => PromptKept
<1>1. ASSUME IInv, [Next]_vars
      PROVE  [(mode \in InputModes /\ mode' = mode /\ linebuf_end(buf)' = linebuf_end(buf))
                => SamePrompt(buf.edit, buf.edit')]_vars
  <2>1. CASE UNCHANGED vars
    BY <2>1
  <2>2. CASE pc # "newline"
    BY <1>1, <2>2, StepKeepsPrompt
  <2>3. CASE pc = "newline" /\ Next
    <3>1. console_newline
      BY <2>3 DEF Next, LoopStep, Call, console_newline, linebuf_clean_backlog, newline_return,
       console_write_run, console_write_end, console_write_raw_round,
       console_write_raw_fail, console_write_raw_return, write_newline, write_backspace,
       write_escape, console_lock_prefix, linebuf_update_render, render_return,
       stdouterr_write, Prompt, RunFile, EnterGraphics, KeyArrow,
       KeyClear, KeyDelete, KeyChar, KeyExe, KeyScroll, Render, Typing
    <3>2. linebuf_end(buf') = linebuf_end(buf) + 1 /\ linebuf_end(buf) \in Nat
      <4>1. buf \in LineBuffer /\ RingOK(buf)
        BY <1>1 DEF IInv, Types, BufferOK
      <4>2. linebuf_end(buf) \in Nat
        BY <4>1, LineBufAssumption DEF LineBuffer, linebuf_end
      <4> QED BY <3>1, <4>1, <4>2, NewlineRing DEF console_newline
    <3> QED BY <3>2
  <2> QED BY <1>1, <2>1, <2>2, <2>3
<1> QED BY <1>1, Invariance, PTL DEF Spec, PromptKept

-----------------------------------------------------------------------------
(* The layout *)

(* Line abs has the row count of its text, w columns wide *)
FreshLine(b, abs, w) == linebuf_get_line(b, abs).rows = Rows(linebuf_get_line(b, abs).text, w)

(* The lines numbered below n are laid out for w columns *)
FreshBelow(b, n, w) == \A abs \in b.absolute..(linebuf_end(b) - 1) : abs < n => FreshLine(b, abs, w)

(* The inductive form of LayoutFresh: before the first line, too, nothing  *)
(* counts as rendered that does not exist.                                 *)
LayoutInv ==
    /\ FreshBelow(buf, LaidOutBefore, render_width)
    /\ buf.absolute_rendered < linebuf_end(buf)
    /\ buf.size > 0 => buf.absolute_rendered < linebuf_end(buf) - 1

(* Lines that a step keeps stay laid out. *)
LEMMA StillFresh ==
    ASSUME NEW b, NEW r, NEW n \in Int, NEW w,
           b.absolute \in Nat, b.size \in Nat, r.absolute \in Nat, r.size \in Nat,
           b.absolute <= r.absolute, n < linebuf_end(b), FreshBelow(b, n, w),
           SameLines(b, r, r.absolute..(n - 1))
    PROVE  FreshBelow(r, n, w)
<1> SUFFICES ASSUME NEW abs \in r.absolute..(linebuf_end(r) - 1), abs < n
             PROVE  FreshLine(r, abs, w)
  BY DEF FreshBelow
<1>1. abs \in r.absolute..(n - 1) /\ abs \in b.absolute..(linebuf_end(b) - 1)
  BY DEF linebuf_end
<1> QED BY <1>1 DEF FreshBelow, FreshLine, SameLines

(* A new line, a dropped line or an edit of the last one keeps the layout. *)
LEMMA ChangeKeepsLayout ==
    ASSUME IInv, IInv', LayoutInv, console_newline \/ linebuf_clean_backlog \/ EditsLine
    PROVE  LayoutInv'
<1> DEFINE n == buf.absolute_rendered + 1
<1>1. /\ buf \in LineBuffer /\ buf' \in LineBuffer /\ RingOK(buf)
      /\ buf.absolute \in Nat /\ buf.size \in Nat /\ buf.absolute_rendered \in Nat
      /\ buf'.absolute \in Nat /\ buf'.size \in Nat
  BY LineBufAssumption DEF IInv, Types, BufferOK, LineBuffer
<1>2. /\ pc # "view" /\ pc' # "view" /\ render_width' = render_width
  BY DEF console_newline, linebuf_clean_backlog, EditsLine, view
<1>3. /\ buf'.absolute_rendered = buf.absolute_rendered
      /\ buf.absolute <= buf'.absolute
      /\ linebuf_end(buf') >= linebuf_end(buf)
      /\ buf'.size > 0 => buf.absolute_rendered < linebuf_end(buf') - 1
      /\ SameLines(buf, buf', buf'.absolute..(n - 1))
  <2>1. CASE console_newline
    <3>1. buf' = linebuf_newline(buf)
      BY <2>1 DEF console_newline
    <3>2. /\ linebuf_end(buf') = linebuf_end(buf) + 1
          /\ buf'.absolute_rendered = buf.absolute_rendered
      BY <1>1, <3>1, NewlineRing
    <3>3. SameLines(buf, buf', buf'.absolute..(linebuf_end(buf) - 1))
      BY <1>1, <3>1, NewlineLines
    <3>4. buf.absolute <= buf'.absolute
      <4>1. buf.size < Capacity \/ buf.size = Capacity
        BY <1>1, LineBufAssumption DEF LineBuffer
      <4>2. buf'.absolute = buf.absolute \/ buf'.absolute = buf.absolute + 1
        BY <1>1, <3>1, <4>1, NewlineLines
      <4> QED BY <1>1, <4>2
    <3>5. n - 1 <= linebuf_end(buf) - 1 /\ buf.absolute_rendered < linebuf_end(buf)
      BY <1>1 DEF LayoutInv, linebuf_end
    <3>6. \A abs \in buf'.absolute..(n - 1) : abs \in buf'.absolute..(linebuf_end(buf) - 1)
      BY <1>1, <3>5 DEF linebuf_end
    <3>7. linebuf_end(buf) \in Nat
      BY <1>1 DEF linebuf_end
    <3> QED BY <1>1, <3>2, <3>3, <3>4, <3>5, <3>6, <3>7 DEF SameLines
  <2>2. CASE linebuf_clean_backlog
    <3>1. buf' = linebuf_recycle_oldest_line(buf) /\ buf.size > 1 /\ buf.size > 0
      BY <1>1, <2>2 DEF linebuf_clean_backlog, linebuf_over_backlog
    <3>2. /\ buf'.absolute_rendered = buf.absolute_rendered
          /\ buf'.absolute = buf.absolute + 1 /\ buf'.size = buf.size - 1
      BY <1>1, <3>1, RecycleFields
    <3>3. SameLines(buf, buf', (buf.absolute + 1)..(linebuf_end(buf) - 1))
      BY <1>1, <3>1, RecycleLines
    <3>4. linebuf_end(buf') = linebuf_end(buf) /\ buf.absolute_rendered < linebuf_end(buf) - 1
      BY <1>1, <3>1, <3>2 DEF LayoutInv, linebuf_end
    <3>5. \A abs \in buf'.absolute..(n - 1) : abs \in (buf.absolute + 1)..(linebuf_end(buf) - 1)
      BY <1>1, <3>2, <3>4 DEF linebuf_end
    <3>6. linebuf_end(buf) \in Nat
      BY <1>1 DEF linebuf_end
    <3> QED BY <1>1, <3>2, <3>3, <3>4, <3>5, <3>6 DEF SameLines
  <2>3. CASE EditsLine
    <3>1. PICK e \in Editor : buf' = [buf EXCEPT !.edit = e] /\ e.raw = buf.edit.raw /\ pc # "newline"
      BY <2>3 DEF EditsLine
    <3>2. /\ buf'.absolute_rendered = buf.absolute_rendered
          /\ buf'.absolute = buf.absolute /\ buf'.size = buf.size
      BY <1>1, <3>1, EditLast
    <3>3. SameLines(buf, buf', buf.absolute..(linebuf_end(buf) - 2))
      BY <1>1, <3>1, EditLines
    <3>4. linebuf_end(buf') = linebuf_end(buf) /\ buf.absolute_rendered < linebuf_end(buf) - 1
      BY <1>1, <3>1, <3>2, LastLine DEF LayoutInv, linebuf_end
    <3>5. \A abs \in buf'.absolute..(n - 1) : abs \in buf.absolute..(linebuf_end(buf) - 2)
      BY <1>1, <3>2, <3>4 DEF linebuf_end
    <3>6. linebuf_end(buf) \in Nat
      BY <1>1 DEF linebuf_end
    <3> QED BY <1>1, <3>2, <3>3, <3>4, <3>5, <3>6 DEF SameLines
  <2> QED BY <2>1, <2>2, <2>3
<1>4. FreshBelow(buf', n, render_width)
  <2>1. FreshBelow(buf, n, render_width) /\ n \in Int
    BY <1>1, <1>2 DEF LayoutInv, LaidOutBefore
  <2>2. CASE n < linebuf_end(buf)
    <3> HIDE DEF n
    <3> QED BY <1>1, <1>3, <2>1, <2>2, StillFresh
  <2>3. CASE ~(n < linebuf_end(buf))
    <3>1. buf.size = 0 /\ n = linebuf_end(buf)
      BY <1>1, <2>3 DEF LayoutInv, linebuf_end
    <3>2. \A abs \in buf'.absolute..(linebuf_end(buf') - 1) : ~(abs < n)
      BY <1>1, <1>3, <3>1 DEF linebuf_end
    <3> QED BY <3>2 DEF FreshBelow
  <2> QED BY <2>2, <2>3
<1>5. LaidOutBefore' = n
  BY <1>2, <1>3 DEF LaidOutBefore
<1>6. buf.absolute_rendered < linebuf_end(buf')
  BY <1>1, <1>3 DEF LayoutInv, linebuf_end
<1> HIDE DEF n
<1> QED BY <1>2, <1>3, <1>4, <1>5, <1>6 DEF LayoutInv

(* A frame leaves every line laid out: those it skips, because they were,  *)
(* and those it counts.                                                    *)
LEMMA FrameKeepsLayout ==
    ASSUME IInv, IInv', LayoutInv,
           \/ \E w \in Widths : Render(w)
           \/ linebuf_update_render \/ render_return
    PROVE  LayoutInv'
<1>1. /\ buf \in LineBuffer /\ buf' \in LineBuffer
      /\ buf.absolute \in Nat /\ buf.size \in Nat /\ buf.absolute_rendered \in Nat
      /\ job.abs \in Nat
  <2>1. buf \in LineBuffer /\ buf' \in LineBuffer /\ job \in Job
    BY DEF IInv, Types
  <2>2. job.abs \in Nat
    BY <2>1 DEF Job
  <2> QED BY <2>1, <2>2, LineBufAssumption DEF LineBuffer
<1>2. ASSUME NEW w \in Widths, Render(w) PROVE LayoutInv'
  <2> DEFINE a == linebuf_layout_start(buf, lazy_view(w))
  <2>1. /\ pc = "idle" /\ pc' = "view" /\ render_width' = w /\ buf' = buf
        /\ job' = [NoJob EXCEPT !.abs = a]
    BY <1>2 DEF Render
  <2>2. job'.abs = a
    BY <2>1 DEF NoJob
  <2>3. FreshBelow(buf, a, w)
    <3>1. CASE render_width = w
      <4>1. FreshBelow(buf, buf.absolute_rendered + 1, w)
        BY <2>1, <3>1 DEF LayoutInv, LaidOutBefore
      <4>2. \A abs \in buf.absolute..(linebuf_end(buf) - 1) : abs < a => abs < buf.absolute_rendered + 1
        BY <1>1, <3>1 DEF linebuf_layout_start, lazy_view, Max2, linebuf_end
      <4> QED BY <4>1, <4>2 DEF FreshBelow
    <3>2. CASE render_width # w
      BY <1>1, <3>2 DEF FreshBelow, linebuf_layout_start, lazy_view, linebuf_end
    <3> QED BY <3>1, <3>2
  <2> HIDE DEF a
  <2> QED BY <2>1, <2>2, <2>3 DEF LayoutInv, LaidOutBefore
<1>3. CASE linebuf_update_render
  <2>1. /\ pc = "view" /\ pc' = "view" /\ job.abs < linebuf_end(buf)
        /\ buf' = linebuf_layout_line(buf, job.abs, render_width)
        /\ job' = [job EXCEPT !.abs = @ + 1] /\ render_width' = render_width
    BY <1>3 DEF linebuf_update_render, view
  <2>2. render_width \in Nat \ {0} /\ buf.absolute <= job.abs /\ job'.abs = job.abs + 1
    BY <2>1 DEF IInv, Types, JobOK, Job
  <2>3. /\ buf'.size = buf.size /\ buf'.absolute = buf.absolute
        /\ buf'.absolute_rendered = buf.absolute_rendered
    BY <1>1, <2>1, <2>2, LayoutLine
  <2> DEFINE FL == linebuf_get_line(buf, job.abs)
  <2>4. /\ SameLines(buf, buf', (buf.absolute..(linebuf_end(buf) - 1)) \ {job.abs})
        /\ linebuf_get_line(buf', job.abs) = [FL EXCEPT !.rows = Rows(FL.text, render_width)]
    <3> DEFINE r == linebuf_layout_line(buf, job.abs, render_width)
    <3>1. /\ buf \in LineBuffer /\ render_width \in Nat \ {0} /\ job.abs \in Nat
          /\ buf.absolute <= job.abs /\ job.abs < linebuf_end(buf)
      BY <1>1, <2>1, <2>2
    <3>2. /\ SameLines(buf, r, (buf.absolute..(linebuf_end(buf) - 1)) \ {job.abs})
          /\ linebuf_get_line(r, job.abs) = [FL EXCEPT !.rows = Rows(FL.text, render_width)]
      BY <3>1, LayoutLines
    <3> HIDE DEF r, FL
    <3>3. buf' = r
      BY <2>1 DEF r
    <3> QED BY <3>2, <3>3
  <2>5. FL \in Fline
    BY <1>1, <2>1, <2>2, LineType DEF linebuf_end
  <2> HIDE DEF FL
  <2>6. FreshLine(buf', job.abs, render_width)
    BY <2>4, <2>5 DEF FreshLine, Fline
  <2>7. FreshBelow(buf', job.abs + 1, render_width)
    <3> SUFFICES ASSUME NEW abs \in buf.absolute..(linebuf_end(buf) - 1), abs < job.abs + 1, abs # job.abs
                 PROVE  FreshLine(buf', abs, render_width)
      BY <2>3, <2>6 DEF FreshBelow, linebuf_end
    <3>1. abs < job.abs
      BY <1>1 DEF linebuf_end
    <3>2. FreshLine(buf, abs, render_width)
      BY <2>1, <3>1 DEF LayoutInv, LaidOutBefore, FreshBelow
    <3> QED BY <2>4, <3>2 DEF FreshLine, SameLines
  <2>8. linebuf_end(buf') = linebuf_end(buf)
    BY <2>3 DEF linebuf_end
  <2> QED BY <2>1, <2>2, <2>3, <2>7, <2>8 DEF LayoutInv, LaidOutBefore
<1>4. CASE render_return
  <2>1. /\ pc = "view" /\ pc' = "idle" /\ job.abs >= linebuf_end(buf)
        /\ buf' = linebuf_layout_end(buf) /\ render_width' = render_width
    BY <1>4 DEF render_return
  <2>2. /\ buf'.size = buf.size /\ buf'.absolute = buf.absolute
        /\ buf'.lines = buf.lines /\ buf'.start = buf.start /\ buf'.edit = buf.edit
        /\ buf'.absolute_rendered = Max2(buf.absolute_rendered, linebuf_end(buf) - 2)
    BY <1>1, <2>1, LayoutEnd
  <2>3. buf.size > 0
    BY <2>1, LastLine
  <2>4. \A abs \in buf.absolute..(linebuf_end(buf) - 1) : FreshLine(buf, abs, render_width)
    BY <1>1, <2>1 DEF LayoutInv, LaidOutBefore, FreshBelow, linebuf_end
  <2>5. \A abs \in buf.absolute..(linebuf_end(buf) - 1) : linebuf_get_line(buf', abs) = linebuf_get_line(buf, abs)
    BY <2>2 DEF linebuf_get_line, linebuf_get_nth_line, linebuf_nth_to_index
  <2>6. linebuf_end(buf') = linebuf_end(buf)
    BY <2>2 DEF linebuf_end
  <2>7. FreshBelow(buf', LaidOutBefore', render_width)
    BY <2>2, <2>4, <2>5, <2>6 DEF FreshBelow, FreshLine
  <2>8. buf'.absolute_rendered < linebuf_end(buf) - 1 /\ buf'.absolute_rendered < linebuf_end(buf)
    <3>1. buf.absolute_rendered < linebuf_end(buf) - 1 /\ linebuf_end(buf) \in Nat
      BY <1>1, <2>3 DEF LayoutInv, linebuf_end
    <3> QED BY <1>1, <2>2, <3>1 DEF Max2
  <2> QED BY <2>1, <2>6, <2>7, <2>8 DEF LayoutInv
<1> QED BY <1>2, <1>3, <1>4

(* Every step keeps the layout. *)
LEMMA StepKeepsLayout == IInv /\ IInv' /\ LayoutInv /\ [Next]_vars => LayoutInv'
<1> SUFFICES ASSUME IInv, IInv', LayoutInv, [Next]_vars PROVE LayoutInv'
  OBVIOUS
<1>1. CASE console_newline \/ linebuf_clean_backlog \/ EditsLine
  BY <1>1, ChangeKeepsLayout
<1>2. CASE (\E w \in Widths : Render(w)) \/ linebuf_update_render \/ render_return
  BY <1>2, FrameKeepsLayout
<1>3. CASE newline_return \/ KeepsBuffer
  <2>1. buf' = buf /\ render_width' = render_width /\ pc # "view" /\ pc' # "view"
    <3>1. job.ret # "view"
      BY DEF IInv, Types, Job
    <3> QED BY <1>3, <3>1 DEF newline_return, KeepsBuffer, view
  <2> QED BY <2>1 DEF LayoutInv, LaidOutBefore
<1>4. CASE UNCHANGED vars
  BY <1>4 DEF LayoutInv, LaidOutBefore, vars
<1> QED BY <1>1, <1>2, <1>3, <1>4, StepOfBuffer DEF BufferStep

(***************************************************************************)
(* Lazy layout never skips a line that has changed, for any number of      *)
(* lines written, edited and recycled between two frames and any widths.   *)
(***************************************************************************)
THEOREM LayoutIsFresh == Spec => []LayoutFresh
<1>1. Init => LayoutInv
  BY DEF Init, LayoutInv, FreshBelow, linebuf_init, linebuf_end
<1>2. Spec => []LayoutInv
  BY <1>1, StepKeepsLayout, Invariance, PTL DEF Spec
<1>3. IInv /\ LayoutInv => LayoutFresh
  BY DEF IInv, JobOK, LayoutInv, LayoutFresh, FreshBelow, FreshLine
<1> QED BY <1>2, <1>3, Invariance, PTL

-----------------------------------------------------------------------------
(* The running totals *)

(* The two totals are the sums over the lines that are stored. *)
Totals(b) ==
    /\ b.total_rendered = SumTo(LineRows(b), b.size)
    /\ b.total_size_except_last = IF b.size = 0 THEN 0 ELSE SumTo(LineSizes(b), b.size - 1)

(* The nth line has a row count and a length, which are those of the line *)
(* with its absolute number.                                              *)
LEMMA LineCounts ==
    ASSUME NEW b \in LineBuffer, NEW n \in 0..(b.size - 1)
    PROVE  /\ LineRows(b)[n] \in Nat /\ LineSizes(b)[n] \in Nat
           /\ LineRows(b)[n] = linebuf_get_line(b, b.absolute + n).rows
           /\ LineSizes(b)[n] = Len(linebuf_get_line(b, b.absolute + n).text)
           /\ n = b.size - 1 => LineRows(b)[n] = b.edit.rows /\ LineSizes(b)[n] = Len(b.edit.text)
<1>1. linebuf_get_nth_line(b, n) \in Fline
  BY NthLine
<1>2. b.absolute \in Nat /\ n \in Int
  BY DEF LineBuffer
<1>3. (b.absolute + n) - b.absolute = n
  BY <1>2
<1>4. /\ LineRows(b)[n] = linebuf_get_nth_line(b, n).rows
      /\ LineSizes(b)[n] = Len(linebuf_get_nth_line(b, n).text)
  BY DEF LineRows, LineSizes
<1>5. linebuf_get_line(b, b.absolute + n) = linebuf_get_nth_line(b, n)
  BY <1>3 DEF linebuf_get_line
<1>6. n = b.size - 1 => /\ linebuf_get_nth_line(b, n).rows = b.edit.rows
                        /\ linebuf_get_nth_line(b, n).text = b.edit.text
  BY DEF linebuf_get_nth_line
<1> QED BY <1>1, <1>4, <1>5, <1>6 DEF Fline

(* Lines that are the same have the same rows and lengths. *)
LEMMA SameCounts ==
    ASSUME NEW b \in LineBuffer, NEW r \in LineBuffer, NEW S, SameLines(b, r, S),
           NEW n \in 0..(b.size - 1), NEW m \in 0..(r.size - 1),
           b.absolute + n = r.absolute + m, b.absolute + n \in S
    PROVE  LineRows(r)[m] = LineRows(b)[n] /\ LineSizes(r)[m] = LineSizes(b)[n]
<1>1. linebuf_get_line(r, r.absolute + m) = linebuf_get_line(b, b.absolute + n)
  BY DEF SameLines
<1> QED BY <1>1, LineCounts

(* Recycling keeps the totals right, also when it drops the only line. *)
LEMMA RecycleTotals ==
    ASSUME NEW b \in LineBuffer, b.size > 0, Totals(b)
    PROVE  Totals(linebuf_recycle_oldest_line(b))
<1> DEFINE r == linebuf_recycle_oldest_line(b)
           FL == linebuf_get_line(b, b.absolute)
<1>1. /\ r \in LineBuffer /\ r.size = b.size - 1 /\ r.absolute = b.absolute + 1
  BY RecycleFields
<1>2. /\ SameLines(b, r, (b.absolute + 1)..(linebuf_end(b) - 1))
      /\ r.total_rendered = b.total_rendered - FL.rows
      /\ r.total_size_except_last =
           IF b.size = 1 THEN b.total_size_except_last
                         ELSE b.total_size_except_last - Len(FL.text)
  BY RecycleLines
<1>3. b.absolute \in Nat /\ b.size \in Nat /\ r.size \in Nat
  BY <1>1, LineBufAssumption DEF LineBuffer
<1> HIDE DEF r
<1>4. FL.rows = LineRows(b)[0] /\ Len(FL.text) = LineSizes(b)[0]
  <2>1. 0 \in 0..(b.size - 1) /\ b.absolute + 0 = b.absolute
    BY <1>3
  <2> QED BY <2>1, LineCounts
<1> HIDE DEF FL
<1>5. \A k \in 0..(b.size - 1) : LineRows(b)[k] \in Int /\ LineSizes(b)[k] \in Int
  BY LineCounts
<1>6. \A k \in 0..(r.size - 1) :
        LineRows(r)[k] = LineRows(b)[k + 1] /\ LineSizes(r)[k] = LineSizes(b)[k + 1]
  <2> SUFFICES ASSUME NEW k \in 0..(r.size - 1)
               PROVE  LineRows(r)[k] = LineRows(b)[k + 1] /\ LineSizes(r)[k] = LineSizes(b)[k + 1]
    OBVIOUS
  <2>1. /\ k + 1 \in 0..(b.size - 1) /\ b.absolute + (k + 1) = r.absolute + k
        /\ b.absolute + (k + 1) \in (b.absolute + 1)..(linebuf_end(b) - 1)
    BY <1>1, <1>3 DEF linebuf_end
  <2> QED BY <1>1, <1>2, <2>1, SameCounts
<1>7. r.total_rendered = SumTo(LineRows(r), r.size)
  <2>1. r.size + 1 = b.size /\ \A k \in 0..r.size : LineRows(b)[k] \in Int
    BY <1>1, <1>3, <1>5
  <2>2. SumTo(LineRows(b), r.size + 1) = LineRows(b)[0] + SumTo(LineRows(r), r.size)
    BY <1>3, <1>6, <2>1, SumShift
  <2>3. LineRows(b)[0] \in Int /\ SumTo(LineRows(r), r.size) \in Int
    <3>1. \A k \in 0..(r.size - 1) : LineRows(r)[k] \in Int
      BY <1>1, LineCounts
    <3> QED BY <1>3, <2>1, <3>1, SumType
  <2> QED BY <1>2, <1>4, <2>1, <2>2, <2>3 DEF Totals
<1>8. CASE b.size = 1
  BY <1>1, <1>2, <1>7, <1>8, SumRecursion DEF Totals, r
<1>9. CASE b.size # 1
  <2> DEFINE n == b.size - 2
  <2>1. /\ n \in Nat /\ n + 1 = b.size - 1 /\ n = r.size - 1 /\ r.size # 0
        /\ \A k \in 0..n : LineSizes(b)[k] \in Int
        /\ \A k \in 0..(n - 1) : LineSizes(r)[k] = LineSizes(b)[k + 1]
    BY <1>1, <1>3, <1>5, <1>6, <1>9
  <2> HIDE DEF n
  <2>2. SumTo(LineSizes(b), n + 1) = LineSizes(b)[0] + SumTo(LineSizes(r), n)
    BY <2>1, SumShift
  <2>3. LineSizes(b)[0] \in Int /\ SumTo(LineSizes(r), n) \in Int
    <3>1. \A k \in 0..(n - 1) : LineSizes(r)[k] \in Int
      BY <1>1, <2>1, LineCounts
    <3> QED BY <2>1, <3>1, SumType
  <2>4. b.total_size_except_last = SumTo(LineSizes(b), n + 1)
    BY <1>3, <2>1 DEF Totals
  <2>5. r.total_size_except_last = SumTo(LineSizes(r), r.size - 1)
    BY <1>2, <1>4, <1>9, <2>1, <2>2, <2>3, <2>4
  <2> QED BY <1>7, <2>1, <2>5 DEF Totals, r
<1> QED BY <1>8, <1>9

(* A new line keeps the totals right: the line it freezes is counted with *)
(* its rows already, and with its text now.                               *)
LEMMA NewlineTotals ==
    ASSUME NEW b \in LineBuffer, RingOK(b), Totals(b)
    PROVE  Totals(linebuf_newline(b))
<1> DEFINE m == linebuf_make_space(b)
           f == IF m.size > 0 THEN linebuf_freeze_last(m) ELSE m
           a == linebuf_append_empty(f)
<1>1. linebuf_newline(b) = a
  BY DEF linebuf_newline
<1>2. a \in LineBuffer
  BY <1>1, NewlineRing
<1>3. m \in LineBuffer /\ m.size < Capacity
  BY MakeSpace
<1>4. Totals(m)
  <2>1. CASE b.size - Capacity + 1 > 0
    <3>1. m = linebuf_recycle_oldest_line(b) /\ b.size > 0
      BY <2>1, LineBufAssumption DEF linebuf_make_space, LineBuffer
    <3> HIDE DEF m
    <3> QED BY <3>1, RecycleTotals
  <2>2. CASE ~(b.size - Capacity + 1 > 0)
    BY <2>2 DEF linebuf_make_space
  <2> QED BY <2>1, <2>2
<1> HIDE DEF m
<1>5. /\ a.size = m.size + 1 /\ a.absolute = m.absolute
      /\ a.edit = stredit_init
      /\ a.total_rendered = m.total_rendered
      /\ a.total_size_except_last =
           IF m.size > 0 THEN m.total_size_except_last + Len(m.edit.text)
                         ELSE m.total_size_except_last
      /\ SameLines(m, a, m.absolute..(linebuf_end(m) - 1))
  BY <1>3, AddLine
<1>6. m.size \in Nat /\ m.absolute \in Nat /\ a.size \in Nat
  BY <1>3, <1>5, LineBufAssumption DEF LineBuffer
<1> HIDE DEF f, a
<1>7. \A k \in 0..(m.size - 1) :
        LineRows(a)[k] = LineRows(m)[k] /\ LineSizes(a)[k] = LineSizes(m)[k]
  <2> SUFFICES ASSUME NEW k \in 0..(m.size - 1)
               PROVE  LineRows(a)[k] = LineRows(m)[k] /\ LineSizes(a)[k] = LineSizes(m)[k]
    OBVIOUS
  <2>1. /\ k \in 0..(a.size - 1) /\ m.absolute + k = a.absolute + k
        /\ m.absolute + k \in m.absolute..(linebuf_end(m) - 1)
    BY <1>5, <1>6 DEF linebuf_end
  <2> QED BY <1>2, <1>3, <1>5, <2>1, SameCounts
<1>8. a.total_rendered = SumTo(LineRows(a), a.size)
  <2>1. SumTo(LineRows(a), m.size) = SumTo(LineRows(m), m.size)
    BY <1>6, <1>7, SumSame
  <2>2. LineRows(a)[m.size] = 0
    <3>1. m.size \in 0..(a.size - 1) /\ m.size = a.size - 1
      BY <1>5, <1>6
    <3>2. LineRows(a)[m.size] = a.edit.rows
      BY <1>2, <3>1, LineCounts
    <3> QED BY <1>5, <3>2 DEF stredit_init
  <2>3. SumTo(LineRows(m), m.size) \in Int
    <3>1. \A k \in 0..(m.size - 1) : LineRows(m)[k] \in Int
      BY <1>3, LineCounts
    <3> QED BY <1>6, <3>1, SumType
  <2>4. SumTo(LineRows(a), m.size + 1) = SumTo(LineRows(a), m.size) + LineRows(a)[m.size]
    BY <1>6, SumRecursion
  <2> QED BY <1>4, <1>5, <2>1, <2>2, <2>3, <2>4 DEF Totals
<1>9. a.total_size_except_last = SumTo(LineSizes(a), a.size - 1) /\ a.size # 0
  <2>1. a.size - 1 = m.size /\ a.size # 0
    BY <1>5, <1>6
  <2>2. SumTo(LineSizes(a), m.size) = SumTo(LineSizes(m), m.size)
    BY <1>6, <1>7, SumSame
  <2>3. CASE m.size = 0
    BY <1>4, <1>5, <2>1, <2>3, SumRecursion DEF Totals
  <2>4. CASE m.size # 0
    <3>1. /\ m.size - 1 \in Nat /\ (m.size - 1) + 1 = m.size /\ m.size > 0
          /\ m.size - 1 \in 0..(m.size - 1)
      BY <1>6, <2>4
    <3>2. SumTo(LineSizes(m), m.size) = SumTo(LineSizes(m), m.size - 1) + LineSizes(m)[m.size - 1]
      BY <3>1, SumRecursion
    <3>3. LineSizes(m)[m.size - 1] = Len(m.edit.text)
      BY <1>3, <3>1, LineCounts
    <3> QED BY <1>4, <1>5, <2>1, <2>2, <2>4, <3>1, <3>2, <3>3 DEF Totals
  <2> QED BY <2>1, <2>3, <2>4
<1> QED BY <1>1, <1>8, <1>9 DEF Totals

(* Editing the last line touches neither its rows nor the text of the      *)
(* others.                                                                 *)
LEMMA EditTotals ==
    ASSUME NEW b \in LineBuffer, NEW e \in Editor, e.raw = b.edit.raw, e.rows = b.edit.rows,
           Totals(b)
    PROVE  Totals([b EXCEPT !.edit = e])
<1> DEFINE r == [b EXCEPT !.edit = e]
<1>1. /\ r \in LineBuffer /\ r.size = b.size /\ r.absolute = b.absolute /\ r.edit = e
  BY EditLast
<1>2. /\ SameLines(b, r, b.absolute..(linebuf_end(b) - 2))
      /\ r.total_rendered = b.total_rendered
      /\ r.total_size_except_last = b.total_size_except_last
  BY EditLines
<1>3. b.absolute \in Nat /\ b.size \in Nat
  BY LineBufAssumption DEF LineBuffer
<1> HIDE DEF r
<1>4. ASSUME NEW k \in 0..(b.size - 1), k # b.size - 1
      PROVE  LineRows(r)[k] = LineRows(b)[k] /\ LineSizes(r)[k] = LineSizes(b)[k]
  <2>1. /\ k \in 0..(r.size - 1) /\ b.absolute + k = r.absolute + k
        /\ b.absolute + k \in b.absolute..(linebuf_end(b) - 2)
    BY <1>1, <1>3, <1>4 DEF linebuf_end
  <2> QED BY <1>1, <1>2, <2>1, SameCounts
<1>5. \A k \in 0..(b.size - 1) : LineRows(r)[k] = LineRows(b)[k]
  <2>1. b.size > 0 => LineRows(r)[b.size - 1] = LineRows(b)[b.size - 1]
    <3> SUFFICES ASSUME b.size > 0 PROVE LineRows(r)[b.size - 1] = LineRows(b)[b.size - 1]
      OBVIOUS
    <3>1. b.size - 1 \in 0..(b.size - 1)
      BY <1>3
    <3> QED BY <1>1, <3>1, LineCounts
  <2> QED BY <1>3, <1>4, <2>1
<1>6. SumTo(LineRows(r), r.size) = SumTo(LineRows(b), b.size)
  BY <1>1, <1>3, <1>5, SumSame
<1>7. b.size # 0 => SumTo(LineSizes(r), r.size - 1) = SumTo(LineSizes(b), b.size - 1)
  <2> SUFFICES ASSUME b.size # 0
               PROVE  SumTo(LineSizes(r), b.size - 1) = SumTo(LineSizes(b), b.size - 1)
    BY <1>1
  <2>1. b.size - 1 \in Nat /\ \A k \in 0..((b.size - 1) - 1) : LineSizes(r)[k] = LineSizes(b)[k]
    BY <1>3, <1>4
  <2> QED BY <2>1, SumSame
<1> QED BY <1>1, <1>2, <1>6, <1>7 DEF Totals, r

(* Laying out a line replaces its rows in the total. *)
LEMMA LayoutTotals ==
    ASSUME NEW b \in LineBuffer, NEW w \in Nat \ {0}, NEW abs \in Nat,
           b.absolute <= abs, abs < linebuf_end(b), Totals(b)
    PROVE  Totals(linebuf_layout_line(b, abs, w))
<1> DEFINE r == linebuf_layout_line(b, abs, w)
           FL == linebuf_get_line(b, abs)
           j == abs - b.absolute
<1>1. r \in LineBuffer /\ r.size = b.size /\ r.absolute = b.absolute
  BY LayoutLine
<1>2. /\ SameLines(b, r, (b.absolute..(linebuf_end(b) - 1)) \ {abs})
      /\ linebuf_get_line(r, abs) = [FL EXCEPT !.rows = Rows(FL.text, w)]
      /\ r.total_rendered = b.total_rendered - FL.rows + Rows(FL.text, w)
      /\ r.total_size_except_last = b.total_size_except_last
  BY LayoutLines
<1>3. b.absolute \in Nat /\ b.size \in Nat
  BY LineBufAssumption DEF LineBuffer
<1>4. j \in 0..(b.size - 1) /\ b.absolute + j = abs /\ FL \in Fline
  BY <1>3, LineType DEF linebuf_end
<1>5. linebuf_get_line(r, abs).rows = Rows(FL.text, w) /\ linebuf_get_line(r, abs).text = FL.text
  BY <1>2, <1>4 DEF Fline
<1> HIDE DEF r, FL, j
<1>6. /\ LineRows(b)[j] = FL.rows /\ LineRows(r)[j] = Rows(FL.text, w)
      /\ LineSizes(r)[j] = LineSizes(b)[j] /\ LineRows(r)[j] \in Int /\ LineRows(b)[j] \in Int
  BY <1>1, <1>4, <1>5, LineCounts DEF FL
<1>7. ASSUME NEW k \in 0..(b.size - 1), k # j
      PROVE  LineRows(r)[k] = LineRows(b)[k] /\ LineSizes(r)[k] = LineSizes(b)[k]
  <2>1. /\ k \in 0..(r.size - 1) /\ b.absolute + k = r.absolute + k
        /\ b.absolute + k \in (b.absolute..(linebuf_end(b) - 1)) \ {abs}
    BY <1>1, <1>3, <1>4, <1>7 DEF linebuf_end
  <2> QED BY <1>1, <1>2, <2>1, SameCounts
<1>8. SumTo(LineRows(r), b.size) = SumTo(LineRows(b), b.size) - LineRows(b)[j] + LineRows(r)[j]
  <2>1. \A k \in 0..(b.size - 1) : LineRows(b)[k] \in Int
    BY LineCounts
  <2> QED BY <1>3, <1>4, <1>6, <1>7, <2>1, SumChange
<1>9. b.size # 0 => SumTo(LineSizes(r), b.size - 1) = SumTo(LineSizes(b), b.size - 1)
  <2> SUFFICES ASSUME b.size # 0
               PROVE  SumTo(LineSizes(r), b.size - 1) = SumTo(LineSizes(b), b.size - 1)
    OBVIOUS
  <2>1. b.size - 1 \in Nat /\ \A k \in 0..((b.size - 1) - 1) : LineSizes(r)[k] = LineSizes(b)[k]
    BY <1>3, <1>6, <1>7
  <2> QED BY <2>1, SumSame
<1> QED BY <1>1, <1>2, <1>6, <1>8, <1>9 DEF Totals, r

(* The end of the layout leaves the lines alone. *)
LEMMA LayoutEndTotals ==
    ASSUME NEW b \in LineBuffer, Totals(b)
    PROVE  Totals(linebuf_layout_end(b))
<1> DEFINE r == linebuf_layout_end(b)
<1>1. /\ r.edit = b.edit /\ r.size = b.size /\ r.lines = b.lines /\ r.start = b.start
  BY LayoutEnd
<1>2. r.total_rendered = b.total_rendered /\ r.total_size_except_last = b.total_size_except_last
  BY DEF linebuf_layout_end, LineBuffer
<1> HIDE DEF r
<1>3. LineRows(r) = LineRows(b) /\ LineSizes(r) = LineSizes(b)
  BY <1>1 DEF LineRows, LineSizes, linebuf_get_nth_line, linebuf_nth_to_index
<1> QED BY <1>1, <1>2, <1>3 DEF Totals, r

(* Every step keeps the totals right. *)
LEMMA StepKeepsTotals == IInv /\ Totals(buf) /\ [Next]_vars => Totals(buf')
<1> SUFFICES ASSUME IInv, Totals(buf), [Next]_vars PROVE Totals(buf')
  OBVIOUS
<1>1. buf \in LineBuffer /\ RingOK(buf)
  BY DEF IInv, Types, BufferOK
<1>2. CASE console_newline
  BY <1>1, <1>2, NewlineTotals DEF console_newline
<1>3. CASE linebuf_clean_backlog
  <2>1. buf' = linebuf_recycle_oldest_line(buf) /\ buf.size > 0
    BY <1>1, <1>3, LineBufAssumption DEF linebuf_clean_backlog, linebuf_over_backlog, LineBuffer
  <2> QED BY <1>1, <2>1, RecycleTotals
<1>4. CASE EditsLine
  BY <1>1, <1>4, EditTotals DEF EditsLine
<1>5. CASE linebuf_update_render
  <2>1. /\ pc = "view" /\ job.abs < linebuf_end(buf)
        /\ buf' = linebuf_layout_line(buf, job.abs, render_width)
    BY <1>5 DEF linebuf_update_render
  <2>2. render_width \in Nat \ {0} /\ job.abs \in Nat /\ buf.absolute <= job.abs
    BY <2>1 DEF IInv, Types, JobOK, Job
  <2> QED BY <1>1, <2>1, <2>2, LayoutTotals
<1>6. CASE render_return
  BY <1>1, <1>6, LayoutEndTotals DEF render_return
<1>7. CASE newline_return \/ KeepsBuffer \/ (\E w \in Widths : Render(w)) \/ UNCHANGED vars
  <2>1. buf' = buf
    BY <1>7 DEF newline_return, KeepsBuffer, Render, vars
  <2> QED BY <2>1
<1> QED BY <1>2, <1>3, <1>4, <1>5, <1>6, <1>7, StepOfBuffer DEF BufferStep

(* The totals are right in every state. *)
TotalsRight == Totals(buf)

(* The totals are right in every behaviour. *)
LEMMA TotalsInvariant == Spec => []TotalsRight
<1>1. Init => TotalsRight
  BY SumRecursion DEF Init, TotalsRight, Totals, linebuf_init
<1>2. IInv /\ TotalsRight /\ [Next]_vars => TotalsRight'
  BY StepKeepsTotals DEF TotalsRight
<1> QED BY <1>1, <1>2, Invariance, PTL DEF Spec

(***************************************************************************)
(* The running total of render rows is the sum over the stored lines, for  *)
(* a ring of any size, any widths and any sequence of writes and frames.   *)
(***************************************************************************)
THEOREM RowsAccounted == Spec => []RowAccounting
<1>1. TotalsRight => RowAccounting
  BY DEF TotalsRight, Totals, RowAccounting
<1> QED BY <1>1, TotalsInvariant, PTL

-----------------------------------------------------------------------------
(* The backlog *)

(* No line is longer than the editor allows *)
LinesShort(b) ==
    \A abs \in b.absolute..(linebuf_end(b) - 1) : Len(linebuf_get_line(b, abs).text) <= MaxLine

(* The inductive form of BacklogBound: the line that a newline starts is   *)
(* empty while linebuf_clean_backlog() runs, so that the cleaning stops    *)
(* before the line just ended, which the backlog is large enough for.      *)
BacklogInv ==
    /\ LinesShort(buf)
    /\ buf.size = 0 => buf.absolute = 1
    /\ pc # "newline" /\ Capacity > 1 /\ linebuf_end(buf) > 2 => buf.size > 1
    /\ pc = "clean" => buf.edit.text = <<>>
    /\ pc \notin {"newline", "clean"} => buf.total_size_except_last <= Backlog

(* Lines that are kept stay short. *)
LEMMA StillShort ==
    ASSUME NEW b, NEW r, NEW last,
           b.absolute \in Nat, b.size \in Nat, r.absolute \in Nat, r.size \in Nat,
           last \in Int, b.absolute <= r.absolute, last < linebuf_end(b),
           LinesShort(b), SameLines(b, r, r.absolute..last),
           \A abs \in r.absolute..(linebuf_end(r) - 1) :
              abs > last => Len(linebuf_get_line(r, abs).text) <= MaxLine
    PROVE  LinesShort(r)
<1> SUFFICES ASSUME NEW abs \in r.absolute..(linebuf_end(r) - 1), ~(abs > last)
             PROVE  Len(linebuf_get_line(r, abs).text) <= MaxLine
  BY DEF LinesShort
<1>1. abs \in r.absolute..last /\ abs \in b.absolute..(linebuf_end(b) - 1)
  BY DEF linebuf_end
<1> QED BY <1>1 DEF LinesShort, SameLines

(* The last line is the editor's. *)
LEMMA LastText ==
    ASSUME NEW b \in LineBuffer
    PROVE  linebuf_get_line(b, linebuf_end(b) - 1).text = b.edit.text
<1>1. b.absolute \in Nat /\ b.size \in Nat
  BY LineBufAssumption DEF LineBuffer
<1>2. (linebuf_end(b) - 1) - b.absolute = b.size - 1
  BY <1>1 DEF linebuf_end
<1> QED BY <1>2 DEF linebuf_get_line, linebuf_get_nth_line

(* A new line keeps the invariant of the backlog. *)
LEMMA NewlineBacklog ==
    ASSUME IInv, IInv', BacklogInv, console_newline PROVE BacklogInv'
<1>1. /\ buf' = linebuf_newline(buf) /\ pc = "newline" /\ pc' = "clean"
  BY DEF console_newline
<1>2. /\ buf \in LineBuffer /\ buf' \in LineBuffer /\ RingOK(buf)
      /\ buf.absolute \in Nat /\ buf.size \in 0..Capacity /\ buf.size \in Nat
      /\ buf'.absolute \in Nat /\ buf'.size \in Nat /\ Capacity \in Nat \ {0}
  BY LineBufAssumption DEF IInv, Types, BufferOK, LineBuffer
<1>3. buf'.edit = stredit_init /\ linebuf_end(buf') = linebuf_end(buf) + 1 /\ buf'.size > 0
  BY <1>1, <1>2, NewlineRing
<1>4. /\ SameLines(buf, buf', buf'.absolute..(linebuf_end(buf) - 1))
      /\ buf.size < Capacity => buf'.absolute = buf.absolute /\ buf'.size = buf.size + 1
      /\ buf.size = Capacity => buf'.absolute = buf.absolute + 1 /\ buf'.size = buf.size
  BY <1>1, <1>2, NewlineLines
<1>5. LinesShort(buf')
  <2> DEFINE last == linebuf_end(buf) - 1
  <2>1. /\ last \in Int /\ last < linebuf_end(buf) /\ buf.absolute <= buf'.absolute
        /\ linebuf_end(buf') - 1 = last + 1
    BY <1>2, <1>3, <1>4 DEF linebuf_end
  <2>2. ASSUME NEW abs \in buf'.absolute..(linebuf_end(buf') - 1), abs > last
        PROVE  Len(linebuf_get_line(buf', abs).text) <= MaxLine
    <3>1. abs = linebuf_end(buf') - 1
      BY <1>2, <2>1, <2>2 DEF linebuf_end
    <3>2. linebuf_get_line(buf', abs).text = <<>>
      BY <1>2, <1>3, <3>1, LastText, NewEditor
    <3> QED BY <3>2, StrEditAssumption
  <2> HIDE DEF last
  <2>3. SameLines(buf, buf', buf'.absolute..last)
    BY <1>4 DEF last
  <2> QED BY <1>2, <2>1, <2>2, <2>3, StillShort DEF BacklogInv
<1>6. Capacity > 1 /\ linebuf_end(buf') > 2 => buf'.size > 1
  <2>1. CASE buf.size = 0
    <3>1. linebuf_end(buf) = 1
      BY <1>2, <2>1 DEF BacklogInv, linebuf_end
    <3> QED BY <1>3, <3>1
  <2>2. CASE buf.size # 0
    BY <1>2, <1>4, <2>2
  <2> QED BY <2>1, <2>2
<1>7. buf'.edit.text = <<>>
  BY <1>3, NewEditor
<1> QED BY <1>1, <1>2, <1>3, <1>5, <1>6, <1>7 DEF BacklogInv

(* Cleaning the backlog keeps the line just ended: alone before the empty  *)
(* last line, it is within the backlog.                                    *)
LEMMA CleanBacklog ==
    ASSUME IInv, IInv', TotalsRight, BacklogInv, linebuf_clean_backlog PROVE BacklogInv'
<1>1. /\ buf' = linebuf_recycle_oldest_line(buf) /\ pc = "clean" /\ pc' = pc
      /\ buf.size > 1 /\ buf.total_size_except_last + Len(buf.edit.text) > Backlog
  BY DEF linebuf_clean_backlog, linebuf_over_backlog
<1>2. /\ buf \in LineBuffer /\ buf' \in LineBuffer
      /\ buf.absolute \in Nat /\ buf.size \in Nat
      /\ buf'.absolute \in Nat /\ buf'.size \in Nat
  BY LineBufAssumption DEF IInv, Types, LineBuffer
<1>3. buf.size > 0
  BY <1>1, <1>2
<1>4. /\ buf'.size = buf.size - 1 /\ buf'.absolute = buf.absolute + 1 /\ buf'.edit = buf.edit
  BY <1>1, <1>2, <1>3, RecycleFields
<1>5. SameLines(buf, buf', (buf.absolute + 1)..(linebuf_end(buf) - 1))
  BY <1>1, <1>2, <1>3, RecycleLines
<1>6. linebuf_end(buf') = linebuf_end(buf) /\ linebuf_end(buf) \in Int
  BY <1>2, <1>4 DEF linebuf_end
<1>7. LinesShort(buf')
  <2> DEFINE last == linebuf_end(buf) - 1
  <2>1. last \in Int /\ last < linebuf_end(buf) /\ buf.absolute <= buf'.absolute
    BY <1>2, <1>4, <1>6
  <2>2. \A abs \in buf'.absolute..(linebuf_end(buf') - 1) : ~(abs > last)
    BY <1>2, <1>6
  <2>3. SameLines(buf, buf', buf'.absolute..last)
    BY <1>4, <1>5
  <2> HIDE DEF last
  <2> QED BY <1>2, <2>1, <2>2, <2>3, StillShort DEF BacklogInv
<1>8. buf.size # 2
  <2> SUFFICES ASSUME buf.size = 2 PROVE FALSE
    OBVIOUS
  <2>1. buf.total_size_except_last = SumTo(LineSizes(buf), 0 + 1)
    BY DEF TotalsRight, Totals
  <2>2. LineSizes(buf)[0] \in Nat /\ LineSizes(buf)[0] = Len(linebuf_get_line(buf, buf.absolute + 0).text)
    BY <1>2, LineCounts
  <2>3. SumTo(LineSizes(buf), 0 + 1) = SumTo(LineSizes(buf), 0) + LineSizes(buf)[0] /\ SumTo(LineSizes(buf), 0) = 0
    BY SumRecursion
  <2>4. buf.absolute + 0 \in buf.absolute..(linebuf_end(buf) - 1)
    BY <1>2 DEF linebuf_end
  <2>5. LineSizes(buf)[0] <= MaxLine
    BY <2>2, <2>4 DEF BacklogInv, LinesShort
  <2>6. buf.edit.text = <<>>
    BY <1>1 DEF BacklogInv
  <2>7. Len(buf.edit.text) = 0
    BY <2>6
  <2> QED BY <1>1, <2>1, <2>2, <2>3, <2>5, <2>7, StrEditAssumption, LineBufAssumption
<1>9. buf'.size > 1
  BY <1>1, <1>2, <1>4, <1>8
<1> QED BY <1>1, <1>2, <1>4, <1>7, <1>9 DEF BacklogInv

(* A newline returns once the text is within the backlog. *)
LEMMA ReturnBacklog ==
    ASSUME IInv, TotalsRight, BacklogInv, newline_return PROVE BacklogInv'
<1>1. pc = "clean" /\ buf' = buf /\ pc' = job.ret /\ ~linebuf_over_backlog(buf)
  BY DEF newline_return
<1>2. job.ret \in {"idle", "write", "raw"}
  BY DEF IInv, Types, Job
<1>3. buf \in LineBuffer /\ buf.size \in Nat /\ buf.size > 0 /\ buf.total_size_except_last \in Int
  BY <1>1, LastLine, LineBufAssumption DEF LineBuffer
<1>4. buf.total_size_except_last <= Backlog
  <2>1. CASE buf.size = 1
    <3>1. buf.total_size_except_last = SumTo(LineSizes(buf), 0)
      BY <2>1 DEF TotalsRight, Totals
    <3> QED BY <3>1, SumRecursion, LineBufAssumption
  <2>2. CASE buf.size # 1
    <3>1. Len(buf.edit.text) = 0
      BY <1>1 DEF BacklogInv
    <3> QED BY <1>1, <1>3, <2>2, <3>1, LineBufAssumption DEF linebuf_over_backlog
  <2> QED BY <2>1, <2>2
<1> QED BY <1>1, <1>2, <1>4 DEF BacklogInv

(* Edits and frames leave the frozen text alone. *)
LEMMA OtherBacklog ==
    ASSUME IInv, IInv', BacklogInv,
           EditsLine \/ linebuf_update_render \/ render_return
    PROVE  BacklogInv'
<1>1. /\ buf \in LineBuffer /\ buf' \in LineBuffer
      /\ buf.absolute \in Nat /\ buf.size \in Nat /\ buf.edit \in Editor
  BY LineBufAssumption DEF IInv, Types, LineBuffer
<1>2. pc \notin {"newline", "clean"} /\ pc' # "clean"
  BY DEF EditsLine, linebuf_update_render, render_return
<1>3. /\ buf'.size = buf.size /\ buf'.absolute = buf.absolute
      /\ buf'.total_size_except_last = buf.total_size_except_last
      /\ LinesShort(buf')
  <2>1. CASE EditsLine
    <3>1. PICK e \in Editor : buf' = [buf EXCEPT !.edit = e] /\ e.raw = buf.edit.raw /\ Len(e.text) <= MaxLine
      BY <2>1 DEF EditsLine
    <3>2. buf'.size = buf.size /\ buf'.absolute = buf.absolute /\ buf'.edit = e
      BY <1>1, <3>1, EditLast
    <3>3. /\ SameLines(buf, buf', buf.absolute..(linebuf_end(buf) - 2))
          /\ buf'.total_size_except_last = buf.total_size_except_last
      BY <1>1, <3>1, EditLines
    <3> DEFINE last == linebuf_end(buf) - 2
    <3>4. /\ last \in Int /\ last < linebuf_end(buf) /\ buf.absolute <= buf'.absolute
          /\ linebuf_end(buf') = linebuf_end(buf) /\ linebuf_end(buf) \in Int
      BY <1>1, <3>2 DEF linebuf_end
    <3>5. ASSUME NEW abs \in buf'.absolute..(linebuf_end(buf') - 1), abs > last
          PROVE  Len(linebuf_get_line(buf', abs).text) <= MaxLine
      <4>1. abs = linebuf_end(buf') - 1
        BY <1>1, <3>4, <3>5
      <4> QED BY <1>1, <3>1, <3>2, <4>1, LastText
    <3>6. SameLines(buf, buf', buf'.absolute..last)
      BY <3>2, <3>3
    <3> HIDE DEF last
    <3>7. LinesShort(buf')
      BY <1>1, <3>2, <3>4, <3>5, <3>6, StillShort DEF BacklogInv
    <3> QED BY <3>2, <3>3, <3>7
  <2>2. CASE linebuf_update_render
    <3>1. /\ pc = "view" /\ job.abs < linebuf_end(buf)
          /\ buf' = linebuf_layout_line(buf, job.abs, render_width)
      BY <2>2 DEF linebuf_update_render
    <3>2. render_width \in Nat \ {0} /\ job.abs \in Nat /\ buf.absolute <= job.abs
      BY <3>1 DEF IInv, Types, JobOK, Job
    <3>3. buf'.size = buf.size /\ buf'.absolute = buf.absolute
      BY <1>1, <3>1, <3>2, LayoutLine
    <3> DEFINE FL == linebuf_get_line(buf, job.abs)
    <3>4. /\ SameLines(buf, buf', (buf.absolute..(linebuf_end(buf) - 1)) \ {job.abs})
          /\ linebuf_get_line(buf', job.abs) = [FL EXCEPT !.rows = Rows(FL.text, render_width)]
          /\ buf'.total_size_except_last = buf.total_size_except_last
      <4> DEFINE r == linebuf_layout_line(buf, job.abs, render_width)
      <4>1. /\ buf \in LineBuffer /\ render_width \in Nat \ {0} /\ job.abs \in Nat
            /\ buf.absolute <= job.abs /\ job.abs < linebuf_end(buf)
        BY <1>1, <3>1, <3>2
      <4>2. /\ SameLines(buf, r, (buf.absolute..(linebuf_end(buf) - 1)) \ {job.abs})
            /\ linebuf_get_line(r, job.abs) = [FL EXCEPT !.rows = Rows(FL.text, render_width)]
            /\ r.total_size_except_last = buf.total_size_except_last
        BY <4>1, LayoutLines
      <4> HIDE DEF r, FL
      <4>3. buf' = r
        BY <3>1 DEF r
      <4> QED BY <4>2, <4>3
    <3>5. FL \in Fline
      BY <1>1, <3>1, <3>2, LineType DEF linebuf_end
    <3> HIDE DEF FL
    <3>6. linebuf_get_line(buf', job.abs).text = FL.text
      BY <3>4, <3>5 DEF Fline
    <3>7. LinesShort(buf')
      <4> SUFFICES ASSUME NEW abs \in buf.absolute..(linebuf_end(buf) - 1)
                   PROVE  Len(linebuf_get_line(buf', abs).text) <= MaxLine
        BY <3>3 DEF LinesShort, linebuf_end
      <4>1. linebuf_get_line(buf', abs).text = linebuf_get_line(buf, abs).text
        BY <3>4, <3>6 DEF SameLines, FL
      <4> QED BY <4>1 DEF BacklogInv, LinesShort
    <3> QED BY <3>3, <3>4, <3>7
  <2>3. CASE render_return
    <3>1. buf' = linebuf_layout_end(buf)
      BY <2>3 DEF render_return
    <3>2. /\ buf'.size = buf.size /\ buf'.absolute = buf.absolute /\ buf'.edit = buf.edit
          /\ buf'.lines = buf.lines /\ buf'.start = buf.start
      BY <1>1, <3>1, LayoutEnd
    <3>3. buf'.total_size_except_last = buf.total_size_except_last
      BY <1>1, <3>1 DEF linebuf_layout_end, LineBuffer
    <3>4. \A abs : linebuf_get_line(buf', abs) = linebuf_get_line(buf, abs)
      BY <3>2 DEF linebuf_get_line, linebuf_get_nth_line, linebuf_nth_to_index
    <3> QED BY <3>2, <3>3, <3>4 DEF BacklogInv, LinesShort, linebuf_end
  <2> QED BY <2>1, <2>2, <2>3
<1>4. linebuf_end(buf') = linebuf_end(buf)
  BY <1>3 DEF linebuf_end
<1> QED BY <1>2, <1>3, <1>4 DEF BacklogInv

(* Every step keeps the invariant of the backlog. *)
LEMMA StepBacklog == IInv /\ IInv' /\ TotalsRight /\ BacklogInv /\ [Next]_vars => BacklogInv'
<1> SUFFICES ASSUME IInv, IInv', TotalsRight, BacklogInv, [Next]_vars PROVE BacklogInv'
  OBVIOUS
<1>1. CASE console_newline
  BY <1>1, NewlineBacklog
<1>2. CASE linebuf_clean_backlog
  BY <1>2, CleanBacklog
<1>3. CASE newline_return
  BY <1>3, ReturnBacklog
<1>4. CASE EditsLine \/ linebuf_update_render \/ render_return
  BY <1>4, OtherBacklog
<1>5. CASE KeepsBuffer \/ (\E w \in Widths : Render(w))
  <2>1. buf' = buf /\ pc \notin {"newline", "clean"} /\ pc' # "clean"
    BY <1>5 DEF KeepsBuffer, Render
  <2> QED BY <2>1 DEF BacklogInv
<1>6. CASE UNCHANGED vars
  BY <1>6 DEF vars, BacklogInv
<1> QED BY <1>1, <1>2, <1>3, <1>4, <1>5, <1>6, StepOfBuffer DEF BufferStep

(***************************************************************************)
(* Whenever no newline is in progress the frozen text is within the        *)
(* backlog, and the line just ended is still stored, for a ring of any     *)
(* size and any backlog that is at least the length of a line.             *)
(***************************************************************************)
THEOREM BacklogKept == Spec => []BacklogBound
<1>1. Init => BacklogInv
  BY DEF Init, BacklogInv, LinesShort, linebuf_init, linebuf_end
<1>2. Spec => []BacklogInv
  BY <1>1, StepBacklog, Invariance, TotalsInvariant, PTL DEF Spec
<1>3. IInv /\ TotalsRight /\ BacklogInv => BacklogBound
  <2> SUFFICES ASSUME IInv, TotalsRight, BacklogInv, pc \notin {"newline", "clean"}
               PROVE  /\ SumTo(LineSizes(buf), buf.size - 1) <= Backlog
                      /\ Capacity > 1 /\ linebuf_end(buf) > 2 => buf.size > 1
    BY DEF BacklogBound
  <2>1. buf.size > 0
    BY LastLine
  <2>2. buf.total_size_except_last = SumTo(LineSizes(buf), buf.size - 1)
    BY <2>1 DEF TotalsRight, Totals
  <2> QED BY <2>2 DEF BacklogInv
<1> QED BY <1>2, <1>3, Invariance, TotalsInvariant, PTL

-----------------------------------------------------------------------------
(* The refinement of Scrollback *)

(* The history that a buffer represents: its lines but the last *)
Hist(b) == [n \in 1..(b.size - 1) |-> linebuf_get_nth_line(b, n - 1).text]

(* The history is a sequence of texts, numbered from the first line on. *)
LEMMA HistLines ==
    ASSUME NEW b \in LineBuffer
    PROVE  /\ Hist(b) \in Seq(Seq(Char))
           /\ Len(Hist(b)) = IF b.size = 0 THEN 0 ELSE b.size - 1
           /\ \A n \in 1..(b.size - 1) :
                Hist(b)[n] = linebuf_get_line(b, b.absolute + (n - 1)).text
<1>1. b.absolute \in Nat /\ b.size \in Nat
  BY LineBufAssumption DEF LineBuffer
<1>2. ASSUME NEW n \in 1..(b.size - 1)
      PROVE  /\ Hist(b)[n] = linebuf_get_line(b, b.absolute + (n - 1)).text
             /\ linebuf_get_nth_line(b, n - 1).text \in Seq(Char)
  <2>1. (b.absolute + (n - 1)) - b.absolute = n - 1 /\ n - 1 \in 0..(b.size - 1)
    BY <1>1
  <2>2. linebuf_get_nth_line(b, n - 1) \in Fline
    BY <2>1, NthLine
  <2>3. Hist(b)[n] = linebuf_get_nth_line(b, n - 1).text
    BY DEF Hist
  <2>4. linebuf_get_line(b, b.absolute + (n - 1)) = linebuf_get_nth_line(b, n - 1)
    BY <2>1 DEF linebuf_get_line
  <2> QED BY <2>2, <2>3, <2>4 DEF Fline
<1>3. Hist(b) \in [1..(b.size - 1) -> Seq(Char)]
  BY <1>2 DEF Hist
<1>4. CASE b.size = 0
  <2>1. 1..(b.size - 1) = 1..0
    BY <1>4
  <2>2. Hist(b) \in [1..0 -> Seq(Char)]
    BY <1>3, <2>1
  <2>3. Hist(b) \in Seq(Seq(Char)) /\ Len(Hist(b)) = 0
    BY <2>2
  <2> QED BY <1>2, <1>4, <2>3
<1>5. CASE b.size # 0
  <2>1. b.size - 1 \in Nat
    BY <1>1, <1>5
  <2>2. Hist(b) \in Seq(Seq(Char)) /\ Len(Hist(b)) = b.size - 1
    BY <1>3, <2>1
  <2> QED BY <1>2, <1>5, <2>2
<1> QED BY <1>4, <1>5

(* Buffers with the same lines but the last have the same history. *)
LEMMA SameHist ==
    ASSUME NEW b \in LineBuffer, NEW r \in LineBuffer,
           r.size = b.size, r.absolute = b.absolute,
           \A abs \in b.absolute..(linebuf_end(b) - 2) :
              linebuf_get_line(r, abs).text = linebuf_get_line(b, abs).text
    PROVE  Hist(r) = Hist(b)
<1>1. b.absolute \in Nat /\ b.size \in Nat
  BY LineBufAssumption DEF LineBuffer
<1>2. ASSUME NEW n \in 1..(b.size - 1) PROVE Hist(r)[n] = Hist(b)[n]
  <2>1. b.absolute + (n - 1) \in b.absolute..(linebuf_end(b) - 2)
    BY <1>1 DEF linebuf_end
  <2> QED BY <2>1, HistLines
<1>3. /\ Hist(b) \in Seq(Seq(Char)) /\ Hist(r) \in Seq(Seq(Char))
      /\ Len(Hist(r)) = Len(Hist(b))
      /\ \A n \in 1..Len(Hist(b)) : n \in 1..(b.size - 1)
  BY <1>1, HistLines
<1> QED BY <1>2, <1>3, SeqEqual

(* The history without its first line *)
LEMMA RecycleHist ==
    ASSUME NEW b \in LineBuffer, b.size > 1
    PROVE  /\ Hist(b) # <<>>
           /\ Hist(linebuf_recycle_oldest_line(b)) = Tail(Hist(b))
<1> DEFINE r == linebuf_recycle_oldest_line(b)
<1>1. b.absolute \in Nat /\ b.size \in Nat /\ b.size > 0
  BY LineBufAssumption DEF LineBuffer
<1>2. r \in LineBuffer /\ r.size = b.size - 1 /\ r.absolute = b.absolute + 1
  BY <1>1, RecycleFields
<1>3. SameLines(b, r, (b.absolute + 1)..(linebuf_end(b) - 1))
  BY <1>1, RecycleLines
<1> HIDE DEF r
<1>4. /\ Hist(b) \in Seq(Seq(Char)) /\ Hist(r) \in Seq(Seq(Char))
      /\ Len(Hist(b)) = b.size - 1 /\ Len(Hist(r)) = b.size - 2 /\ Hist(b) # <<>>
  <2>1. /\ Hist(b) \in Seq(Seq(Char)) /\ Len(Hist(b)) = b.size - 1
    BY <1>1, HistLines
  <2>2. r.size # 0 /\ r.size - 1 = b.size - 2 /\ b.size - 1 # 0
    BY <1>1, <1>2
  <2>3. /\ Hist(r) \in Seq(Seq(Char)) /\ Len(Hist(r)) = r.size - 1
    BY <1>2, <2>2, HistLines
  <2> QED BY <2>1, <2>2, <2>3
<1>5. /\ Tail(Hist(b)) \in Seq(Seq(Char)) /\ Len(Tail(Hist(b))) = b.size - 2
      /\ \A n \in 1..(b.size - 2) : Tail(Hist(b))[n] = Hist(b)[n + 1]
  BY <1>1, <1>4
<1>6. ASSUME NEW n \in 1..(b.size - 2) PROVE Hist(r)[n] = Hist(b)[n + 1]
  <2>1. /\ r.absolute + (n - 1) = b.absolute + ((n + 1) - 1)
        /\ r.absolute + (n - 1) \in (b.absolute + 1)..(linebuf_end(b) - 1)
        /\ n \in 1..(r.size - 1) /\ n + 1 \in 1..(b.size - 1)
    BY <1>1, <1>2 DEF linebuf_end
  <2>2. /\ Hist(r)[n] = linebuf_get_line(r, r.absolute + (n - 1)).text
        /\ Hist(b)[n + 1] = linebuf_get_line(b, b.absolute + ((n + 1) - 1)).text
    BY <1>2, <2>1, HistLines
  <2>3. linebuf_get_line(r, r.absolute + (n - 1)) = linebuf_get_line(b, r.absolute + (n - 1))
    BY <1>3, <2>1 DEF SameLines
  <2> QED BY <2>1, <2>2, <2>3
<1>7. Hist(r) = Tail(Hist(b))
  BY <1>1, <1>4, <1>5, <1>6, SeqEqual
<1> QED BY <1>4, <1>7 DEF r

(* A newline adds the last line to the history, and in a full ring drops *)
(* the first one.                                                         *)
LEMMA NewlineHist ==
    ASSUME NEW b \in LineBuffer, RingOK(b), b.size > 0
    PROVE  LET r == linebuf_newline(b)
               texts == Append(Hist(b), b.edit.text)
           IN  /\ Len(texts) = b.size
               /\ b.size < Capacity => Hist(r) = texts
               /\ b.size = Capacity => Hist(r) = Tail(texts)
<1> DEFINE r == linebuf_newline(b)
           texts == Append(Hist(b), b.edit.text)
<1>1. b.absolute \in Nat /\ b.size \in Nat /\ b.edit.text \in Seq(Char) /\ b.size <= Capacity
  BY LineBufAssumption DEF LineBuffer, Editor
<1>2. r \in LineBuffer /\ r.size \in Nat /\ r.absolute \in Nat
  BY NewlineRing, LineBufAssumption DEF LineBuffer
<1>3. /\ SameLines(b, r, r.absolute..(linebuf_end(b) - 1))
      /\ b.size < Capacity => r.absolute = b.absolute /\ r.size = b.size + 1
      /\ b.size = Capacity => r.absolute = b.absolute + 1 /\ r.size = b.size
  BY NewlineLines
<1>4. /\ Hist(b) \in Seq(Seq(Char)) /\ Len(Hist(b)) = b.size - 1
      /\ Hist(r) \in Seq(Seq(Char)) /\ Len(Hist(r)) = IF r.size = 0 THEN 0 ELSE r.size - 1
  BY <1>1, <1>2, HistLines
<1>5. /\ texts \in Seq(Seq(Char)) /\ Len(texts) = b.size /\ texts[b.size] = b.edit.text
      /\ \A n \in 1..(b.size - 1) : texts[n] = Hist(b)[n]
  BY <1>1, <1>4
<1> HIDE DEF r, texts
<1>6. ASSUME NEW n \in 1..b.size PROVE texts[n] = linebuf_get_line(b, b.absolute + (n - 1)).text
  <2>1. CASE n = b.size
    <3>1. b.absolute + (n - 1) = linebuf_end(b) - 1
      BY <1>1, <2>1 DEF linebuf_end
    <3> QED BY <1>5, <2>1, <3>1, LastText
  <2>2. CASE n # b.size
    <3>1. n \in 1..(b.size - 1)
      BY <1>1, <2>2
    <3>2. Hist(b)[n] = linebuf_get_line(b, b.absolute + (n - 1)).text
      BY <3>1, HistLines
    <3> QED BY <1>5, <3>1, <3>2
  <2> QED BY <2>1, <2>2
<1>7. ASSUME NEW n \in 1..(r.size - 1), NEW m \in 1..b.size,
             r.absolute + (n - 1) = b.absolute + (m - 1)
      PROVE  Hist(r)[n] = texts[m]
  <2>1. r.absolute + (n - 1) \in r.absolute..(linebuf_end(b) - 1)
    BY <1>1, <1>2, <1>7 DEF linebuf_end
  <2>2. linebuf_get_line(r, r.absolute + (n - 1)) = linebuf_get_line(b, r.absolute + (n - 1))
    BY <1>3, <2>1 DEF SameLines
  <2>3. Hist(r)[n] = linebuf_get_line(r, r.absolute + (n - 1)).text
    BY <1>2, HistLines
  <2> QED BY <1>6, <1>7, <2>2, <2>3
<1>8. ASSUME b.size < Capacity PROVE Hist(r) = texts
  <2>1. r.absolute = b.absolute /\ r.size = b.size + 1
    BY <1>3, <1>8
  <2>2. ASSUME NEW n \in 1..b.size PROVE Hist(r)[n] = texts[n]
    <3>1. n \in 1..(r.size - 1) /\ r.absolute + (n - 1) = b.absolute + (n - 1)
      BY <1>1, <2>1
    <3> QED BY <1>7, <3>1
  <2>3. Len(Hist(r)) = b.size
    BY <1>1, <1>4, <2>1
  <2>4. Hist(r) = texts
    BY <1>4, <1>5, <2>2, <2>3, SeqEqual
  <2> QED BY <2>4
<1>9. ASSUME b.size = Capacity PROVE Hist(r) = Tail(texts)
  <2>1. r.absolute = b.absolute + 1 /\ r.size = b.size
    BY <1>3, <1>9
  <2>2. ASSUME NEW n \in 1..(b.size - 1) PROVE Hist(r)[n] = texts[n + 1]
    <3>1. /\ n \in 1..(r.size - 1) /\ n + 1 \in 1..b.size
          /\ r.absolute + (n - 1) = b.absolute + ((n + 1) - 1)
      BY <1>1, <2>1
    <3> QED BY <1>7, <3>1
  <2>3. Len(Hist(r)) = b.size - 1
    BY <1>1, <1>4, <2>1
  <2>4. /\ Tail(texts) \in Seq(Seq(Char)) /\ Len(Tail(texts)) = b.size - 1
        /\ \A n \in 1..(b.size - 1) : Tail(texts)[n] = texts[n + 1]
    BY <1>1, <1>5
  <2>5. Hist(r) = Tail(texts)
    BY <1>4, <2>2, <2>3, <2>4, SeqEqual
  <2> QED BY <2>5
<1> QED BY <1>5, <1>8, <1>9 DEF r, texts

(* What the backlog test measures is the text of the history. *)
LEMMA HistSize ==
    ASSUME NEW b \in LineBuffer, b.size > 0, Totals(b)
    PROVE  Abstract!TextSize(Hist(b)) = b.total_size_except_last
<1> DEFINE h == Hist(b)
           sizes == [n \in 0..(Len(h) - 1) |-> Len(h[n + 1])]
<1>1. b.size \in Nat /\ b.size - 1 \in Nat /\ b.absolute \in Nat
  BY LineBufAssumption DEF LineBuffer
<1>2. Len(h) = b.size - 1
  BY <1>1, HistLines
<1>3. ASSUME NEW n \in 0..((b.size - 1) - 1) PROVE sizes[n] = LineSizes(b)[n]
  <2>1. n + 1 \in 1..(b.size - 1) /\ (n + 1) - 1 = n /\ n \in 0..(b.size - 1)
    BY <1>1
  <2>2. sizes[n] = Len(h[n + 1])
    BY <1>2
  <2>3. h[n + 1] = linebuf_get_line(b, b.absolute + n).text
    BY <2>1, HistLines
  <2>4. LineSizes(b)[n] = Len(linebuf_get_line(b, b.absolute + n).text)
    BY <2>1, LineCounts
  <2> QED BY <2>2, <2>3, <2>4
<1> HIDE DEF sizes, h
<1>4. SumTo(sizes, b.size - 1) = SumTo(LineSizes(b), b.size - 1)
  BY <1>1, <1>3, SumSame
<1>5. Abstract!TextSize(h) = SumTo(sizes, Len(h))
  BY DEF Abstract!TextSize, Abstract!SumTo, SumTo, sizes
<1> QED BY <1>1, <1>2, <1>4, <1>5 DEF Totals, h

(* Before the first line there is no text. *)
EmptyStart == buf.size = 0 => buf.edit.text = <<>>

(* The variables of Scrollback after a step that only lays lines out *)
SameView(b, r) == r.absolute = b.absolute /\ Hist(r) = Hist(b) /\ r.edit.text = b.edit.text

(* Laying out a line keeps its text. *)
LEMMA LayoutView ==
    ASSUME NEW b \in LineBuffer, RingOK(b), NEW w \in Nat \ {0}, NEW abs \in Nat,
           b.absolute <= abs, abs < linebuf_end(b)
    PROVE  SameView(b, linebuf_layout_line(b, abs, w))
<1> DEFINE r == linebuf_layout_line(b, abs, w)
           FL == linebuf_get_line(b, abs)
<1>1. b.absolute \in Nat /\ b.size \in Nat
  BY LineBufAssumption DEF LineBuffer
<1>2. r \in LineBuffer /\ r.size = b.size /\ r.absolute = b.absolute
  BY LayoutLine
<1>3. /\ SameLines(b, r, (b.absolute..(linebuf_end(b) - 1)) \ {abs})
      /\ linebuf_get_line(r, abs) = [FL EXCEPT !.rows = Rows(FL.text, w)]
  BY LayoutLines
<1>4. abs \in b.absolute..(linebuf_end(b) - 1)
  BY <1>1 DEF linebuf_end
<1>5. FL \in Fline
  BY <1>4, LineType
<1> HIDE DEF r
<1>6. linebuf_get_line(r, abs).text = FL.text
  BY <1>3, <1>5 DEF Fline
<1>7. \A k \in b.absolute..(linebuf_end(b) - 1) :
        linebuf_get_line(r, k).text = linebuf_get_line(b, k).text
  BY <1>3, <1>6 DEF SameLines
<1>8. Hist(r) = Hist(b)
  <2>1. \A k \in b.absolute..(linebuf_end(b) - 2) : k \in b.absolute..(linebuf_end(b) - 1)
    BY <1>1 DEF linebuf_end
  <2> QED BY <1>2, <1>7, <2>1, SameHist
<1>9. r.edit.text = b.edit.text
  <2>1. /\ linebuf_end(b) - 1 \in b.absolute..(linebuf_end(b) - 1)
        /\ linebuf_end(r) = linebuf_end(b)
    BY <1>1, <1>2, <1>4 DEF linebuf_end
  <2> QED BY <1>2, <1>7, <2>1, LastText
<1> QED BY <1>2, <1>8, <1>9 DEF SameView, r

(* Every step of the console is a step of the scrollback, or none. *)
LEMMA StepRefines ==
    IInv /\ TotalsRight /\ EmptyStart /\ [Next]_vars
        => EmptyStart' /\ [Abstract!Next]_(Abstract!svars)
<1> SUFFICES ASSUME IInv, TotalsRight, EmptyStart, [Next]_vars
             PROVE  EmptyStart' /\ [Abstract!Next]_(Abstract!svars)
  OBVIOUS
<1>1. /\ buf \in LineBuffer /\ RingOK(buf) /\ buf.size \in 0..Capacity
      /\ buf.size \in Nat /\ Capacity \in Nat \ {0} /\ buf.absolute \in Nat
      /\ buf.size = 0 => pc = "newline"
  BY LineBufAssumption DEF IInv, Types, BufferOK, LineBuffer
<1>2. ASSUME SameView(buf, buf'), buf'.size > 0 \/ buf' = buf
      PROVE  EmptyStart' /\ [Abstract!Next]_(Abstract!svars)
  <2>1. EmptyStart'
    BY <1>2 DEF EmptyStart
  <2>2. UNCHANGED Abstract!svars
    BY <1>2 DEF SameView, Hist, Abstract!svars
  <2> QED BY <2>1, <2>2
<1>3. CASE console_newline
  <2>1. buf' = linebuf_newline(buf)
    BY <1>3 DEF console_newline
  <2>2. buf' \in LineBuffer /\ buf'.edit = stredit_init /\ buf'.size > 0
    BY <1>1, <2>1, NewlineRing
  <2>3. buf'.edit.text = <<>>
    BY <2>2, NewEditor
  <2>4. /\ buf.size < Capacity => buf'.absolute = buf.absolute /\ buf'.size = buf.size + 1
        /\ buf.size = Capacity => buf'.absolute = buf.absolute + 1 /\ buf'.size = buf.size
    BY <1>1, <2>1, NewlineLines
  <2>5. CASE buf.size = 0
    <3>1. buf'.absolute = buf.absolute /\ buf'.size = 1
      BY <1>1, <2>4, <2>5
    <3>2. Hist(buf') = Hist(buf)
      <4>1. /\ Hist(buf) \in Seq(Seq(Char)) /\ Hist(buf') \in Seq(Seq(Char))
            /\ Len(Hist(buf)) = 0
        BY <1>1, <2>2, <2>5, HistLines
      <4>2. Len(Hist(buf')) = 0
        BY <2>2, <3>1, HistLines
      <4> QED BY <4>1, <4>2
    <3> QED BY <1>2, <2>2, <2>3, <2>5, <3>1, <3>2 DEF SameView, EmptyStart
  <2>6. CASE buf.size > 0
    <3> DEFINE texts == Append(Hist(buf), buf.edit.text)
    <3>1. /\ Len(texts) = buf.size
          /\ buf.size < Capacity => Hist(buf') = texts
          /\ buf.size = Capacity => Hist(buf') = Tail(texts)
      BY <1>1, <2>1, <2>6, NewlineHist
    <3>2. IF Len(texts) = Capacity
          THEN Hist(buf') = Tail(texts) /\ buf'.absolute = buf.absolute + 1
          ELSE Hist(buf') = texts /\ buf'.absolute = buf.absolute
      BY <1>1, <2>4, <3>1
    <3>3. Abstract!Newline
      BY <2>3, <3>2 DEF Abstract!Newline, Hist
    <3>4. EmptyStart'
      BY <2>2 DEF EmptyStart
    <3> QED BY <3>3, <3>4 DEF Abstract!Next
  <2> QED BY <1>1, <2>5, <2>6
<1>4. CASE linebuf_clean_backlog
  <2>1. /\ buf' = linebuf_recycle_oldest_line(buf) /\ buf.size > 1 /\ buf.size > 0
        /\ buf.total_size_except_last + Len(buf.edit.text) > Backlog
    BY <1>1, <1>4 DEF linebuf_clean_backlog, linebuf_over_backlog
  <2>2. /\ buf'.size = buf.size - 1 /\ buf'.absolute = buf.absolute + 1 /\ buf'.edit = buf.edit
    BY <1>1, <2>1, RecycleFields
  <2>3. Hist(buf) # <<>> /\ Hist(buf') = Tail(Hist(buf))
    BY <1>1, <2>1, RecycleHist
  <2>4. Abstract!TextSize(Hist(buf)) = buf.total_size_except_last
    BY <1>1, <2>1, HistSize DEF TotalsRight
  <2>5. Abstract!TextSize(Hist(buf)) + Len(buf.edit.text) > Backlog
    BY <2>1, <2>4
  <2>6. Abstract!Drop
    BY <2>2, <2>3, <2>5 DEF Abstract!Drop, Hist
  <2>7. EmptyStart'
    BY <1>1, <2>1, <2>2 DEF EmptyStart
  <2> QED BY <2>6, <2>7 DEF Abstract!Next
<1>5. CASE EditsLine
  <2>1. pc # "newline"
    BY <1>5 DEF EditsLine
  <2>2. PICK e \in Editor : /\ buf' = [buf EXCEPT !.edit = e]
                            /\ e.raw = buf.edit.raw /\ Len(e.text) <= MaxLine
    BY <1>5 DEF EditsLine
  <2>3. /\ buf' \in LineBuffer /\ buf'.edit = e
        /\ buf'.size = buf.size /\ buf'.absolute = buf.absolute
    BY <1>1, <2>2, EditLast
  <2>4. SameLines(buf, buf', buf.absolute..(linebuf_end(buf) - 2))
    BY <1>1, <2>2, EditLines
  <2>5. Hist(buf') = Hist(buf)
    BY <1>1, <2>3, <2>4, SameHist DEF SameLines
  <2>6. buf'.edit.text \in Seq(Char) /\ Len(buf'.edit.text) <= MaxLine
    BY <2>2, <2>3 DEF Editor
  <2>7. Abstract!Edit
    BY <2>3, <2>5, <2>6 DEF Abstract!Edit, Hist
  <2>8. EmptyStart'
    BY <1>1, <2>1, <2>3 DEF EmptyStart
  <2> QED BY <2>7, <2>8 DEF Abstract!Next
<1>6. CASE linebuf_update_render
  <2>1. /\ pc = "view" /\ job.abs < linebuf_end(buf)
        /\ buf' = linebuf_layout_line(buf, job.abs, render_width)
    BY <1>6 DEF linebuf_update_render
  <2>2. render_width \in Nat \ {0} /\ job.abs \in Nat /\ buf.absolute <= job.abs
    BY <2>1 DEF IInv, Types, JobOK, Job
  <2>3. SameView(buf, buf')
    BY <1>1, <2>1, <2>2, LayoutView
  <2>4. buf'.size = buf.size
    BY <1>1, <2>1, <2>2, LayoutLine
  <2>5. buf'.size > 0
    BY <1>1, <2>1, <2>4
  <2> QED BY <1>2, <2>3, <2>5
<1>7. CASE render_return
  <2>1. buf' = linebuf_layout_end(buf) /\ pc = "view"
    BY <1>7 DEF render_return
  <2>2. /\ buf' \in LineBuffer /\ buf'.edit = buf.edit /\ buf'.size = buf.size
        /\ buf'.absolute = buf.absolute /\ buf'.lines = buf.lines /\ buf'.start = buf.start
    BY <1>1, <2>1, LayoutEnd
  <2>3. Hist(buf') = Hist(buf)
    BY <2>2 DEF Hist, linebuf_get_nth_line, linebuf_nth_to_index
  <2>4. buf'.size > 0
    BY <1>1, <2>1, <2>2
  <2> QED BY <1>2, <2>2, <2>3, <2>4 DEF SameView
<1>8. CASE newline_return \/ KeepsBuffer \/ (\E w \in Widths : Render(w)) \/ UNCHANGED vars
  <2>1. buf' = buf
    BY <1>8 DEF newline_return, KeepsBuffer, Render, vars
  <2>2. SameView(buf, buf')
    BY <2>1 DEF SameView
  <2> QED BY <1>2, <2>1, <2>2
<1> QED BY <1>3, <1>4, <1>5, <1>6, <1>7, <1>8, StepOfBuffer DEF BufferStep

(***************************************************************************)
(* The console implements the scrollback: whatever the ring's size, its    *)
(* history is only extended at the end and dropped from the front, and     *)
(* only in a full ring or over the backlog.                                *)
(***************************************************************************)
THEOREM ConsoleImplementsScrollback == Spec => RefinesScrollback
<1>1. Init => EmptyStart /\ Abstract!Init
  <2> SUFFICES ASSUME Init PROVE EmptyStart /\ Abstract!Init
    OBVIOUS
  <2>1. buf.size = 0 /\ buf.absolute = 1 /\ buf.edit.text = <<>> /\ buf \in LineBuffer
    BY InitIInv DEF Init, linebuf_init, stredit_cleared, IInv, Types
  <2>2. Hist(buf) = <<>>
    BY <2>1, HistLines
  <2> QED BY <2>1, <2>2 DEF EmptyStart, Abstract!Init, Hist
<1> QED BY <1>1, StepRefines, Invariance, TotalsInvariant, PTL
     DEF Spec, RefinesScrollback, Abstract!Spec

-----------------------------------------------------------------------------
(* Third part: the frame. What console_render() is given is any console    *)
(* without blank lines (ConsoleRenderBlank.cfg shows what those do), laid  *)
(* out, with a clamped scroll position.                                    *)

NoBlankLines == 0 \notin Lengths

(* What is drawn: neither loop changes it. *)
InputOK ==
    /\ lines \in Seq(Nat \ {0}) /\ Len(lines) > 0
    /\ width \in Nat \ {0} /\ height \in Nat \ {0}
    /\ pos \in ScrollRange(TotalRows, height)
    /\ caret \in 0..lines[Len(lines)]

(* The row of the layout above the first one in view *)
TopRow == IF TotalRows < height THEN 0 ELSE TotalRows - height - pos

(* The number of rows of the view above the row line_y *)
RowsShown == IF line_y < 0 THEN 0 ELSE Least(line_y, height)

(* The scan keeps the distance from the bottom of the view; the drawing    *)
(* keeps the distance from its top and has drawn the rows in between.      *)
FrameInv ==
    /\ i \in 1..(Len(lines) + 1)
    /\ phase \in {"scan", "draw", "done"}
    /\ phase = "scan" =>
         line_y = height + pos - (TotalRows - RowsAbove(i)) /\ screen = <<>> /\ marks = {}
    /\ phase # "scan" =>
         /\ line_y = RowsAbove(i) - TopRow
         /\ screen = [k \in 1..RowsShown |-> AllRows[TopRow + k]]
    /\ phase = "done" => i = Len(lines) + 1 \/ line_y >= height

(* Until the last line is drawn there is neither a cursor nor a row of it. *)
CaretInv ==
    /\ i <= Len(lines) => marks = {} /\ \A k \in 1..Len(screen) : screen[k][1] \in 1..(i - 1)
    /\ i = Len(lines) + 1 =>
        /\ \A m \in marks :
             /\ m[1] + 1 <= Len(screen) /\ screen[m[1] + 1][1] = Len(lines)
             /\ screen[m[1] + 1][2] * width + m[2] = caret
        /\ (marks = {}) =>
             ~\E k \in 1..Len(screen) :
                /\ screen[k][1] = Len(lines)
                /\ caret \in (screen[k][2] * width)..((screen[k][2] + 1) * width)

(* A line that is not blank has at least a row, and all of them are drawn. *)
LEMMA RowCount ==
    ASSUME InputOK, NEW n \in Nat \ {0}
    PROVE  render_lines(n) \in Nat \ {0} /\ drawn_lines(n) = render_lines(n)
<1>1. ASSUME NEW w \in Nat \ {0} PROVE (n + w - 1) \div w \in Nat \ {0}
  <2> DEFINE a == n + w - 1
             q == a \div w
             r == a % w
  <2>1. a \in Nat /\ a >= w
    OBVIOUS
  <2> HIDE DEF a
  <2>2. r \in 0..(w - 1) /\ a = w * q + r /\ q \in Int
    BY <2>1
  <2> HIDE DEF q, r
  <2>3. q > 0
    <3>1. q <= 0 => w * q <= 0
      BY <2>2
    <3>2. w * q \in Int
      BY <2>2
    <3> QED BY <2>1, <2>2, <3>1, <3>2
  <2> QED BY <2>2, <2>3 DEF q, a
<1> QED BY <1>1 DEF InputOK, render_lines, drawn_lines

(* The rows above each line *)
LEMMA AboveNext ==
    ASSUME InputOK
    PROVE  /\ RowsAbove(1) = 0
           /\ \A k \in 1..(Len(lines) + 1) : RowsAbove(k) \in Nat
           /\ \A k \in 1..Len(lines) : RowsAbove(k + 1) = RowsAbove(k) + render_lines(lines[k])
<1> DEFINE f == [n \in 0..(Len(lines) - 1) |-> render_lines(lines[n + 1])]
           N == Len(lines)
<1>0. N \in Nat /\ \A k \in 1..N : lines[k] \in Nat \ {0}
  BY DEF InputOK
<1>1. \A n \in 0..(N - 1) : f[n] = render_lines(lines[n + 1]) /\ f[n] \in Nat \ {0}
  <2> SUFFICES ASSUME NEW n \in 0..(N - 1)
               PROVE  f[n] = render_lines(lines[n + 1]) /\ f[n] \in Nat \ {0}
    OBVIOUS
  <2>1. n + 1 \in 1..N
    BY <1>0
  <2>2. lines[n + 1] \in Nat \ {0}
    BY <1>0, <2>1
  <2>3. render_lines(lines[n + 1]) \in Nat \ {0}
    BY <2>2, RowCount
  <2> QED BY <2>3
<1>2. \A k : RowsAbove(k) = SumTo(f, k - 1)
  BY DEF RowsAbove
<1> HIDE DEF f, N
<1>3. \A k \in 0..N : SumTo(f, k) \in Nat
  <2> DEFINE T == {k \in 0..N : SumTo(f, k) \notin Nat}
  <2> SUFFICES ASSUME T # {} PROVE FALSE
    OBVIOUS
  <2>1. T \subseteq Nat
    OBVIOUS
  <2>2. PICK k \in T : \A j \in T : k <= j
    BY <2>1, LeastNat
  <2>3. k # 0
    BY SumRecursion
  <2>4. k - 1 \in Nat /\ k - 1 \in 0..N /\ k - 1 \notin T /\ k - 1 \in 0..(N - 1) /\ (k - 1) + 1 = k
    BY <1>0, <2>2, <2>3
  <2>5. SumTo(f, k) = SumTo(f, k - 1) + f[k - 1]
    BY <2>4, SumRecursion
  <2> QED BY <1>1, <2>4, <2>5
<1>4. RowsAbove(1) = 0
  BY <1>2, SumRecursion
<1>5. ASSUME NEW k \in 1..(N + 1) PROVE RowsAbove(k) \in Nat
  <2>1. k - 1 \in 0..N
    BY <1>0
  <2> QED BY <1>2, <1>3, <2>1
<1>6. ASSUME NEW k \in 1..N PROVE RowsAbove(k + 1) = RowsAbove(k) + render_lines(lines[k])
  <2>1. k - 1 \in Nat /\ k - 1 \in 0..(N - 1) /\ (k - 1) + 1 = k /\ (k + 1) - 1 = k
    BY <1>0
  <2>2. SumTo(f, k) = SumTo(f, k - 1) + f[k - 1]
    BY <2>1, SumRecursion
  <2>3. f[k - 1] = render_lines(lines[k])
    BY <1>1, <2>1
  <2> QED BY <1>2, <2>1, <2>2, <2>3
<1> QED BY <1>4, <1>5, <1>6 DEF N

(* They grow from line to line. *)
LEMMA AboveGrows ==
    ASSUME InputOK, NEW k \in 1..(Len(lines) + 1)
    PROVE  \A j \in k..(Len(lines) + 1) : RowsAbove(k) <= RowsAbove(j)
<1> DEFINE N == Len(lines)
           T == {j \in k..(N + 1) : ~(RowsAbove(k) <= RowsAbove(j))}
<1> SUFFICES ASSUME T # {} PROVE FALSE
  OBVIOUS
<1>0. N \in Nat /\ \A j \in 1..N : lines[j] \in Nat \ {0}
  BY DEF InputOK
<1> HIDE DEF N
<1>1. T \subseteq Nat
  BY <1>0 DEF N
<1>2. PICK j \in T : \A l \in T : j <= l
  BY <1>1, LeastNat
<1>3. RowsAbove(k) \in Nat /\ RowsAbove(j) \in Nat
  BY <1>0, AboveNext DEF N
<1>4. j # k
  BY <1>2, <1>3
<1>5. j - 1 \in k..(N + 1) /\ j - 1 \notin T /\ j - 1 \in 1..N /\ (j - 1) + 1 = j
      /\ j - 1 \in 1..(N + 1)
  BY <1>0, <1>2, <1>4 DEF N
<1>6. RowsAbove(j) = RowsAbove(j - 1) + render_lines(lines[j - 1]) /\ RowsAbove(j - 1) \in Nat
  BY <1>5, AboveNext DEF N
<1>7. render_lines(lines[j - 1]) \in Nat
  BY <1>0, <1>5, RowCount
<1>8. RowsAbove(k) <= RowsAbove(j - 1) /\ ~(RowsAbove(k) <= RowsAbove(j))
  BY <1>5
<1> QED BY <1>3, <1>6, <1>7, <1>8

(* A row of the layout is found in its line. *)
LEMMA RowOfLine ==
    ASSUME InputOK, NEW k \in 1..Len(lines), NEW p \in Int,
           RowsAbove(k) < p, p <= RowsAbove(k + 1)
    PROVE  p \in 1..TotalRows /\ AllRows[p] = <<k, p - 1 - RowsAbove(k)>>
<1> DEFINE N == Len(lines)
<1>0. N \in Nat /\ k \in 1..(N + 1) /\ k + 1 \in 1..(N + 1)
  BY DEF InputOK
<1>1. RowsAbove(k) \in Nat /\ RowsAbove(k + 1) \in Nat /\ RowsAbove(N + 1) \in Nat
  BY <1>0, AboveNext
<1>2. RowsAbove(k + 1) <= RowsAbove(N + 1)
  BY <1>0, AboveGrows
<1>3. p \in 1..TotalRows
  BY <1>1, <1>2 DEF TotalRows
<1>4. ASSUME NEW j \in 1..N, RowsAbove(j) < p, p <= RowsAbove(j + 1) PROVE j = k
  <2>1. j \in 1..(N + 1) /\ j + 1 \in 1..(N + 1)
    BY <1>0
  <2>2. RowsAbove(j) \in Nat /\ RowsAbove(j + 1) \in Nat
    BY <2>1, AboveNext
  <2>3. ~(j < k)
    <3> SUFFICES ASSUME j < k PROVE FALSE
      OBVIOUS
    <3>1. k \in (j + 1)..(N + 1)
      BY <1>0
    <3>2. RowsAbove(j + 1) <= RowsAbove(k)
      BY <2>1, <3>1, AboveGrows
    <3> QED BY <1>1, <1>4, <2>2, <3>2
  <2>4. ~(k < j)
    <3> SUFFICES ASSUME k < j PROVE FALSE
      OBVIOUS
    <3>1. j \in (k + 1)..(N + 1)
      BY <1>0
    <3>2. RowsAbove(k + 1) <= RowsAbove(j)
      BY <1>0, <3>1, AboveGrows
    <3> QED BY <1>1, <1>4, <2>2, <3>2
  <2> QED BY <1>0, <2>3, <2>4
<1>5. LineOfRow(p) = k
  <2>1. RowsAbove(k) < p /\ p <= RowsAbove(k + 1)
    OBVIOUS
  <2> QED BY <1>4, <2>1 DEF LineOfRow
<1> QED BY <1>3, <1>5 DEF AllRows

(* A function on 1..n is a sequence of length n, *)
LEMMA SeqOf ==
    ASSUME NEW n \in Nat, NEW s, s = [k \in 1..n |-> s[k]], NEW S, \A k \in 1..n : s[k] \in S
    PROVE  s \in Seq(S) /\ Len(s) = n
<1>1. s \in [1..n -> S]
  OBVIOUS
<1>2. s \in Seq(S)
  BY <1>1, SeqDef
<1> QED BY <1>1, <1>2, LenProperties

(* and two of them are joined end to end. *)
LEMMA Joined ==
    ASSUME NEW n \in Nat, NEW s, s = [k \in 1..n |-> s[k]],
           NEW m \in Nat, NEW t, t = [k \in 1..m |-> t[k]]
    PROVE  s \o t = [k \in 1..(n + m) |-> IF k <= n THEN s[k] ELSE t[k - n]]
<1> DEFINE S == {s[k] : k \in 1..n} \cup {t[k] : k \in 1..m}
<1>1. (\A k \in 1..n : s[k] \in S) /\ (\A k \in 1..m : t[k] \in S)
  OBVIOUS
<1> HIDE DEF S
<1>2. s \in Seq(S) /\ Len(s) = n /\ t \in Seq(S) /\ Len(t) = m
  BY <1>1, SeqOf
<1> QED BY <1>2

(* The layout depends on the input only. *)
LEMMA SameLayout ==
    ASSUME UNCHANGED <<lines, width, height, pos, caret>>
    PROVE  /\ \A k : RowsAbove(k)' = RowsAbove(k)
           /\ TotalRows' = TotalRows /\ AllRows' = AllRows /\ TopRow' = TopRow
           /\ InputOK => InputOK'
<1>1. \A n : render_lines(n)' = render_lines(n)
  BY DEF render_lines
<1>2. \A k : RowsAbove(k)' = RowsAbove(k)
  BY <1>1 DEF RowsAbove
<1>3. TotalRows' = TotalRows
  BY <1>2 DEF TotalRows
<1>4. \A p : LineOfRow(p)' = LineOfRow(p)
  BY <1>2 DEF LineOfRow
<1>5. AllRows' = AllRows
  BY <1>2, <1>3, <1>4 DEF AllRows
<1>6. TopRow' = TopRow
  BY <1>3 DEF TopRow
<1>7. InputOK => InputOK'
  BY <1>3 DEF InputOK, ScrollRange
<1> QED BY <1>2, <1>3, <1>5, <1>6, <1>7

(* The numbers that the loops work with *)
LEMMA LayoutNumbers ==
    ASSUME InputOK
    PROVE  /\ Len(lines) \in Nat \ {0} /\ TotalRows \in Nat /\ TopRow \in Nat /\ pos \in Nat
           /\ height \in Nat \ {0} /\ width \in Nat \ {0}
           /\ TotalRows < height => pos = 0
           /\ TotalRows >= height => pos <= TotalRows - height
<1>1. Len(lines) \in Nat \ {0} /\ height \in Nat \ {0} /\ width \in Nat \ {0}
  BY DEF InputOK
<1>2. TotalRows \in Nat
  BY <1>1, AboveNext DEF TotalRows
<1>3. /\ pos \in Nat
      /\ TotalRows < height => pos = 0
      /\ TotalRows >= height => pos <= TotalRows - height
  BY <1>1, <1>2 DEF InputOK, ScrollRange
<1>4. TopRow \in Nat
  BY <1>1, <1>2, <1>3 DEF TopRow
<1> QED BY <1>1, <1>2, <1>3, <1>4

LEMMA InitFrame == ASSUME NoBlankLines, RenderInit PROVE InputOK /\ FrameInv /\ CaretInv
<1>1. PICK n \in 1..MaxLines : lines \in [1..n -> Lengths]
  BY DEF RenderInit
<1>2. n \in Nat \ {0} /\ lines = [k \in 1..n |-> lines[k]] /\ \A k \in 1..n : lines[k] \in Nat \ {0}
  <2>1. n \in Nat \ {0}
    BY RenderAssumption
  <2>2. lines = [k \in 1..n |-> lines[k]]
    BY <1>1
  <2>3. \A k \in 1..n : lines[k] \in Lengths
    BY <1>1
  <2> QED BY <2>1, <2>2, <2>3, RenderAssumption DEF NoBlankLines
<1>3. lines \in Seq(Nat \ {0}) /\ Len(lines) = n
  BY <1>2, SeqOf
<1>4. InputOK
  BY <1>2, <1>3, RenderAssumption DEF InputOK, RenderInit
<1>5. /\ i = Len(lines) + 1 /\ phase = "scan" /\ line_y = height + pos /\ screen = <<>> /\ marks = {}
  BY DEF RenderInit
<1>6. RowsAbove(i) = TotalRows /\ TotalRows \in Nat /\ height \in Nat /\ pos \in Nat
  BY <1>4, <1>5, LayoutNumbers DEF TotalRows
<1>7. FrameInv
  BY <1>3, <1>2, <1>5, <1>6 DEF FrameInv
<1>8. CaretInv
  BY <1>5 DEF CaretInv
<1> QED BY <1>4, <1>7, <1>8

LEMMA ScanKeeps ==
    ASSUME InputOK, FrameInv, CaretInv, ScanUp \/ ScanEnd
    PROVE  FrameInv' /\ CaretInv'
<1> DEFINE N == Len(lines)
           A == RowsAbove(i)
           T == TotalRows
<1>1. UNCHANGED <<lines, width, height, pos, caret>> /\ UNCHANGED <<screen, marks>> /\ phase = "scan"
  BY DEF ScanUp, ScanEnd, input
<1>2. /\ \A k : RowsAbove(k)' = RowsAbove(k)
      /\ TotalRows' = T /\ AllRows' = AllRows /\ TopRow' = TopRow
  BY <1>1, SameLayout
<1>3. /\ N \in Nat \ {0} /\ T \in Nat /\ TopRow \in Nat /\ pos \in Nat /\ height \in Nat \ {0}
      /\ T < height => pos = 0
      /\ T >= height => pos <= T - height
  BY LayoutNumbers
<1>4. i \in 1..(N + 1) /\ line_y = height + pos - (T - A) /\ screen = <<>> /\ marks = {}
  BY <1>1 DEF FrameInv
<1>5. A \in Nat
  BY <1>4, AboveNext
<1>6. CaretInv'
  BY <1>1, <1>4 DEF CaretInv
<1>7. CASE ScanUp
  <2>1. i > 1 /\ i' = i - 1 /\ line_y' = line_y - render_lines(lines[i - 1]) /\ phase' = "scan"
    BY <1>1, <1>7 DEF ScanUp
  <2>2. i - 1 \in 1..N /\ (i - 1) + 1 = i /\ i - 1 \in 1..(N + 1)
    BY <1>3, <1>4, <2>1
  <2>3. A = RowsAbove(i - 1) + render_lines(lines[i - 1]) /\ RowsAbove(i - 1) \in Nat
    BY <2>2, AboveNext
  <2>4. lines[i - 1] \in Nat \ {0}
    BY <2>2 DEF InputOK
  <2>5. render_lines(lines[i - 1]) \in Nat
    BY <2>4, RowCount
  <2>6. line_y' = height + pos - (T - RowsAbove(i - 1))
    <3> DEFINE rows == render_lines(lines[i - 1])
               B == RowsAbove(i - 1)
    <3>1. A = B + rows /\ rows \in Nat /\ B \in Nat /\ line_y' = line_y - rows
      BY <2>1, <2>3, <2>5
    <3> HIDE DEF rows, A, B, T
    <3>2. line_y' = height + pos - (T - B)
      BY <1>3, <1>4, <1>5, <3>1
    <3> QED BY <3>2 DEF B
  <2>7. RowsAbove(i)' = RowsAbove(i - 1)
    BY <1>1, <2>1 DEF RowsAbove, render_lines
  <2>8. FrameInv'
    BY <1>1, <1>2, <1>4, <2>1, <2>2, <2>6, <2>7 DEF FrameInv
  <2> QED BY <1>6, <2>8
<1>8. CASE ScanEnd
  <2>1. ~(i > 1 /\ line_y > 0) /\ phase' = "draw" /\ line_y' = Least(line_y, pos) /\ i' = i
    BY <1>8 DEF ScanEnd
  <2>2. i = 1 => A = 0
    BY AboveNext
  <2>3. line_y' = A - TopRow /\ line_y' <= 0
    <3>1. line_y' = IF line_y < pos THEN line_y ELSE pos
      BY <2>1 DEF Least
    <3>2. TopRow = IF T < height THEN 0 ELSE T - height - pos
      BY DEF TopRow
    <3> HIDE DEF A, T
    <3>3. i = 1 \/ line_y <= 0
      BY <1>3, <1>4, <1>5, <2>1
    <3>4. CASE T < height
      BY <1>3, <1>4, <1>5, <2>2, <3>1, <3>2, <3>3, <3>4
    <3>5. CASE T >= height
      BY <1>3, <1>4, <1>5, <2>2, <3>1, <3>2, <3>3, <3>5
    <3> QED BY <1>3, <3>4, <3>5
  <2>4. RowsShown' = 0
    BY <1>1, <1>3, <2>3, <1>5 DEF RowsShown, Least
  <2>5. RowsAbove(i)' = A
    BY <1>1, <2>1 DEF RowsAbove, render_lines
  <2>6. screen' = [k \in 1..RowsShown' |-> AllRows'[TopRow' + k]]
    BY <1>1, <1>4, <2>4
  <2>7. FrameInv'
    BY <1>1, <1>2, <1>4, <2>1, <2>3, <2>5, <2>6 DEF FrameInv
  <2> QED BY <1>6, <2>7
<1> QED BY <1>7, <1>8

(* The rows of line i that are in view are an interval. *)
LEMMA RowsInView ==
    ASSUME InputOK, i \in 1..Len(lines), line_y \in Int, line_y < height
    PROVE  LET first == IF line_y < 0 THEN -line_y ELSE 0
               last == Least(render_lines(lines[i]), height - line_y) - 1
           IN  ShownRows = first..last /\ first \in Int /\ last \in Int
<1> DEFINE first == IF line_y < 0 THEN -line_y ELSE 0
           last == Least(render_lines(lines[i]), height - line_y) - 1
           rows == render_lines(lines[i])
<1>1. height \in Nat /\ lines[i] \in Nat \ {0}
  BY DEF InputOK
<1>2. rows \in Nat \ {0} /\ drawn_lines(lines[i]) = rows
  BY <1>1, RowCount
<1>3. ShownRows = {r \in 0..(rows - 1) : -line_y <= r /\ r < height - line_y}
  BY <1>2 DEF ShownRows
<1>4. last = (IF rows < height - line_y THEN rows ELSE height - line_y) - 1
  BY DEF Least
<1> HIDE DEF rows, last
<1>5. first \in Int /\ last \in Int
  BY <1>1, <1>2, <1>4
<1>6. ShownRows = first..last
  BY <1>1, <1>2, <1>3, <1>4
<1> QED BY <1>5, <1>6 DEF last, rows

LEMMA DrawKeeps ==
    ASSUME InputOK, FrameInv, CaretInv, DrawLine
    PROVE  FrameInv' /\ CaretInv'
<1> DEFINE N == Len(lines)
           A == RowsAbove(i)
           rows == render_lines(lines[i])
           first == IF line_y < 0 THEN -line_y ELSE 0
           last == Least(rows, height - line_y) - 1
           count == IF first > last THEN 0 ELSE last - first + 1
           drawn == [k \in 1..count |-> <<i, first + k - 1>>]
           D == RowsShown
<1>1. /\ UNCHANGED <<lines, width, height, pos, caret>> /\ phase = "draw" /\ phase' = "draw"
      /\ i <= N /\ line_y < height /\ line_y' = line_y + rows /\ i' = i + 1
      /\ screen' = screen \o [k \in {r - first + 1 : r \in ShownRows} |-> <<i, first + k - 1>>]
  BY DEF DrawLine, input
<1>2. TotalRows' = TotalRows /\ AllRows' = AllRows /\ TopRow' = TopRow
  BY <1>1, SameLayout
<1>3. /\ N \in Nat \ {0} /\ TopRow \in Nat /\ height \in Nat \ {0} /\ width \in Nat \ {0}
  BY LayoutNumbers
<1>4. /\ i \in 1..N /\ i \in 1..(N + 1) /\ line_y = A - TopRow
      /\ screen = [k \in 1..D |-> AllRows[TopRow + k]]
  BY <1>1, <1>3 DEF FrameInv
<1>5. A \in Nat /\ RowsAbove(i + 1) = A + rows
  BY <1>4, AboveNext
<1>6. lines[i] \in Nat \ {0} /\ rows \in Nat \ {0}
  <2>1. lines[i] \in Nat \ {0}
    BY <1>4 DEF InputOK
  <2> QED BY <2>1, RowCount
<1>7. line_y \in Int
  BY <1>3, <1>4, <1>5
<1>8. ShownRows = first..last /\ first \in Int /\ last \in Int
  BY <1>1, <1>4, <1>7, RowsInView
<1>8a. {r - first + 1 : r \in ShownRows} = 1..count
  <2> HIDE DEF first, last
  <2>1. ASSUME NEW k \in 1..count PROVE k \in {r - first + 1 : r \in first..last}
    <3>1. first + k - 1 \in first..last /\ (first + k - 1) - first + 1 = k
      BY <1>8
    <3> QED BY <3>1
  <2>2. ASSUME NEW r \in first..last PROVE r - first + 1 \in 1..count
    BY <1>8
  <2> QED BY <1>8, <2>1, <2>2
<1>9. last = (IF rows < height - line_y THEN rows ELSE height - line_y) - 1
  BY DEF Least
<1>10. D = IF line_y < 0 THEN 0 ELSE line_y
  BY <1>1, <1>3, <1>7 DEF RowsShown, Least
<1>11. RowsShown' = IF line_y + rows < 0 THEN 0 ELSE IF line_y + rows < height THEN line_y + rows ELSE height
  BY <1>1 DEF RowsShown, Least
<1>12. RowsAbove(i)' = A + rows
  <2>1. RowsAbove(i)' = RowsAbove(i + 1)
    BY <1>1 DEF RowsAbove, render_lines
  <2> QED BY <1>5, <2>1
<1>13a. screen' = screen \o drawn
  BY <1>1, <1>8a
<1>13b. count = IF first > last THEN 0 ELSE last - first + 1
  OBVIOUS
<1> HIDE DEF N, A, rows, last, count, D
<1>13. /\ D \in Nat /\ count \in Nat /\ RowsShown' = D + count /\ first \in Nat
       /\ line_y' = (A + rows) - TopRow
  BY <1>1, <1>3, <1>4, <1>5, <1>6, <1>7, <1>13b, <1>9, <1>10, <1>11
<1>14. ASSUME NEW k \in 1..count
       PROVE  AllRows[TopRow + (D + k)] = <<i, first + k - 1>>
  <2>1. /\ TopRow + (D + k) \in Int /\ A < TopRow + (D + k) /\ TopRow + (D + k) <= A + rows
        /\ TopRow + (D + k) - 1 - A = first + k - 1
    BY <1>1, <1>3, <1>4, <1>5, <1>6, <1>7, <1>13b, <1>9, <1>10
  <2>2. AllRows[TopRow + (D + k)] = <<i, TopRow + (D + k) - 1 - A>>
    <3> DEFINE p == TopRow + (D + k)
    <3>1. p \in Int /\ RowsAbove(i) < p /\ p <= RowsAbove(i + 1) /\ i \in 1..Len(lines)
      BY <1>4, <1>5, <2>1 DEF A, N
    <3> HIDE DEF p
    <3>2. AllRows[p] = <<i, p - 1 - RowsAbove(i)>>
      BY <3>1, RowOfLine
    <3>3. p - 1 - A = TopRow + (D + k) - 1 - A
      BY <1>3, <1>5, <1>13 DEF p
    <3> QED BY <3>2, <3>3 DEF p, A
  <2> QED BY <2>1, <2>2
<1>15. screen = [k \in 1..D |-> screen[k]] /\ drawn = [k \in 1..count |-> drawn[k]]
       /\ \A k \in 1..D : screen[k] = AllRows[TopRow + k]
  BY <1>4
<1>16. screen' = [k \in 1..(D + count) |-> IF k <= D THEN screen[k] ELSE drawn[k - D]]
  <2> HIDE DEF drawn
  <2> QED BY <1>13a, <1>13, <1>15, Joined
<1>17. screen' = [k \in 1..RowsShown' |-> AllRows[TopRow + k]]
  <2>1. ASSUME NEW k \in 1..(D + count)
        PROVE  (IF k <= D THEN screen[k] ELSE drawn[k - D]) = AllRows[TopRow + k]
    <3>1. CASE k <= D
      BY <1>13, <1>15, <3>1
    <3>2. CASE ~(k <= D)
      <4>1. k - D \in 1..count /\ D + (k - D) = k
        BY <1>13, <3>2
      <4>2. AllRows[TopRow + (D + (k - D))] = <<i, first + (k - D) - 1>>
        BY <1>14, <4>1
      <4>3. drawn[k - D] = <<i, first + (k - D) - 1>>
        BY <4>1
      <4> QED BY <3>2, <4>1, <4>2, <4>3
    <3> QED BY <3>1, <3>2
  <2> HIDE DEF drawn
  <2> QED BY <1>13, <1>16, <2>1
<1>18. FrameInv'
  <2>1. i' \in 1..(Len(lines') + 1)
    BY <1>1, <1>3, <1>4 DEF N
  <2>2. line_y' = RowsAbove(i)' - TopRow'
    BY <1>2, <1>12, <1>13
  <2>3. screen' = [k \in 1..RowsShown' |-> AllRows'[TopRow' + k]]
    BY <1>2, <1>17
  <2> QED BY <1>1, <2>1, <2>2, <2>3 DEF FrameInv
<1>19. Len(screen) = D /\ Len(screen') = D + count
  <2> DEFINE s == screen'
  <2>1. s = [k \in 1..(D + count) |-> s[k]]
    BY <1>16
  <2> HIDE DEF s
  <2>2. Len(screen) = D
    BY <1>13, <1>15, SeqOf
  <2>3. Len(s) = D + count
    BY <1>13, <2>1, SeqOf
  <2> QED BY <2>2, <2>3 DEF s
<1>20. /\ marks = {} /\ \A k \in 1..D : screen[k][1] \in 1..(i - 1)
  BY <1>1, <1>19 DEF CaretInv, N
<1>21. /\ \A k \in 1..D : screen'[k] = screen[k]
       /\ \A k \in 1..count : screen'[D + k] = <<i, first + k - 1>>
  BY <1>13, <1>16
<1>22. ASSUME NEW k \in 1..(D + count), ~(k <= D)
       PROVE  k - D \in 1..count /\ screen'[k] = <<i, first + (k - D) - 1>>
  <2>1. k - D \in 1..count /\ D + (k - D) = k
    BY <1>13, <1>22
  <2> QED BY <1>21, <2>1
<1> HIDE DEF drawn
<1>23. CASE i < N
  <2>1. marks' = {} /\ i' <= Len(lines') /\ i' # Len(lines') + 1
    BY <1>1, <1>3, <1>4, <1>20, <1>23 DEF DrawLine, N
  <2>0. i' = i + 1 /\ i \in Nat \ {0}
    BY <1>1, <1>3, <1>4
  <2>2. ASSUME NEW k \in 1..(D + count) PROVE screen'[k][1] \in 1..(i' - 1)
    <3>1. CASE k <= D
      <4>1. k \in 1..D
        BY <1>13, <3>1
      <4>2. screen'[k] = screen[k] /\ screen[k][1] \in 1..(i - 1)
        BY <1>20, <1>21, <4>1
      <4>3. \A x \in 1..(i - 1) : x \in 1..(i' - 1)
        BY <2>0
      <4> QED BY <4>2, <4>3
    <3>2. CASE ~(k <= D)
      <4>1. screen'[k][1] = i
        BY <1>22, <3>2
      <4>2. i \in 1..(i' - 1)
        BY <2>0
      <4> QED BY <4>1, <4>2
    <3> QED BY <3>1, <3>2
  <2>3. CaretInv'
    BY <1>19, <2>1, <2>2 DEF CaretInv
  <2> QED BY <1>18, <2>3
<1>24. CASE i = N
  <2>1. /\ i' = Len(lines') + 1 /\ ~(i' <= Len(lines'))
    BY <1>1, <1>3, <1>24 DEF N
  <2>2. marks' = UNION {{<<Len(screen) + r - first, c>> : c \in CursorColumns(r)} : r \in ShownRows}
    BY <1>3, <1>6, <1>20, <1>24 DEF DrawLine, N
  <2>3. ASSUME NEW r \in first..last
        PROVE  r \in Nat /\ r - first + 1 \in 1..count /\ r * width \in Nat /\ (r + 1) * width = r * width + width
    <3>1. r \in Nat /\ r - first + 1 \in 1..count
      BY <1>8, <1>13, <1>13b
    <3> QED BY <1>3, <3>1
  <2>4. ASSUME NEW r \in first..last, NEW c
        PROVE  c \in CursorColumns(r) <=>
                 /\ c \in 0..width /\ caret = r * width + c
                 /\ caret <= Least(r * width + width, lines[i])
    BY DEF CursorColumns
  <2>5. ASSUME NEW m \in marks'
        PROVE  /\ m[1] + 1 <= Len(screen') /\ screen'[m[1] + 1][1] = N
               /\ screen'[m[1] + 1][2] * width + m[2] = caret
    <3>1. PICK r \in first..last : \E c \in CursorColumns(r) : m = <<Len(screen) + r - first, c>>
      BY <1>8, <2>2
    <3>2. PICK c \in CursorColumns(r) : m = <<Len(screen) + r - first, c>>
      BY <3>1
    <3>3. caret = r * width + c
      BY <2>4
    <3> DEFINE k == r - first + 1
    <3>4. k \in 1..count /\ m[1] + 1 = D + k /\ m[2] = c /\ first + k - 1 = r
      BY <1>13, <1>19, <2>3, <3>2
    <3> HIDE DEF k
    <3>5. screen'[D + k] = <<i, r>>
      BY <1>21, <3>4
    <3>6. D + k <= D + count
      BY <1>13, <3>4
    <3> QED BY <1>19, <1>24, <3>3, <3>4, <3>5, <3>6
  <2>6. ASSUME marks' = {}, NEW k \in 1..(D + count), screen'[k][1] = N,
               caret \in (screen'[k][2] * width)..((screen'[k][2] + 1) * width)
        PROVE  FALSE
    <3>1. ~(k <= D)
      <4> SUFFICES ASSUME k <= D PROVE FALSE
        OBVIOUS
      <4>1. k \in 1..D
        BY <1>13
      <4>2. screen'[k] = screen[k] /\ screen[k][1] \in 1..(i - 1)
        BY <1>20, <1>21, <4>1
      <4> QED BY <1>3, <1>24, <2>6, <4>2
    <3> DEFINE r == first + (k - D) - 1
    <3>2. k - D \in 1..count /\ screen'[k] = <<i, r>>
      BY <1>22, <3>1
    <3>3. r \in first..last
      BY <1>8, <1>13, <1>13b, <3>2
    <3> HIDE DEF r
    <3>4. caret \in (r * width)..((r + 1) * width) /\ caret \in Int
      BY <2>6, <3>2
    <3> DEFINE c == caret - r * width
    <3>5. c \in 0..width /\ caret = r * width + c /\ caret <= r * width + width
      BY <1>3, <2>3, <3>3, <3>4
    <3>6. caret <= lines[i]
      BY <1>6, <1>24 DEF InputOK, N
    <3>7. caret <= Least(r * width + width, lines[i])
      BY <3>5, <3>6 DEF Least
    <3> HIDE DEF c
    <3>8. c \in CursorColumns(r)
      BY <2>4, <3>3, <3>5, <3>7
    <3>9. <<Len(screen) + r - first, c>> \in marks'
      BY <1>8, <2>2, <3>3, <3>8
    <3> QED BY <2>6, <3>9
  <2>7. CaretInv'
    BY <1>1, <1>19, <2>1, <2>5, <2>6 DEF CaretInv, N
  <2> QED BY <1>18, <2>7
<1> QED BY <1>3, <1>4, <1>23, <1>24

(* The layout of every frame is kept by all its steps. *)
LEMMA FrameInvariance ==
    ASSUME NoBlankLines
    PROVE  RenderSpec => [](InputOK /\ FrameInv /\ CaretInv)
<1>1. RenderInit => InputOK /\ FrameInv /\ CaretInv
  BY InitFrame
<1>2. InputOK /\ FrameInv /\ CaretInv /\ [RenderNext]_render_vars => (InputOK /\ FrameInv /\ CaretInv)'
  <2> SUFFICES ASSUME InputOK, FrameInv, CaretInv, [RenderNext]_render_vars
               PROVE  (InputOK /\ FrameInv /\ CaretInv)'
    OBVIOUS
  <2>1. UNCHANGED <<lines, width, height, pos, caret>>
    BY DEF RenderNext, render_vars, ScanUp, ScanEnd, DrawLine, DrawEnd, input
  <2>2. InputOK'
    BY <2>1, SameLayout
  <2>3. CASE ScanUp \/ ScanEnd
    BY <2>2, <2>3, ScanKeeps
  <2>4. CASE DrawLine
    BY <2>2, <2>4, DrawKeeps
  <2>5. CASE DrawEnd \/ UNCHANGED render_vars
    <3>1. UNCHANGED <<i, line_y, screen, marks>>
      BY <2>5 DEF DrawEnd, render_vars
    <3>2. TotalRows' = TotalRows /\ AllRows' = AllRows /\ TopRow' = TopRow
      BY <2>1, SameLayout
    <3>3. RowsAbove(i)' = RowsAbove(i)
      BY <2>1, <3>1 DEF RowsAbove, render_lines
    <3>4. RowsShown' = RowsShown
      BY <2>1, <3>1 DEF RowsShown, Least
    <3>5. /\ phase' = phase
          \/ /\ phase = "draw" /\ phase' = "done" /\ ~(i <= Len(lines) /\ line_y < height)
      BY <2>5 DEF DrawEnd, render_vars
    <3>6. i \in 1..(Len(lines) + 1) /\ Len(lines) \in Nat /\ height \in Nat /\ TopRow \in Nat
          /\ RowsAbove(i) \in Nat
      BY LayoutNumbers, AboveNext DEF FrameInv
    <3>7. FrameInv'
      BY <2>1, <3>1, <3>2, <3>3, <3>4, <3>5, <3>6 DEF FrameInv
    <3>8. CaretInv'
      BY <2>1, <3>1 DEF CaretInv
    <3> QED BY <2>2, <3>7, <3>8
  <2> QED BY <2>3, <2>4, <2>5 DEF RenderNext
<1> QED BY <1>1, <1>2, PTL DEF RenderSpec

(* A frame shows the scroll window of the layout (console_render() and     *)
(* console_fline_render()): for any number of lines that are not blank,    *)
(* any lengths, width, height and scroll position.                         *)
THEOREM FrameIsWindow ==
    ASSUME NoBlankLines
    PROVE  RenderSpec => []WindowDrawn
<1>1. ASSUME InputOK, FrameInv, phase = "done" PROVE screen = Window
  <2> DEFINE N == Len(lines)
             T == TotalRows
             A == RowsAbove(i)
  <2>1. /\ N \in Nat \ {0} /\ T \in Nat /\ TopRow \in Nat /\ pos \in Nat /\ height \in Nat \ {0}
        /\ T < height => pos = 0
        /\ T >= height => pos <= T - height
    BY <1>1, LayoutNumbers
  <2>2. /\ i \in 1..(N + 1) /\ line_y = A - TopRow
        /\ screen = [k \in 1..RowsShown |-> AllRows[TopRow + k]]
        /\ i = N + 1 \/ line_y >= height
    BY <1>1 DEF FrameInv
  <2>3. A \in Nat /\ (i = N + 1 => A = T)
    BY <1>1, <2>2, AboveNext DEF TotalRows
  <2>4. A <= T
    BY <1>1, <2>1, <2>2, AboveGrows DEF TotalRows
  <2>5. TopRow = IF T < height THEN 0 ELSE T - height - pos
    BY DEF TopRow
  <2>6. RowsShown = IF line_y < 0 THEN 0 ELSE IF line_y < height THEN line_y ELSE height
    BY DEF RowsShown, Least
  <2> HIDE DEF N, T, A
  <2>7. RowsShown = IF T < height THEN T ELSE height
    BY <2>1, <2>2, <2>3, <2>4, <2>5, <2>6
  <2> DEFINE S == AllRows
  <2>8. S = [p \in 1..T |-> S[p]]
    BY DEF AllRows, T
  <2>9. CASE T < height
    <3>1. RowsShown = T /\ TopRow = 0
      BY <2>5, <2>7, <2>9
    <3>2. screen = [k \in 1..T |-> S[0 + k]]
      BY <2>2, <3>1
    <3> HIDE DEF S
    <3>3. screen = S
      BY <2>1, <2>8, <3>2
    <3> QED BY <2>9, <3>3 DEF S, Window, T
  <2>10. CASE ~(T < height)
    <3>1. RowsShown = height /\ TopRow = T - height - pos /\ TopRow + height = T - pos /\ TopRow + height <= T
      BY <2>1, <2>5, <2>7, <2>10
    <3>2. screen = [k \in 1..height |-> S[TopRow + k]]
      BY <2>2, <3>1
    <3>3. Window = SubSeq(S, TopRow + 1, TopRow + height)
      BY <2>10, <3>1 DEF Window, T
    <3> HIDE DEF S
    <3> DEFINE E == {S[p] : p \in 1..T}
    <3>4. S \in Seq(E) /\ Len(S) = T
      <4>1. \A p \in 1..T : S[p] \in E
        OBVIOUS
      <4> HIDE DEF E
      <4> QED BY <2>1, <2>8, <4>1, SeqOf
    <3> HIDE DEF E
    <3>5. SubSeq(S, TopRow + 1, TopRow + height) = [k \in 1..height |-> S[TopRow + k]]
      <4>1. SubSeq(S, TopRow + 1, TopRow + height)
              = [k \in 1..((TopRow + height) - (TopRow + 1) + 1) |-> S[(TopRow + 1) + k - 1]]
        BY <2>1, <3>1, <3>4
      <4>2. (TopRow + height) - (TopRow + 1) + 1 = height
        BY <2>1
      <4>3. \A k \in 1..height : (TopRow + 1) + k - 1 = TopRow + k
        BY <2>1
      <4> QED BY <4>1, <4>2, <4>3
    <3> QED BY <3>2, <3>3, <3>5
  <2> QED BY <2>9, <2>10
<1>2. InputOK /\ FrameInv => WindowDrawn
  BY <1>1 DEF WindowDrawn
<1> QED BY <1>2, FrameInvariance, PTL

(* The cursor of console_fline_render() is at its place in the text, and   *)
(* is drawn if its place is in the view, under the same conditions.        *)
THEOREM CursorInPlace ==
    ASSUME NoBlankLines
    PROVE  RenderSpec => []CursorDrawn
<1>1. InputOK /\ FrameInv /\ CaretInv => CursorDrawn
  <2> SUFFICES ASSUME InputOK, FrameInv, CaretInv, phase = "done"
               PROVE  CursorDrawn
    BY DEF CursorDrawn
  <2>1. Len(lines) \in Nat /\ i \in 1..(Len(lines) + 1)
    BY LayoutNumbers DEF FrameInv
  <2>2. CASE i = Len(lines) + 1
    BY <2>2 DEF CaretInv, CursorDrawn
  <2>3. CASE i <= Len(lines)
    <3>1. marks = {} /\ \A k \in 1..Len(screen) : screen[k][1] # Len(lines)
      BY <2>1, <2>3 DEF CaretInv
    <3> QED BY <3>1 DEF CursorDrawn
  <2> QED BY <2>1, <2>2, <2>3
<1> QED BY <1>1, FrameInvariance, PTL
==============================================================================
