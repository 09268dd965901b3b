---------------------------- MODULE GcHeapProofs -----------------------------
(***************************************************************************)
(* Proofs about GcHeap, for any number of areas of any size: the hints     *)
(* never hide a free block, so that a request fails only when no run of    *)
(* free blocks is long enough; every object in use stays one chain of the  *)
(* length asked for; and a collection leaves no garbage.                   *)
(***************************************************************************)
EXTENDS GcHeap, WellFoundedInduction, TLAPS

(* A set of naturals that is not empty has a least element. *)
LEMMA LeastElement ==
    ASSUME NEW S \in SUBSET Nat, S # {}
    PROVE  /\ Min(S) \in S
           /\ \A y \in S : Min(S) <= y
<1>1. PICK x \in S : \A y \in S : ~(<<y, x>> \in OpToRel(<, Nat))
  BY NatLessThanWellFounded, WFMin
<1>2. \A y \in S : x <= y
  <2> SUFFICES ASSUME NEW y \in S, ~(x <= y) PROVE FALSE
    OBVIOUS
  <2>1. x \in Nat /\ y \in Nat /\ y < x
    OBVIOUS
  <2>2. <<y, x>> \in OpToRel(<, Nat)
    BY <2>1 DEF OpToRel
  <2> QED BY <1>1, <2>2
<1> QED BY <1>1, <1>2 DEF Min

(* A table byte starts at or before each of its blocks. *)
LEMMA ByteStart ==
    ASSUME NEW b \in Nat
    PROVE  b \div BlocksPerATB \in Nat /\ (b \div BlocksPerATB) * BlocksPerATB <= b
BY GcHeapAssumption, Z3

(* The parts of the state that the searches rely on *)
IsHeap(h) ==
    /\ h = [table |-> h.table, area |-> h.area, index |-> h.index, used |-> h.used]
    /\ h.table = [a \in AreaSet |-> h.table[a]]
    /\ \A a \in AreaSet : h.table[a] = [b \in BlockSet(a) |-> h.table[a][b]]
    /\ h.area \in AreaSet
    /\ h.index \in [AreaSet -> Nat]

(* No free block lies before the hints. *)
Hinted(h) ==
    \A a \in AreaSet : \A b \in BlockSet(a) :
        h.table[a][b] = "free" => h.area <= a /\ h.index[a] * BlocksPerATB <= b

(* No area has a run of n free blocks. *)
NoRun(h, n) ==
    \A a \in AreaSet : \A b \in BlockSet(a) :
        b + n <= Blocks(a) => ~AllFree(h, a, b, b + n)

IsAddress(p) == p[1] \in AreaSet /\ p[2] \in BlockSet(p[1])

IsLive(f) == \A p \in DOMAIN f : IsAddress(p)

(* The inductive invariant *)
IInv ==
    /\ IsHeap(heap) /\ Hinted(heap)
    /\ IsLive(live)
    /\ depth \in Nat
    /\ FailsOnlyWhenFull

(* The number of blocks of an area is a natural number. *)
LEMMA BlocksNat ==
    ASSUME NEW a \in AreaSet
    PROVE  Blocks(a) \in Nat /\ BlockSet(a) \subseteq Nat
BY GcHeapAssumption DEF Blocks, BlockSet

(* Setting the kind of some blocks changes nothing else. *)
LEMMA SetKindHeap ==
    ASSUME NEW h, IsHeap(h), NEW a \in AreaSet, NEW from, NEW to, NEW kind
    PROVE  LET new == SetKind(h, a, from, to, kind)
           IN  /\ IsHeap(new)
               /\ new.area = h.area /\ new.index = h.index /\ new.used = h.used
               /\ \A x \in AreaSet : \A c \in BlockSet(x) :
                    new.table[x][c] = IF x = a /\ c \in from..to - 1 THEN kind ELSE h.table[x][c]
<1> DEFINE new == SetKind(h, a, from, to, kind)
           row == [c \in BlockSet(a) |-> IF c \in from..to - 1 THEN kind ELSE h.table[a][c]]
<1>1. new = [table |-> [h.table EXCEPT ![a] = row], area |-> h.area,
             index |-> h.index, used |-> h.used]
  BY DEF SetKind, IsHeap
<1>2. \A x \in AreaSet : new.table[x] = IF x = a THEN row ELSE h.table[x]
  BY <1>1 DEF IsHeap
<1> HIDE DEF new
<1>3. /\ new.area = h.area /\ new.index = h.index /\ new.used = h.used
      /\ new.table = [h.table EXCEPT ![a] = row]
  BY <1>1
<1>4. \A x \in AreaSet : \A c \in BlockSet(x) :
        new.table[x][c] = IF x = a /\ c \in from..to - 1 THEN kind ELSE h.table[x][c]
  BY <1>2
<1>5. new = [table |-> new.table, area |-> new.area, index |-> new.index, used |-> new.used]
  BY <1>1, <1>3
<1>6. new.table = [x \in AreaSet |-> new.table[x]]
  BY <1>3 DEF IsHeap
<1>7. \A x \in AreaSet : new.table[x] = [c \in BlockSet(x) |-> new.table[x][c]]
  BY <1>2 DEF IsHeap
<1>8. IsHeap(new)
  BY <1>3, <1>5, <1>6, <1>7 DEF IsHeap
<1> QED BY <1>3, <1>4, <1>8 DEF new

(* The hints after a block has become free *)
LEMMA FreeHintHeap ==
    ASSUME NEW h, IsHeap(h), NEW a \in AreaSet, NEW b \in BlockSet(a)
    PROVE  LET new == FreeHint(h, a, b)
           IN  /\ IsHeap(new)
               /\ new.table = h.table /\ new.used = h.used
               /\ new.area <= a /\ new.area <= h.area
               /\ \A x \in AreaSet : new.index[x] <= h.index[x]
               /\ new.index[a] * BlocksPerATB <= b
<1> DEFINE new == FreeHint(h, a, b)
           area == IF h.area # a THEN 1 ELSE h.area
           byte == b \div BlocksPerATB
           least == Min({h.index[a], byte})
<1>0. /\ h.area \in AreaSet /\ h.index \in [AreaSet -> Nat] /\ h.index[a] \in Nat
      /\ b \in Nat
  BY BlocksNat DEF IsHeap
<1>1. new = [table |-> h.table, area |-> area, index |-> [h.index EXCEPT ![a] = least],
             used |-> h.used]
  <2>1. h = [table |-> h.table, area |-> h.area, index |-> h.index, used |-> h.used]
    BY DEF IsHeap
  <2> DEFINE first == [h EXCEPT !.area = area]
  <2>2. first = [table |-> h.table, area |-> area, index |-> h.index, used |-> h.used]
    BY <2>1
  <2>3. new = [first EXCEPT !.index[a] = least]
    BY <2>1, <2>2 DEF FreeHint
  <2> QED BY <2>2, <2>3
<1>2. byte \in Nat /\ byte * BlocksPerATB <= b
  BY <1>0, ByteStart
<1> HIDE DEF byte
<1>3. least \in {h.index[a], byte} /\ least <= h.index[a] /\ least <= byte
  BY <1>0, <1>2, LeastElement
<1> HIDE DEF least
<1>4. least \in Nat /\ least * BlocksPerATB <= b
  <2>1. least \in Nat
    BY <1>0, <1>2, <1>3
  <2>2. BlocksPerATB \in Nat
    BY GcHeapAssumption
  <2>3. least * BlocksPerATB <= byte * BlocksPerATB
    BY <1>2, <1>3, <2>1, <2>2, Z3
  <2> QED BY <1>0, <1>2, <2>1, <2>2, <2>3, Z3
<1>5. area \in AreaSet /\ area <= a /\ area <= h.area
  BY <1>0, GcHeapAssumption DEF AreaSet
<1> HIDE DEF new, area
<1>6. /\ new.table = h.table /\ new.area = area /\ new.used = h.used
      /\ new.index = [h.index EXCEPT ![a] = least]
  BY <1>1
<1>7. new.index \in [AreaSet -> Nat]
  BY <1>0, <1>4, <1>6
<1>8. new = [table |-> new.table, area |-> new.area, index |-> new.index, used |-> new.used]
  BY <1>1, <1>6
<1>9. IsHeap(new)
  BY <1>5, <1>6, <1>7, <1>8 DEF IsHeap
<1>10. \A x \in AreaSet : new.index[x] <= h.index[x]
  BY <1>0, <1>3, <1>6
<1>11. new.index[a] * BlocksPerATB <= b
  BY <1>0, <1>4, <1>6
<1> QED BY <1>5, <1>6, <1>9, <1>10, <1>11 DEF new

(* Multiplying by the number of blocks in a byte keeps the order. *)
LEMMA ByteOrder ==
    ASSUME NEW i \in Nat, NEW j \in Nat, i <= j
    PROVE  i * BlocksPerATB <= j * BlocksPerATB
BY GcHeapAssumption, Z3

(* Blocks from b on are freed and the hints lowered to b: nothing is       *)
(* hidden, in whichever order it is done.                                  *)
LEMMA FreedHinted ==
    ASSUME NEW h, IsHeap(h), Hinted(h), NEW a \in AreaSet, NEW b \in BlockSet(a), NEW to \in Int
    PROVE  /\ IsHeap(SetKind(FreeHint(h, a, b), a, b, to, "free"))
           /\ Hinted(SetKind(FreeHint(h, a, b), a, b, to, "free"))
           /\ IsHeap(FreeHint(SetKind(h, a, b, to, "free"), a, b))
           /\ Hinted(FreeHint(SetKind(h, a, b, to, "free"), a, b))
<1>0. b \in Nat /\ BlockSet(a) \subseteq Nat
  BY BlocksNat
<1>1. ASSUME NEW new, IsHeap(new), new.area <= a, new.area <= h.area,
             \A x \in AreaSet : new.index[x] <= h.index[x],
             new.index[a] * BlocksPerATB <= b,
             \A x \in AreaSet : \A c \in BlockSet(x) :
                new.table[x][c] = IF x = a /\ c \in b..to - 1 THEN "free" ELSE h.table[x][c]
      PROVE  Hinted(new)
  <2> SUFFICES ASSUME NEW x \in AreaSet, NEW c \in BlockSet(x), new.table[x][c] = "free"
               PROVE  new.area <= x /\ new.index[x] * BlocksPerATB <= c
    BY DEF Hinted
  <2>0. /\ x \in Int /\ a \in Int /\ c \in Nat /\ new.area \in Int /\ h.area \in Int
        /\ new.index[x] \in Nat /\ h.index[x] \in Nat
    <3>1. c \in Nat
      BY BlocksNat
    <3>2. x \in Int /\ a \in Int
      BY GcHeapAssumption DEF AreaSet
    <3>3. new.area \in AreaSet /\ new.index \in [AreaSet -> Nat]
      BY <1>1 DEF IsHeap
    <3>4. h.area \in AreaSet /\ h.index \in [AreaSet -> Nat]
      BY DEF IsHeap
    <3>5. AreaSet \subseteq Int
      BY GcHeapAssumption DEF AreaSet
    <3> QED BY <3>1, <3>2, <3>3, <3>4, <3>5
  <2>1. CASE x = a /\ c \in b..to - 1
    <3>1. c >= b
      BY <1>0, <2>0, <2>1
    <3>2. new.index[a] * BlocksPerATB \in Int
      BY <2>0, <2>1, GcHeapAssumption
    <3> QED BY <1>0, <1>1, <2>0, <2>1, <3>1, <3>2
  <2>2. CASE h.table[x][c] = "free"
    <3>1. h.area <= x /\ h.index[x] * BlocksPerATB <= c
      BY <2>2 DEF Hinted
    <3>2. new.index[x] * BlocksPerATB <= h.index[x] * BlocksPerATB
      BY <1>1, <2>0, ByteOrder
    <3>3. new.index[x] * BlocksPerATB \in Int /\ h.index[x] * BlocksPerATB \in Int
      BY <2>0, GcHeapAssumption
    <3> QED BY <1>1, <2>0, <3>1, <3>2, <3>3
  <2> QED BY <1>1, <2>1, <2>2
<1>2. /\ IsHeap(SetKind(FreeHint(h, a, b), a, b, to, "free"))
      /\ Hinted(SetKind(FreeHint(h, a, b), a, b, to, "free"))
  <2> DEFINE mid == FreeHint(h, a, b)
             new == SetKind(mid, a, b, to, "free")
  <2>1. /\ IsHeap(mid) /\ mid.table = h.table /\ mid.area <= a /\ mid.area <= h.area
        /\ \A x \in AreaSet : mid.index[x] <= h.index[x]
        /\ mid.index[a] * BlocksPerATB <= b
    BY FreeHintHeap
  <2> HIDE DEF mid
  <2>2. /\ IsHeap(new) /\ new.area = mid.area /\ new.index = mid.index
        /\ \A x \in AreaSet : \A c \in BlockSet(x) :
            new.table[x][c] = IF x = a /\ c \in b..to - 1 THEN "free" ELSE mid.table[x][c]
    BY <2>1, SetKindHeap
  <2> HIDE DEF new
  <2>3. Hinted(new)
    BY <1>1, <2>1, <2>2
  <2> QED BY <2>2, <2>3 DEF new, mid
<1>3. /\ IsHeap(FreeHint(SetKind(h, a, b, to, "free"), a, b))
      /\ Hinted(FreeHint(SetKind(h, a, b, to, "free"), a, b))
  <2> DEFINE mid == SetKind(h, a, b, to, "free")
             new == FreeHint(mid, a, b)
  <2>1. /\ IsHeap(mid) /\ mid.area = h.area /\ mid.index = h.index
        /\ \A x \in AreaSet : \A c \in BlockSet(x) :
            mid.table[x][c] = IF x = a /\ c \in b..to - 1 THEN "free" ELSE h.table[x][c]
    BY SetKindHeap
  <2> HIDE DEF mid
  <2>2. /\ IsHeap(new) /\ new.table = mid.table /\ new.area <= a /\ new.area <= mid.area
        /\ \A x \in AreaSet : new.index[x] <= mid.index[x]
        /\ new.index[a] * BlocksPerATB <= b
    BY <2>1, FreeHintHeap
  <2> HIDE DEF new
  <2>3. Hinted(new)
    BY <1>1, <2>1, <2>2
  <2> QED BY <2>2, <2>3 DEF new, mid
<1> QED BY <1>2, <1>3

(* Using blocks hides nothing. *)
LEMMA UsedHinted ==
    ASSUME NEW h, IsHeap(h), Hinted(h), NEW a \in AreaSet, NEW from, NEW to,
           NEW kind, kind # "free"
    PROVE  IsHeap(SetKind(h, a, from, to, kind)) /\ Hinted(SetKind(h, a, from, to, kind))
<1> DEFINE new == SetKind(h, a, from, to, kind)
<1>1. /\ IsHeap(new) /\ new.area = h.area /\ new.index = h.index
      /\ \A x \in AreaSet : \A c \in BlockSet(x) :
            new.table[x][c] = IF x = a /\ c \in from..to - 1 THEN kind ELSE h.table[x][c]
  BY SetKindHeap
<1> HIDE DEF new
<1>2. Hinted(new)
  BY <1>1 DEF Hinted
<1> QED BY <1>1, <1>2 DEF new

(* The end of a chain lies after its head and in its area. *)
LEMMA ChainEndType ==
    ASSUME NEW h, NEW a \in AreaSet, NEW b \in BlockSet(a)
    PROVE  ChainEnd(h, a, b) \in b + 1..Blocks(a)
<1> DEFINE S == {c \in b + 1..Blocks(a) : c = Blocks(a) \/ h.table[a][c] # "tail"}
<1>1. Blocks(a) \in Nat /\ b \in Nat /\ b < Blocks(a)
  BY BlocksNat DEF BlockSet
<1>2. Blocks(a) \in S /\ S \in SUBSET Nat
  BY <1>1
<1>3. Min(S) \in S
  BY <1>2, LeastElement
<1> QED BY <1>3 DEF ChainEnd

(* Freeing a chain hides nothing. *)
LEMMA FreeChainHinted ==
    ASSUME NEW h, IsHeap(h), Hinted(h), NEW a \in AreaSet, NEW b \in BlockSet(a)
    PROVE  IsHeap(FreeChain(h, a, b)) /\ Hinted(FreeChain(h, a, b))
<1>1. ChainEnd(h, a, b) \in Int
  BY ChainEndType, BlocksNat
<1> QED BY <1>1, FreedHinted DEF FreeChain

(* The blocks and the last used blocks after a sweep of h *)
SweptHeap(h, new) ==
    /\ \A a \in AreaSet : \A b \in BlockSet(a) :
         new.table[a][b] = IF b < SweepEnd(h, a) THEN Swept(h.table[a], b) ELSE h.table[a][b]
    /\ new.used = [a \in AreaSet |->
         Max({b \in BlockSet(a) : b < SweepEnd(h, a) /\ new.table[a][b] # "free"} \cup {0})]

(* A collection leaves a heap without hints. *)
LEMMA CollectEndHinted ==
    ASSUME NEW h, IsHeap(h)
    PROVE  IsHeap(CollectEnd(h)) /\ Hinted(CollectEnd(h)) /\ SweptHeap(h, CollectEnd(h))
<1> DEFINE table == [a \in AreaSet |-> [b \in BlockSet(a) |->
                        IF b < SweepEnd(h, a) THEN Swept(h.table[a], b) ELSE h.table[a][b]]]
           used == [a \in AreaSet |->
                        Max({b \in BlockSet(a) : b < SweepEnd(h, a) /\ table[a][b] # "free"} \cup {0})]
           zero == [a \in AreaSet |-> 0]
           new == CollectEnd(h)
<1>1. h = [table |-> h.table, area |-> h.area, index |-> h.index, used |-> h.used]
  BY DEF IsHeap
<1>2. Sweep(h) = [h EXCEPT !.table = table, !.used = used]
  BY DEF Sweep
<1> HIDE DEF table, used
<1>3. Sweep(h) = [table |-> table, area |-> h.area, index |-> h.index, used |-> used]
  BY <1>1, <1>2
<1>4. new = [Sweep(h) EXCEPT !.area = 1, !.index = zero]
  BY DEF CollectEnd
<1> HIDE DEF new, zero
<1>record. new = [table |-> table, area |-> 1, index |-> zero, used |-> used]
  <2> DEFINE swept == Sweep(h)
             mid == [swept EXCEPT !.area = 1]
  <2>1. swept = [table |-> table, area |-> h.area, index |-> h.index, used |-> used]
    BY <1>3
  <2>2. new = [mid EXCEPT !.index = zero]
    BY <1>4
  <2> HIDE DEF swept
  <2>3. mid = [table |-> table, area |-> 1, index |-> h.index, used |-> used]
    BY <2>1
  <2> HIDE DEF mid
  <2> QED BY <2>2, <2>3
<1>5. new.table = table /\ new.area = 1 /\ new.index = zero /\ new.used = used
  BY <1>record
<1>6. /\ table = [a \in AreaSet |-> table[a]]
      /\ \A a \in AreaSet : table[a] = [b \in BlockSet(a) |-> table[a][b]]
  BY DEF table
<1>7. 1 \in AreaSet /\ zero \in [AreaSet -> Nat]
  BY GcHeapAssumption DEF AreaSet, zero
<1>8. IsHeap(new)
  BY <1>record, <1>5, <1>6, <1>7 DEF IsHeap
<1>9. Hinted(new)
  <2> SUFFICES ASSUME NEW a \in AreaSet, NEW b \in BlockSet(a)
               PROVE  new.area <= a /\ new.index[a] * BlocksPerATB <= b
    BY DEF Hinted
  <2>1. b \in Nat /\ a >= 1
    BY BlocksNat, GcHeapAssumption DEF AreaSet
  <2>2. new.index[a] = 0 /\ 0 * BlocksPerATB = 0
    BY <1>5, GcHeapAssumption DEF zero
  <2> QED BY <1>5, <2>1, <2>2
<1>10. \A a \in AreaSet : \A b \in BlockSet(a) :
         new.table[a][b] = IF b < SweepEnd(h, a) THEN Swept(h.table[a], b) ELSE h.table[a][b]
  BY <1>5 DEF table
<1>11. new.used = [a \in AreaSet |->
         Max({b \in BlockSet(a) : b < SweepEnd(h, a) /\ new.table[a][b] # "free"} \cup {0})]
  BY <1>5 DEF used
<1>12. SweptHeap(h, new)
  BY <1>10, <1>11 DEF SweptHeap
<1> QED BY <1>8, <1>9, <1>12 DEF new

(* Marking changes the kinds of heads only. *)
LEMMA MarkLiveHeap ==
    ASSUME NEW h, IsHeap(h), NEW objects
    PROVE  LET new == MarkLive(h, objects)
           IN  /\ IsHeap(new) /\ new.used = h.used
               /\ \A a \in AreaSet : \A b \in BlockSet(a) :
                    new.table[a][b] = IF <<a, b>> \in objects /\ h.table[a][b] = "head"
                                      THEN "mark" ELSE h.table[a][b]
<1> DEFINE new == MarkLive(h, objects)
           table == [a \in AreaSet |-> [b \in BlockSet(a) |->
                        IF <<a, b>> \in objects /\ h.table[a][b] = "head"
                        THEN "mark" ELSE h.table[a][b]]]
<1>1. h = [table |-> h.table, area |-> h.area, index |-> h.index, used |-> h.used]
  BY DEF IsHeap
<1>2. new = [h EXCEPT !.table = table]
  BY DEF MarkLive
<1> HIDE DEF table, new
<1>3. new = [table |-> table, area |-> h.area, index |-> h.index, used |-> h.used]
  BY <1>1, <1>2
<1>4. /\ table = [a \in AreaSet |-> table[a]]
      /\ \A a \in AreaSet : table[a] = [b \in BlockSet(a) |-> table[a][b]]
  BY DEF table
<1>5. new.table = table /\ new.area = h.area /\ new.index = h.index /\ new.used = h.used
  BY <1>3
<1>6. IsHeap(new)
  BY <1>3, <1>4, <1>5 DEF IsHeap
<1>7. \A a \in AreaSet : \A b \in BlockSet(a) :
        new.table[a][b] = IF <<a, b>> \in objects /\ h.table[a][b] = "head"
                          THEN "mark" ELSE h.table[a][b]
  BY <1>5 DEF table
<1> QED BY <1>5, <1>6, <1>7 DEF new

(* So does a collection. *)
LEMMA CollectHinted ==
    ASSUME NEW h, IsHeap(h), NEW objects
    PROVE  IsHeap(Collect(h, objects)) /\ Hinted(Collect(h, objects))
BY MarkLiveHeap, CollectEndHinted DEF Collect

-----------------------------------------------------------------------------
(* Searches *)

(* The greater of two naturals is a natural, and no less than either. *)
LEMMA MaxOfTwo ==
    ASSUME NEW i \in Nat, NEW j \in Nat
    PROVE  Max({i, j}) \in Nat /\ i <= Max({i, j}) /\ j <= Max({i, j})
<1>1. \E x \in {i, j} : \A y \in {i, j} : x >= y
  <2>1. CASE i >= j BY <2>1
  <2>2. CASE j >= i BY <2>2
  <2> QED BY <2>1, <2>2
<1>2. Max({i, j}) \in {i, j} /\ \A y \in {i, j} : Max({i, j}) >= y
  BY <1>1 DEF Max
<1> QED BY <1>2

(* A run of free blocks is found in an area wherever it lies. *)
LEMMA RunsComplete ==
    ASSUME NEW h, IsHeap(h), Hinted(h), NEW a \in AreaSet, NEW b \in BlockSet(a),
           NEW n \in Nat \ {0}, b + n <= Blocks(a), AllFree(h, a, b, b + n)
    PROVE  h.area <= a /\ b \in Runs(h, a, n)
<1>1. b \in Nat
  BY BlocksNat
<1>2. b \in b..b + n - 1
  BY <1>1
<1>3. h.table[a][b] = "free"
  BY <1>2 DEF AllFree
<1>4. h.area <= a /\ h.index[a] * BlocksPerATB <= b
  BY <1>3 DEF Hinted
<1>5. h.index[a] * BlocksPerATB \in Int
  BY GcHeapAssumption DEF IsHeap
<1> QED BY <1>1, <1>4, <1>5 DEF Runs

(* An area without a run of one block has no free block at all. *)
LEMMA NoRunNoBlock ==
    ASSUME NEW h, IsHeap(h), Hinted(h), NEW a \in AreaSet, Runs(h, a, 1) = {},
           NEW b \in BlockSet(a)
    PROVE  h.table[a][b] # "free"
<1> SUFFICES ASSUME h.table[a][b] = "free" PROVE FALSE
  OBVIOUS
<1>1. b \in Nat /\ Blocks(a) \in Nat /\ b < Blocks(a)
  BY BlocksNat DEF BlockSet
<1>2. b..b + 1 - 1 = {b}
  BY <1>1
<1>3. AllFree(h, a, b, b + 1)
  BY <1>2 DEF AllFree
<1>4. b + 1 <= Blocks(a)
  BY <1>1
<1>5. b \in Runs(h, a, 1)
  BY <1>3, <1>4, RunsComplete
<1> QED BY <1>5

(* Areas marked as filled have no free block. *)
LEMMA FilledHinted ==
    ASSUME NEW h, IsHeap(h), Hinted(h), NEW n \in Nat \ {0}, NEW upto \in Int,
           \A x \in AreaSet : x \in h.area..upto => Runs(h, x, n) = {}
    PROVE  LET new == Filled(h, n, upto)
           IN  /\ IsHeap(new) /\ Hinted(new)
               /\ new.table = h.table /\ new.area = h.area /\ new.used = h.used
               /\ \A x \in AreaSet : x \notin h.area..upto => new.index[x] = h.index[x]
<1> DEFINE new == Filled(h, n, upto)
           next(x) == (Max({h.index[x], ByteLen[x]}) + 1) \div BlocksPerATB
           index == [x \in AreaSet |-> IF n = 1 /\ x \in h.area..upto THEN next(x) ELSE h.index[x]]
<1>0. h.index \in [AreaSet -> Nat] /\ h.area \in AreaSet
  BY DEF IsHeap
<1>1. \A x \in AreaSet : next(x) \in Nat
  <2> SUFFICES ASSUME NEW x \in AreaSet PROVE next(x) \in Nat
    OBVIOUS
  <2>1. h.index[x] \in Nat /\ ByteLen[x] \in Nat
    BY <1>0, GcHeapAssumption
  <2>2. Max({h.index[x], ByteLen[x]}) \in Nat
    BY <2>1, MaxOfTwo
  <2>3. Max({h.index[x], ByteLen[x]}) + 1 \in Nat
    BY <2>2
  <2> QED BY <2>3, ByteStart
<1>2. h = [table |-> h.table, area |-> h.area, index |-> h.index, used |-> h.used]
  BY DEF IsHeap
<1>3. new = [h EXCEPT !.index = index]
  BY DEF Filled
<1> HIDE DEF next
<1>4. index \in [AreaSet -> Nat]
  BY <1>0, <1>1
<1>5. \A x \in AreaSet : x \notin h.area..upto => index[x] = h.index[x]
  OBVIOUS
<1>6. \A x \in AreaSet : index[x] = h.index[x] \/ Runs(h, x, 1) = {}
  OBVIOUS
<1> HIDE DEF new, index
<1>7. new = [table |-> h.table, area |-> h.area, index |-> index, used |-> h.used]
  BY <1>2, <1>3
<1>8. new.table = h.table /\ new.area = h.area /\ new.index = index /\ new.used = h.used
  BY <1>7
<1>9. IsHeap(new)
  BY <1>4, <1>7, <1>8 DEF IsHeap
<1>10. Hinted(new)
  BY <1>6, <1>8, NoRunNoBlock DEF Hinted
<1> QED BY <1>5, <1>8, <1>9, <1>10 DEF new

(* The n blocks from b on are an object in new, and nothing else differs. *)
Occupied(h, new, a, b, n) ==
    /\ new.used = [h.used EXCEPT ![a] = Max({h.used[a], b + n - 1})]
    /\ \A x \in AreaSet : \A c \in BlockSet(x) :
         new.table[x][c] = IF x = a /\ c \in b..b + n - 1
                           THEN (IF c = b THEN "head" ELSE "tail")
                           ELSE h.table[x][c]

(* Taking a run hides nothing: after one block, the hints move to it only  *)
(* because no block before it is free.                                     *)
LEMMA TakeHinted ==
    ASSUME NEW h, IsHeap(h), Hinted(h), NEW n \in Nat \ {0},
           NEW a \in AreaSet, NEW b \in BlockSet(a),
           n = 1 => /\ \A x \in AreaSet : \A c \in BlockSet(x) : x < a => h.table[x][c] # "free"
                    /\ \A c \in BlockSet(a) : c < b => h.table[a][c] # "free"
    PROVE  /\ IsHeap(Take(h, a, b, n)) /\ Hinted(Take(h, a, b, n))
           /\ Occupied(h, Take(h, a, b, n), a, b, n)
<1> DEFINE second == b + 1
           end == b + n
           one == SetKind(h, a, b, second, "head")
           mid == SetKind(one, a, second, end, "tail")
           new == Take(h, a, b, n)
           area == IF n = 1 THEN a ELSE mid.area
           byte == IF n = 1 THEN (b + n) \div BlocksPerATB ELSE mid.index[a]
           last == Max({mid.used[a], b + n - 1})
<1>0. b \in Nat /\ b..second - 1 = {b}
  BY BlocksNat
<1>1. new = [mid EXCEPT !.area = area, !.index[a] = byte, !.used[a] = last]
  BY DEF Take
<1> HIDE DEF second, end, last
<1>2. /\ IsHeap(one) /\ Hinted(one) /\ one.used = h.used
      /\ \A x \in AreaSet : \A c \in BlockSet(x) :
            one.table[x][c] = IF x = a /\ c \in b..second - 1 THEN "head" ELSE h.table[x][c]
  BY UsedHinted, SetKindHeap
<1> HIDE DEF one
<1>3. /\ IsHeap(mid) /\ Hinted(mid) /\ mid.used = h.used
      /\ \A x \in AreaSet : \A c \in BlockSet(x) :
            mid.table[x][c] = IF x = a /\ c \in second..end - 1 THEN "tail" ELSE one.table[x][c]
  BY <1>2, UsedHinted, SetKindHeap
<1> HIDE DEF mid, new
<1>4. mid = [table |-> mid.table, area |-> mid.area, index |-> mid.index, used |-> mid.used]
  BY <1>3 DEF IsHeap
<1>5. /\ mid.index \in [AreaSet -> Nat] /\ mid.area \in AreaSet
      /\ area \in AreaSet /\ byte \in Nat
  <2>1. b + n \in Nat
    BY <1>0
  <2> QED BY <1>3, <2>1, ByteStart DEF IsHeap
<1> HIDE DEF area, byte
<1>6. new = [table |-> mid.table, area |-> area, index |-> [mid.index EXCEPT ![a] = byte],
             used |-> [mid.used EXCEPT ![a] = last]]
  <2> DEFINE first == [mid EXCEPT !.area = area]
             next == [first EXCEPT !.index[a] = byte]
  <2>1. new = [next EXCEPT !.used[a] = last]
    BY <1>1
  <2>2. first = [table |-> mid.table, area |-> area, index |-> mid.index, used |-> mid.used]
    BY <1>4
  <2> HIDE DEF first
  <2>3. next = [table |-> mid.table, area |-> area,
                  index |-> [mid.index EXCEPT ![a] = byte], used |-> mid.used]
    BY <2>2
  <2> HIDE DEF next
  <2> QED BY <2>1, <2>3
<1>7. /\ new.used = [mid.used EXCEPT ![a] = last]
      /\ new.table = mid.table /\ new.area = area /\ new.index = [mid.index EXCEPT ![a] = byte]
      /\ new = [table |-> new.table, area |-> new.area, index |-> new.index, used |-> new.used]
  BY <1>6
<1>8. IsHeap(new)
  <2>1. new.index \in [AreaSet -> Nat]
    BY <1>5, <1>7
  <2> QED BY <1>3, <1>5, <1>7, <2>1 DEF IsHeap
<1>9. Hinted(new)
  <2> SUFFICES ASSUME NEW x \in AreaSet, NEW c \in BlockSet(x), new.table[x][c] = "free"
               PROVE  new.area <= x /\ new.index[x] * BlocksPerATB <= c
    BY DEF Hinted
  <2>1. mid.area <= x /\ mid.index[x] * BlocksPerATB <= c
    BY <1>3, <1>7 DEF Hinted
  <2>2. c \in Nat /\ x \in Int /\ a \in Int
    BY BlocksNat, GcHeapAssumption DEF AreaSet
  <2>3. one.table[x][c] = "free"
    BY <1>3, <1>7
  <2>4. h.table[x][c] = "free" /\ ~(x = a /\ c = b)
    BY <1>0, <1>2, <2>3
  <2>5. CASE n # 1
    BY <1>5, <1>7, <2>1, <2>5 DEF area, byte
  <2>6. CASE n = 1
    <3>1. ~(x < a) /\ (x = a => ~(c < b))
      BY <2>4, <2>6
    <3>2. new.area <= x
      BY <1>7, <2>2, <2>6, <3>1 DEF area
    <3>3. CASE x # a
      BY <1>5, <1>7, <2>1, <3>2, <3>3
    <3>4. CASE x = a
      <4>1. b + 1 \in Nat /\ b + 1 <= c
        BY <1>0, <2>2, <2>4, <3>1, <3>4
      <4>2. byte = (b + 1) \div BlocksPerATB
        BY <2>6 DEF byte
      <4>3. byte * BlocksPerATB <= b + 1 /\ byte * BlocksPerATB \in Int
        BY <1>5, <4>1, <4>2, ByteStart, GcHeapAssumption
      <4>4. new.index[x] = byte
        BY <1>5, <1>7, <3>4
      <4>5. byte * BlocksPerATB <= c
        BY <2>2, <4>1, <4>3
      <4> QED BY <3>2, <4>4, <4>5
    <3> QED BY <3>3, <3>4
  <2> QED BY <2>5, <2>6
<1>10. new.used = [h.used EXCEPT ![a] = Max({h.used[a], b + n - 1})]
  BY <1>3, <1>7 DEF last
<1>11. ASSUME NEW x \in AreaSet, NEW c \in BlockSet(x)
       PROVE  new.table[x][c] = IF x = a /\ c \in b..b + n - 1
                                THEN (IF c = b THEN "head" ELSE "tail")
                                ELSE h.table[x][c]
  <2>1. c \in Nat
    BY BlocksNat
  <2>2. /\ c \in b..second - 1 <=> c = b
        /\ c \in b..b + n - 1 <=> c = b \/ c \in second..end - 1
        /\ c = b => c \notin second..end - 1
    BY <1>0, <2>1 DEF second, end
  <2> QED BY <1>2, <1>3, <1>7, <2>2
<1>12. Occupied(h, new, a, b, n)
  BY <1>10, <1>11 DEF Occupied
<1> QED BY <1>8, <1>9, <1>12 DEF new

(* n blocks that were free in h are the object p in new. *)
Taken(h, new, p, n) ==
    /\ p = <<p[1], p[2]>> /\ IsAddress(p)
    /\ p[2] + n <= Blocks(p[1]) /\ AllFree(h, p[1], p[2], p[2] + n)
    /\ Occupied(h, new, p[1], p[2], n)

(* A search keeps the hints sound, and fails only when there is no run. *)
LEMMA SearchHinted ==
    ASSUME NEW h, IsHeap(h), Hinted(h), NEW n \in Nat \ {0}
    PROVE  LET r == Search(h, n)
           IN  /\ IsHeap(r.heap) /\ Hinted(r.heap)
               /\ r.ptr = NULL => /\ NoRun(r.heap, n)
                                  /\ r.heap.table = h.table /\ r.heap.used = h.used
               /\ r.ptr # NULL => Taken(h, r.heap, r.ptr, n)
<1>0. Areas \in Nat /\ h.area \in Nat /\ h.area \in AreaSet /\ AreaSet \subseteq Nat
  BY GcHeapAssumption DEF IsHeap, AreaSet
<1>1. CASE Room(h, n) = {}
  <2> DEFINE new == Filled(h, n, Areas)
  <2>1. Search(h, n) = [heap |-> new, ptr |-> NULL]
    BY <1>1 DEF Search
  <2>2. \A x \in AreaSet : x \in h.area..Areas => Runs(h, x, n) = {}
    BY <1>1 DEF Room
  <2>3. IsHeap(new) /\ Hinted(new) /\ new.table = h.table /\ new.used = h.used
    BY <1>0, <2>2, FilledHinted
  <2>4. NoRun(h, n)
    <3> SUFFICES ASSUME NEW a \in AreaSet, NEW b \in BlockSet(a), b + n <= Blocks(a),
                        AllFree(h, a, b, b + n)
                 PROVE  FALSE
      BY DEF NoRun
    <3>1. h.area <= a /\ b \in Runs(h, a, n)
      BY RunsComplete
    <3>2. a \in h.area..Areas
      BY <1>0, <3>1 DEF AreaSet
    <3> QED BY <2>2, <3>1, <3>2
  <2> HIDE DEF new
  <2>5. NoRun(new, n)
    BY <2>3, <2>4 DEF NoRun, AllFree
  <2> QED BY <2>1, <2>3, <2>5
<1>2. CASE Room(h, n) # {}
  <2> DEFINE a == Min(Room(h, n))
             b == Min(Runs(h, a, n))
             mid == Filled(h, n, a - 1)
  <2>1. Search(h, n) = [heap |-> Take(mid, a, b, n), ptr |-> <<a, b>>]
    BY <1>2 DEF Search
  <2>2. Room(h, n) \in SUBSET Nat
    BY <1>0 DEF Room
  <2>3. a \in Room(h, n) /\ \A y \in Room(h, n) : a <= y
    BY <1>2, <2>2, LeastElement
  <2> HIDE DEF a
  <2>4. a \in AreaSet /\ a \in Nat /\ h.area <= a /\ Runs(h, a, n) # {}
    BY <1>0, <2>3 DEF Room, AreaSet
  <2>5. Runs(h, a, n) \in SUBSET Nat
    BY <2>4, BlocksNat DEF Runs
  <2>6. b \in Runs(h, a, n) /\ \A y \in Runs(h, a, n) : b <= y
    BY <2>4, <2>5, LeastElement
  <2> HIDE DEF b
  <2>7. b \in BlockSet(a) /\ b \in Nat
    BY <2>4, <2>6, BlocksNat DEF Runs
  <2>8. \A x \in AreaSet : x \in h.area..a - 1 => Runs(h, x, n) = {}
    <3> SUFFICES ASSUME NEW x \in AreaSet, x \in h.area..a - 1, Runs(h, x, n) # {}
                 PROVE  FALSE
      OBVIOUS
    <3>1. x \in Room(h, n)
      BY <1>0, <2>4 DEF Room, AreaSet
    <3> QED BY <1>0, <2>3, <2>4, <3>1
  <2>9. IsHeap(mid) /\ Hinted(mid) /\ mid.table = h.table /\ mid.used = h.used
    BY <1>0, <2>4, <2>8, FilledHinted
  <2> HIDE DEF mid
  <2>10. n = 1 => /\ \A x \in AreaSet : \A c \in BlockSet(x) : x < a => h.table[x][c] # "free"
                  /\ \A c \in BlockSet(a) : c < b => h.table[a][c] # "free"
    <3> SUFFICES ASSUME n = 1
                 PROVE  /\ \A x \in AreaSet : \A c \in BlockSet(x) :
                                x < a => h.table[x][c] # "free"
                        /\ \A c \in BlockSet(a) : c < b => h.table[a][c] # "free"
      OBVIOUS
    <3>0. ASSUME NEW x \in AreaSet, NEW c \in BlockSet(x), h.table[x][c] = "free"
          PROVE  h.area <= x /\ c \in Runs(h, x, n)
      <4>1. c \in Nat /\ Blocks(x) \in Nat /\ c + 1 <= Blocks(x)
        BY BlocksNat DEF BlockSet
      <4>2. c..c + 1 - 1 = {c}
        BY <4>1
      <4>3. AllFree(h, x, c, c + 1)
        BY <3>0, <4>2 DEF AllFree
      <4> QED BY <4>1, <4>3, RunsComplete
    <3>1. ASSUME NEW x \in AreaSet, NEW c \in BlockSet(x), x < a, h.table[x][c] = "free"
          PROVE  FALSE
      <4>1. h.area <= x /\ c \in Runs(h, x, n)
        BY <3>0, <3>1
      <4>2. x \in h.area..a - 1
        BY <1>0, <2>4, <3>1, <4>1
      <4> QED BY <2>8, <4>1, <4>2
    <3>2. ASSUME NEW c \in BlockSet(a), c < b, h.table[a][c] = "free"
          PROVE  FALSE
      <4>1. c \in Runs(h, a, n) /\ c \in Nat
        BY <2>4, <3>0, <3>2, BlocksNat
      <4> QED BY <2>6, <2>7, <3>2, <4>1
    <3> QED BY <3>1, <3>2
  <2> DEFINE new == Take(mid, a, b, n)
  <2>11. IsHeap(new) /\ Hinted(new) /\ Occupied(h, new, a, b, n)
    <3>1. n = 1 => /\ \A x \in AreaSet : \A c \in BlockSet(x) : x < a => mid.table[x][c] # "free"
                   /\ \A c \in BlockSet(a) : c < b => mid.table[a][c] # "free"
      BY <2>9, <2>10
    <3>2. IsHeap(new) /\ Hinted(new) /\ Occupied(mid, new, a, b, n)
      BY <2>4, <2>7, <2>9, <3>1, TakeHinted
    <3> HIDE DEF new
    <3> QED BY <2>9, <3>2 DEF Occupied
  <2> HIDE DEF new
  <2>12. <<a, b>> # NULL /\ IsAddress(<<a, b>>)
    <3>1. a # 0
      BY <2>4 DEF AreaSet
    <3> QED BY <2>4, <2>7, <3>1 DEF NULL, IsAddress
  <2>13. b + n <= Blocks(a) /\ AllFree(h, a, b, b + n)
    BY <2>6 DEF Runs
  <2>14. Taken(h, new, <<a, b>>, n)
    BY <2>11, <2>12, <2>13 DEF Taken
  <2>15. Search(h, n).heap = new /\ Search(h, n).ptr = <<a, b>>
    BY <2>1 DEF new
  <2> QED BY <2>11, <2>12, <2>14, <2>15
<1> QED BY <1>1, <1>2

(* An allocation, with the collections it makes *)
LEMMA AllocHinted ==
    ASSUME NEW h, IsHeap(h), Hinted(h), NEW objects, NEW n \in Nat \ {0}, NEW early
    PROVE  LET r == Alloc(h, objects, n, early)
           IN  /\ IsHeap(r.heap) /\ Hinted(r.heap)
               /\ r.ptr = NULL => NoRun(r.heap, n)
               /\ r.ptr # NULL => IsAddress(r.ptr)
<1> DEFINE start == IF auto /\ early THEN Collect(h, objects) ELSE h
           first == Search(start, n)
           again == Collect(first.heap, objects)
<1>1. IsHeap(start) /\ Hinted(start)
  BY CollectHinted
<1> HIDE DEF start
<1>2. IsHeap(first.heap) /\ Hinted(first.heap)
  BY <1>1, SearchHinted
<1>3. IsHeap(again) /\ Hinted(again)
  BY <1>2, CollectHinted
<1>4. \/ Alloc(h, objects, n, early) = first
      \/ Alloc(h, objects, n, early) = Search(again, n)
  BY DEF Alloc, start
<1>5. \A g, p, q : Taken(g, p, q, n) => IsAddress(q)
  BY DEF Taken
<1> HIDE DEF again
<1> QED BY <1>1, <1>3, <1>4, <1>5, SearchHinted

-----------------------------------------------------------------------------
(* The actions *)

(* The last used block is no hint of a search. *)
LEMMA SetUsedHinted ==
    ASSUME NEW h, IsHeap(h), Hinted(h), NEW a \in AreaSet, NEW block
    PROVE  /\ IsHeap([h EXCEPT !.used[a] = block])
           /\ Hinted([h EXCEPT !.used[a] = block])
           /\ [h EXCEPT !.used[a] = block].table = h.table
           /\ [h EXCEPT !.used[a] = block].used = [h.used EXCEPT ![a] = block]
<1> DEFINE new == [h EXCEPT !.used[a] = block]
<1>1. h = [table |-> h.table, area |-> h.area, index |-> h.index, used |-> h.used]
  BY DEF IsHeap
<1>2. new = [table |-> h.table, area |-> h.area, index |-> h.index,
             used |-> [h.used EXCEPT ![a] = block]]
  BY <1>1
<1> HIDE DEF new
<1>3. /\ new.table = h.table /\ new.area = h.area /\ new.index = h.index
      /\ new.used = [h.used EXCEPT ![a] = block]
      /\ new = [table |-> new.table, area |-> new.area, index |-> new.index, used |-> new.used]
  BY <1>2
<1>4. IsHeap(new) /\ Hinted(new)
  BY <1>3 DEF IsHeap, Hinted
<1> QED BY <1>3, <1>4 DEF new

(* The objects in use have addresses. *)
LEMMA LiveObjects ==
    ASSUME IsLive(live), NEW p, NEW n, NEW q
    PROVE  /\ IsLive(Forget(p))
           /\ IsAddress(q) => IsLive(Remember(live, q, n)) /\ IsLive(Remember(Forget(p), q, n))
BY DEF IsLive, Forget, Remember

(* An operation that does not fail and keeps the lock *)
LEMMA Succeeded ==
    ASSUME IInv, IsHeap(heap'), Hinted(heap'), IsLive(live'), failed' = 0, UNCHANGED depth
    PROVE  IInv'
<1>1. FailsOnlyWhenFull'
  BY DEF FailsOnlyWhenFull
<1> QED BY <1>1 DEF IInv

(* An allocation that fails *)
LEMMA Failed ==
    ASSUME IInv, IsHeap(heap'), Hinted(heap'), IsLive(live'), NEW n, failed' = n,
           NoRun(heap', n), UNCHANGED depth
    PROVE  IInv'
<1>1. FailsOnlyWhenFull'
  BY DEF FailsOnlyWhenFull, NoRun, AllFree
<1> QED BY <1>1 DEF IInv

LEMMA InitIInv == Init => IInv
<1> SUFFICES ASSUME Init PROVE IInv
  OBVIOUS
<1> DEFINE table == [a \in AreaSet |-> [b \in BlockSet(a) |-> "free"]]
           zero == [a \in AreaSet |-> 0]
<1>1. heap = [table |-> table, area |-> 1, index |-> zero, used |-> zero]
  BY DEF Init
<1>2. /\ table = [a \in AreaSet |-> table[a]]
      /\ \A a \in AreaSet : table[a] = [b \in BlockSet(a) |-> table[a][b]]
  OBVIOUS
<1>3. 1 \in AreaSet /\ zero \in [AreaSet -> Nat] /\ \A a \in AreaSet : zero[a] = 0 /\ 1 <= a
  BY GcHeapAssumption DEF AreaSet
<1> HIDE DEF table, zero
<1>4. heap.table = table /\ heap.area = 1 /\ heap.index = zero /\ heap.used = zero
  BY <1>1
<1>5. IsHeap(heap)
  BY <1>1, <1>2, <1>3, <1>4 DEF IsHeap
<1>6. Hinted(heap)
  <2> SUFFICES ASSUME NEW a \in AreaSet, NEW b \in BlockSet(a)
               PROVE  heap.area <= a /\ heap.index[a] * BlocksPerATB <= b
    BY DEF Hinted
  <2>1. b \in Nat
    BY BlocksNat
  <2>2. heap.index[a] = 0 /\ 0 * BlocksPerATB = 0 /\ heap.area <= a
    BY <1>3, <1>4, GcHeapAssumption
  <2> QED BY <2>1, <2>2
<1>7. IsLive(live)
  BY DEF Init, IsLive
<1>8. depth \in Nat /\ FailsOnlyWhenFull
  BY DEF Init, FailsOnlyWhenFull
<1> QED BY <1>5, <1>6, <1>7, <1>8 DEF IInv

LEMMA AllocIInv ==
    ASSUME IInv, NEW n \in Nat \ {0}, NEW early, gc_alloc(n, early)
    PROVE  IInv'
<1> DEFINE r == Alloc(heap, DOMAIN live, n, early)
<1>0. IsHeap(heap) /\ Hinted(heap) /\ IsLive(live)
  BY DEF IInv
<1>1. /\ IsHeap(r.heap) /\ Hinted(r.heap)
      /\ r.ptr = NULL => NoRun(r.heap, n)
      /\ r.ptr # NULL => IsAddress(r.ptr)
  BY <1>0, AllocHinted
<1>2. CASE depth > 0
  BY <1>0, <1>2, Succeeded DEF gc_alloc
<1>3. CASE ~(depth > 0) /\ r.ptr = NULL
  <2>1. heap' = r.heap /\ live' = live /\ failed' = n /\ UNCHANGED depth
    BY <1>3 DEF gc_alloc
  <2> HIDE DEF r
  <2> QED BY <1>0, <1>1, <1>3, <2>1, Failed
<1>4. CASE ~(depth > 0) /\ r.ptr # NULL
  <2>1. heap' = r.heap /\ live' = Remember(live, r.ptr, n) /\ failed' = 0 /\ UNCHANGED depth
    BY <1>4 DEF gc_alloc
  <2> HIDE DEF r
  <2>2. IsLive(live')
    BY <1>0, <1>1, <1>4, <2>1, LiveObjects
  <2> QED BY <1>1, <2>1, <2>2, Succeeded
<1> QED BY <1>2, <1>3, <1>4

LEMMA FreeIInv ==
    ASSUME IInv, NEW p \in DOMAIN live, gc_free(p)
    PROVE  IInv'
<1>1. IsHeap(heap) /\ Hinted(heap) /\ IsLive(live) /\ p[1] \in AreaSet /\ p[2] \in BlockSet(p[1])
  BY DEF IInv, IsLive, IsAddress
<1>2. IsHeap(FreeChain(heap, p[1], p[2])) /\ Hinted(FreeChain(heap, p[1], p[2]))
  BY <1>1, FreeChainHinted
<1>3. IsHeap(heap') /\ Hinted(heap')
  BY <1>1, <1>2 DEF gc_free
<1>4. IsLive(live')
  BY <1>1, LiveObjects DEF gc_free
<1> QED BY <1>3, <1>4, Succeeded DEF gc_free

LEMMA ReallocIInv ==
    ASSUME IInv, NEW p \in DOMAIN live, NEW n \in Nat \ {0}, NEW move, NEW early,
           gc_realloc(p, n, move, early)
    PROVE  IInv'
<1> DEFINE a == p[1]
           b == p[2]
           end == ChainEnd(heap, a, b)
<1>0. /\ IsHeap(heap) /\ Hinted(heap) /\ IsLive(live) /\ depth \in Nat
      /\ IsAddress(p) /\ a \in AreaSet /\ b \in BlockSet(a)
  BY DEF IInv, IsLive, IsAddress
<1>1. b \in Nat /\ Blocks(a) \in Nat /\ end \in Nat /\ b < end /\ end <= Blocks(a)
  BY <1>0, BlocksNat, ChainEndType
<1>2. UNCHANGED depth
  BY DEF gc_realloc
<1>3. IsLive(Remember(live, p, n))
  BY <1>0, LiveObjects
<1>4. CASE failed' = 0 /\ UNCHANGED <<heap, live>>
  BY <1>0, <1>2, <1>4, Succeeded
<1>5. CASE b + n < end /\ Shrink(p, end, n)
  <2>1. b + n \in BlockSet(a)
    BY <1>1, <1>5 DEF BlockSet
  <2>2. /\ heap' = FreeHint(SetKind(heap, a, b + n, end, "free"), a, b + n)
        /\ live' = Remember(live, p, n) /\ failed' = 0
    BY <1>5 DEF Shrink
  <2> DEFINE from == b + n
  <2> HIDE DEF from, end
  <2>3. /\ IsHeap(FreeHint(SetKind(heap, a, from, end, "free"), a, from))
        /\ Hinted(FreeHint(SetKind(heap, a, from, end, "free"), a, from))
    <3>1. from \in BlockSet(a) /\ end \in Int
      BY <1>1, <2>1 DEF from
    <3> QED BY <1>0, <3>1, FreedHinted
  <2>4. IsHeap(heap') /\ Hinted(heap')
    BY <2>2, <2>3 DEF from
  <2> QED BY <1>2, <1>3, <2>2, <2>4, Succeeded
<1>6. CASE Expand(p, end, n)
  <2> DEFINE to == b + n
             mid == SetKind(heap, a, end, to, "tail")
             last == Max({mid.used[a], to})
  <2>1. heap' = [mid EXCEPT !.used[a] = last] /\ live' = Remember(live, p, n) /\ failed' = 0
    BY <1>6 DEF Expand
  <2> HIDE DEF to, end, last
  <2>2. IsHeap(mid) /\ Hinted(mid)
    BY <1>0, UsedHinted
  <2> HIDE DEF mid
  <2>3. IsHeap(heap') /\ Hinted(heap')
    BY <1>0, <2>1, <2>2, SetUsedHinted
  <2> QED BY <1>2, <1>3, <2>1, <2>3, Succeeded
<1>7. CASE Move(p, n, early)
  <2> DEFINE r == Alloc(heap, DOMAIN live, n, early)
  <2>1. /\ IsHeap(r.heap) /\ Hinted(r.heap)
        /\ r.ptr = NULL => NoRun(r.heap, n)
        /\ r.ptr # NULL => IsAddress(r.ptr)
    BY <1>0, AllocHinted
  <2>2. CASE r.ptr = NULL
    <3>1. heap' = r.heap /\ failed' = n /\ live' = live
      BY <1>7, <2>2 DEF Move
    <3> HIDE DEF r
    <3> QED BY <1>0, <1>2, <2>1, <2>2, <3>1, Failed
  <2>3. CASE r.ptr # NULL
    <3>1. /\ heap' = FreeChain(r.heap, a, b) /\ failed' = 0
          /\ live' = Remember(Forget(p), r.ptr, n)
      BY <1>7, <2>3 DEF Move
    <3> HIDE DEF r
    <3>2. IsHeap(heap') /\ Hinted(heap')
      BY <1>0, <2>1, <3>1, FreeChainHinted
    <3>3. IsLive(live')
      BY <1>0, <2>1, <2>3, <3>1, LiveObjects
    <3> QED BY <1>2, <3>1, <3>2, <3>3, Succeeded
  <2> QED BY <2>2, <2>3
<1>8. \/ failed' = 0 /\ UNCHANGED <<heap, live>>
      \/ b + n < end /\ Shrink(p, end, n)
      \/ Expand(p, end, n)
      \/ Move(p, n, early)
  <2>1. depth > 0 \/ depth = 0
    BY <1>0
  <2>2. b + n = end \/ b + n < end \/ b + n > end
    BY <1>1
  <2> HIDE DEF end
  <2> QED BY <2>1, <2>2 DEF gc_realloc, end
<1> QED BY <1>4, <1>5, <1>6, <1>7, <1>8

(* The inductive step *)
LEMMA NextIInv == IInv /\ [Next]_vars => IInv'
<1> SUFFICES ASSUME IInv, [Next]_vars PROVE IInv'
  OBVIOUS
<1>0. IsHeap(heap) /\ Hinted(heap) /\ IsLive(live) /\ depth \in Nat
  BY DEF IInv
<1>1. \A n \in 1..MaxBlocks : n \in Nat \ {0}
  BY GcHeapAssumption
<1>2. ASSUME NEW n \in 1..MaxBlocks, NEW early \in Early, gc_alloc(n, early)
      PROVE  IInv'
  BY <1>1, <1>2, AllocIInv
<1>3. ASSUME NEW p \in DOMAIN live, gc_free(p)
      PROVE  IInv'
  BY <1>3, FreeIInv
<1>4. ASSUME NEW p \in DOMAIN live, NEW n \in 1..MaxBlocks, NEW early \in Early,
             NEW move \in {TRUE, early}, gc_realloc(p, n, move, early)
      PROVE  IInv'
  BY <1>1, <1>4, ReallocIInv
<1>5. ASSUME NEW p \in DOMAIN live, Drop(p)
      PROVE  IInv'
  <2>1. IsLive(live')
    BY <1>0, <1>5, LiveObjects DEF Drop
  <2> QED BY <1>0, <1>5, <2>1, Succeeded DEF Drop
<1>6. ASSUME NEW on \in BOOLEAN, gc_enable(on)
      PROVE  IInv'
  BY <1>0, <1>6, Succeeded DEF gc_enable
<1>7. CASE gc_collect
  <2>1. IsHeap(heap') /\ Hinted(heap')
    BY <1>0, <1>7, CollectHinted DEF gc_collect
  <2> QED BY <1>0, <1>7, <2>1, Succeeded DEF gc_collect
<1>8. CASE gc_sweep_all
  <2>1. IsHeap(heap') /\ Hinted(heap')
    BY <1>0, <1>8, CollectEndHinted DEF gc_sweep_all
  <2>2. IsLive(live')
    BY <1>8 DEF gc_sweep_all, IsLive
  <2> QED BY <1>8, <2>1, <2>2, Succeeded DEF gc_sweep_all
<1>9. CASE gc_lock \/ gc_unlock
  <2>1. depth' \in Nat
    BY <1>0, <1>9, GcHeapAssumption DEF gc_lock, gc_unlock
  <2>2. UNCHANGED <<heap, live>> /\ failed' = 0
    BY <1>9 DEF gc_lock, gc_unlock
  <2>3. FailsOnlyWhenFull'
    BY <2>2 DEF FailsOnlyWhenFull
  <2> QED BY <1>0, <2>1, <2>2, <2>3 DEF IInv
<1>10. CASE UNCHANGED vars
  BY <1>10 DEF vars, IInv, FailsOnlyWhenFull, AllFree
<1> QED BY <1>2, <1>3, <1>4, <1>5, <1>6, <1>7, <1>8, <1>9, <1>10 DEF Next

-----------------------------------------------------------------------------
(* The hints of gc_alloc() never hide a free block: whatever was           *)
(* allocated, resized, moved, freed and collected, no block before the     *)
(* last free area or the last free table byte is free.                     *)
THEOREM HintsAreSound == Spec => []HintsSound
<1>1. IInv => HintsSound
  <2> SUFFICES ASSUME IInv, NEW p \in Addresses \ UsedBlocks
               PROVE  heap.area <= p[1] /\ heap.index[p[1]] * BlocksPerATB <= p[2]
    BY DEF HintsSound
  <2>1. PICK a \in AreaSet : p \in {a} \X BlockSet(a)
    BY DEF Addresses
  <2>2. p[1] = a /\ p[2] \in BlockSet(a) /\ heap.table[p[1]][p[2]] = "free"
    BY <2>1 DEF UsedBlocks
  <2> QED BY <2>2 DEF IInv, Hinted
<1> QED BY <1>1, InitIInv, NextIInv, PTL DEF Spec

(* gc_alloc() and gc_realloc() fail only when no area has a run of free    *)
(* blocks of the length asked for.                                         *)
THEOREM FailureMeansFull == Spec => []FailsOnlyWhenFull
<1>1. IInv => FailsOnlyWhenFull
  BY DEF IInv
<1> QED BY <1>1, InitIInv, NextIInv, PTL DEF Spec

-----------------------------------------------------------------------------
(* Chains *)

(* The blocks from b to end - 1 of an area are one chain. *)
IsChain(h, a, b, end) ==
    /\ end \in b + 1..Blocks(a)
    /\ h.table[a][b] = "head"
    /\ \A c \in b + 1..end - 1 : h.table[a][c] = "tail"
    /\ end < Blocks(a) => h.table[a][end] # "tail"

(* Between two operations no head is marked, every tail follows a block in *)
(* use, and no block after the last used one is in use.                    *)
Chained(h) ==
    /\ h.used \in [AreaSet -> Nat]
    /\ \A a \in AreaSet : \A b \in BlockSet(a) :
        /\ h.table[a][b] \in {"free", "head", "tail"}
        /\ h.table[a][b] = "tail" => b > 0 /\ h.table[a][b - 1] # "free"
        /\ h.table[a][b] # "free" => b <= h.used[a]

(* Each object of f is a chain of its length. *)
Intact(h, f) ==
    \A p \in DOMAIN f :
        /\ p = <<p[1], p[2]>> /\ IsAddress(p)
        /\ f[p] \in Nat \ {0}
        /\ IsChain(h, p[1], p[2], p[2] + f[p])

(* There is no garbage: every block in use belongs to an object of f. *)
Clean(h, f) ==
    \A a \in AreaSet : \A b \in BlockSet(a) :
        h.table[a][b] # "free" => <<a, b>> \in Covered(f)

(* A set of naturals with a bound has a greatest element: the one with the *)
(* least distance from the bound.                                          *)
LEMMA GreatestElement ==
    ASSUME NEW S \in SUBSET Nat, S # {}, NEW N \in Nat, \A y \in S : y <= N
    PROVE  /\ Max(S) \in S
           /\ \A y \in S : y <= Max(S)
<1> DEFINE D == {d \in Nat : N - d \in S}
<1>1. D \in SUBSET Nat /\ D # {}
  <2>1. PICK y \in S : TRUE
    OBVIOUS
  <2>2. y \in Nat /\ y <= N
    BY <2>1
  <2>3. N - y \in Nat /\ N - (N - y) = y
    BY <2>2
  <2>4. N - y \in D
    BY <2>1, <2>3
  <2> QED BY <2>4
<1>2. Min(D) \in D /\ \A d \in D : Min(D) <= d
  BY <1>1, LeastElement
<1> DEFINE x == N - Min(D)
<1>3. x \in S /\ Min(D) \in Nat
  BY <1>2
<1>4. \A y \in S : x >= y
  <2> SUFFICES ASSUME NEW y \in S PROVE x >= y
    OBVIOUS
  <2>1. y \in Nat /\ y <= N
    OBVIOUS
  <2>2. N - y \in Nat /\ N - (N - y) = y
    BY <2>1
  <2>3. N - y \in D
    BY <2>2
  <2>4. Min(D) <= N - y
    BY <1>2, <2>3
  <2> HIDE DEF D
  <2> QED BY <1>3, <2>1, <2>4
<1> HIDE DEF x
<1>5. \E z \in S : \A y \in S : z >= y
  BY <1>3, <1>4
<1>6. Max(S) = CHOOSE z \in S : \A y \in S : z >= y
  BY DEF Max
<1>7. Max(S) \in S /\ \A y \in S : Max(S) >= y
  BY <1>5, <1>6
<1> QED BY <1>7

(* ChainEnd finds the end of a chain. *)
LEMMA ChainEndIs ==
    ASSUME NEW h, NEW a \in AreaSet, NEW b \in BlockSet(a), NEW end, IsChain(h, a, b, end)
    PROVE  ChainEnd(h, a, b) = end
<1> DEFINE S == {c \in b + 1..Blocks(a) : c = Blocks(a) \/ h.table[a][c] # "tail"}
<1>1. Blocks(a) \in Nat /\ b \in Nat
  BY BlocksNat
<1>2. end \in b + 1..Blocks(a) /\ end \in Nat
  BY <1>1 DEF IsChain
<1>3. end \in S
  BY <1>1, <1>2 DEF IsChain
<1>4. \A c \in S : end <= c
  <2> SUFFICES ASSUME NEW c \in S, c < end PROVE FALSE
    BY <1>1, <1>2
  <2>1. c \in b + 1..end - 1
    BY <1>1, <1>2
  <2>2. h.table[a][c] = "tail"
    BY <2>1 DEF IsChain
  <2> QED BY <1>1, <1>2, <2>2
<1>5. Min(S) \in S /\ \A c \in S : Min(S) <= c
  <2>1. S \in SUBSET Nat /\ S # {}
    BY <1>1, <1>3
  <2> HIDE DEF S
  <2> QED BY <2>1, LeastElement
<1>6. Min(S) = end
  <2>1. Min(S) \in Nat
    BY <1>1, <1>5
  <2> HIDE DEF S
  <2> QED BY <1>2, <1>3, <1>4, <1>5, <2>1
<1> QED BY <1>6 DEF ChainEnd

(* Two chains of an area do not overlap. *)
LEMMA ChainsDisjoint ==
    ASSUME NEW h, NEW a \in AreaSet, NEW b \in BlockSet(a), NEW c \in BlockSet(a),
           NEW e, NEW d, IsChain(h, a, b, e), IsChain(h, a, c, d), b < c
    PROVE  e <= c
<1>1. b \in Nat /\ c \in Nat /\ Blocks(a) \in Nat /\ e \in Nat
  BY BlocksNat DEF IsChain
<1> SUFFICES ASSUME c < e PROVE FALSE
  BY <1>1
<1>2. c \in b + 1..e - 1
  BY <1>1
<1>3. h.table[a][c] = "tail" /\ h.table[a][c] = "head"
  BY <1>2 DEF IsChain
<1> QED BY <1>3

(* The tail that follows another block of a chain has a head: the last     *)
(* block before it that is no tail.                                        *)
LEMMA TailOwner ==
    ASSUME NEW h, Chained(h), NEW a \in AreaSet, NEW c \in BlockSet(a), h.table[a][c] = "tail"
    PROVE  \E m \in BlockSet(a) :
                /\ m < c
                /\ h.table[a][m] = "head"
                /\ \A y \in m + 1..c : h.table[a][y] = "tail"
<1> DEFINE S == {x \in 0..c : \A y \in x..c : h.table[a][y] = "tail"}
<1>1. c \in Nat /\ Blocks(a) \in Nat /\ c < Blocks(a)
  BY BlocksNat DEF BlockSet
<1>2. c \in S /\ S \in SUBSET Nat
  <2>1. c..c = {c}
    BY <1>1
  <2> QED BY <1>1, <2>1
<1>3. PICK x \in S : \A y \in S : x <= y
  BY <1>2, LeastElement
<1>4. x \in 0..c /\ x \in Nat /\ \A y \in x..c : h.table[a][y] = "tail"
  BY <1>1, <1>3
<1>5. x \in BlockSet(a) /\ h.table[a][x] = "tail"
  <2>1. x \in x..c
    BY <1>1, <1>4
  <2> QED BY <1>1, <1>4, <2>1 DEF BlockSet
<1>6. x > 0 /\ h.table[a][x - 1] # "free"
  BY <1>5 DEF Chained
<1> DEFINE m == x - 1
<1>7. m \in Nat /\ m < c /\ m \in BlockSet(a) /\ m + 1 = x
  BY <1>1, <1>4, <1>6 DEF BlockSet
<1>8. m \notin S
  BY <1>3, <1>4, <1>7
<1>9. h.table[a][m] # "tail"
  <2> SUFFICES ASSUME h.table[a][m] = "tail" PROVE m \in S
    BY <1>8
  <2>1. \A y \in m..c : y = m \/ y \in x..c
    BY <1>1, <1>4, <1>7
  <2> QED BY <1>1, <1>4, <1>7, <2>1
<1>10. h.table[a][m] = "head"
  BY <1>6, <1>7, <1>9 DEF Chained
<1> HIDE DEF m
<1> QED BY <1>4, <1>7, <1>10

(* Freeing the blocks of a chain from some block on keeps the other chains *)
(* and the front of this one.                                              *)
LEMMA FreedChains ==
    ASSUME NEW h, Chained(h), NEW a \in AreaSet, NEW b \in BlockSet(a), NEW end,
           IsChain(h, a, b, end), NEW from \in b..end - 1,
           NEW new, new.used = h.used,
           \A x \in AreaSet : \A c \in BlockSet(x) :
                new.table[x][c] = IF x = a /\ c \in from..end - 1 THEN "free" ELSE h.table[x][c]
    PROVE  /\ Chained(new)
           /\ from > b => IsChain(new, a, b, from)
           /\ \A x \in AreaSet : \A c \in BlockSet(x) : \A e :
                IsChain(h, x, c, e) /\ ~(x = a /\ c = b) => IsChain(new, x, c, e)
<1>1. /\ Blocks(a) \in Nat /\ b \in Nat /\ end \in Nat /\ from \in Nat
      /\ b <= from /\ from < end /\ end <= Blocks(a)
  BY BlocksNat DEF IsChain
<1>2. Chained(new)
  <2> SUFFICES ASSUME NEW x \in AreaSet, NEW c \in BlockSet(x)
               PROVE  /\ new.table[x][c] \in {"free", "head", "tail"}
                      /\ new.table[x][c] = "tail" => c > 0 /\ new.table[x][c - 1] # "free"
                      /\ new.table[x][c] # "free" => c <= new.used[x]
    BY DEF Chained
  <2>1. /\ h.table[x][c] \in {"free", "head", "tail"}
        /\ h.table[x][c] = "tail" => c > 0 /\ h.table[x][c - 1] # "free"
        /\ h.table[x][c] # "free" => c <= h.used[x]
    BY DEF Chained
  <2>2. ASSUME new.table[x][c] = "tail"
        PROVE  c > 0 /\ new.table[x][c - 1] # "free"
    <3>1. h.table[x][c] = "tail" /\ ~(x = a /\ c \in from..end - 1)
      BY <2>2
    <3>2. c \in Nat /\ c > 0 /\ c - 1 \in BlockSet(x)
      BY <2>1, <3>1, BlocksNat DEF BlockSet
    <3>3. ~(x = a /\ c - 1 \in from..end - 1)
      <4> SUFFICES ASSUME x = a, c - 1 \in from..end - 1 PROVE FALSE
        OBVIOUS
      <4>1. c = end /\ end < Blocks(a)
        BY <1>1, <3>1, <3>2 DEF BlockSet
      <4> QED BY <3>1, <4>1 DEF IsChain
    <3> QED BY <2>1, <3>1, <3>2, <3>3
  <2> QED BY <2>1, <2>2
<1>3. ASSUME from > b PROVE IsChain(new, a, b, from)
  <2>1. from \in b + 1..Blocks(a)
    BY <1>1, <1>3
  <2>2. new.table[a][b] = "head"
    BY <1>1, <1>3 DEF IsChain
  <2>3. ASSUME NEW c \in b + 1..from - 1 PROVE new.table[a][c] = "tail"
    <3>1. c \in BlockSet(a) /\ c \notin from..end - 1 /\ c \in b + 1..end - 1
      BY <1>1 DEF BlockSet
    <3> QED BY <3>1 DEF IsChain
  <2>4. from < Blocks(a) => new.table[a][from] # "tail"
    <3>1. from \in BlockSet(a) /\ from \in from..end - 1
      BY <1>1 DEF BlockSet
    <3> QED BY <3>1
  <2> QED BY <2>1, <2>2, <2>3, <2>4 DEF IsChain
<1>4. ASSUME NEW x \in AreaSet, NEW c \in BlockSet(x), NEW e,
             IsChain(h, x, c, e), ~(x = a /\ c = b)
      PROVE  IsChain(new, x, c, e)
  <2>1. c \in Nat /\ Blocks(x) \in Nat /\ e \in c + 1..Blocks(x) /\ e \in Nat
    BY <1>4, BlocksNat DEF IsChain
  <2>2. ASSUME NEW y \in c..e - 1
        PROVE  y \in BlockSet(x) /\ new.table[x][y] = h.table[x][y]
    <3>1. y \in BlockSet(x)
      BY <2>1 DEF BlockSet
    <3>2. ~(x = a /\ y \in from..end - 1)
      <4> SUFFICES ASSUME x = a PROVE y \notin from..end - 1
        OBVIOUS
      <4>1. CASE b < c
        <5>1. end <= c
          BY <1>4, <4>1, ChainsDisjoint
        <5> QED BY <1>1, <2>1, <5>1
      <4>2. CASE c < b
        <5>1. e <= b
          BY <1>4, <4>2, ChainsDisjoint
        <5> QED BY <1>1, <2>1, <5>1
      <4> QED BY <1>1, <1>4, <2>1, <4>1, <4>2
    <3> QED BY <3>1, <3>2
  <2>3. new.table[x][c] = "head"
    BY <1>4, <2>1, <2>2 DEF IsChain
  <2>4. \A y \in c + 1..e - 1 : new.table[x][y] = "tail"
    BY <1>4, <2>1, <2>2 DEF IsChain
  <2>5. ASSUME e < Blocks(x) PROVE new.table[x][e] # "tail"
    <3>1. e \in BlockSet(x) /\ h.table[x][e] # "tail"
      BY <1>4, <2>1, <2>5 DEF IsChain, BlockSet
    <3> QED BY <3>1
  <2> QED BY <2>1, <2>3, <2>4, <2>5 DEF IsChain
<1> QED BY <1>2, <1>3, <1>4

(* Using free blocks, as a new chain or at the end of one, keeps the other *)
(* chains.                                                                 *)
LEMMA GrownChains ==
    ASSUME NEW h, Chained(h), NEW a \in AreaSet, NEW from \in BlockSet(a),
           NEW to \in from + 1..Blocks(a), AllFree(h, a, from, to),
           NEW kind \in {"head", "tail"},
           kind = "tail" => from > 0 /\ h.table[a][from - 1] # "free",
           NEW new, new.used \in [AreaSet -> Nat],
           \A x \in AreaSet : h.used[x] <= new.used[x],
           to - 1 <= new.used[a],
           \A x \in AreaSet : \A c \in BlockSet(x) :
                new.table[x][c] = IF x = a /\ c \in from..to - 1
                                  THEN (IF c = from THEN kind ELSE "tail")
                                  ELSE h.table[x][c]
    PROVE  /\ Chained(new)
           /\ to < Blocks(a) => new.table[a][to] # "tail"
           /\ \A x \in AreaSet : \A c \in BlockSet(x) : \A e :
                IsChain(h, x, c, e) /\ ~(kind = "tail" /\ x = a /\ e = from)
                    => IsChain(new, x, c, e)
<1>1. /\ Blocks(a) \in Nat /\ from \in Nat /\ to \in Nat /\ from < to /\ to <= Blocks(a)
  BY BlocksNat
<1>2. \A y \in from..to - 1 : y \in BlockSet(a) /\ h.table[a][y] = "free"
  BY <1>1 DEF AllFree, BlockSet
<1>3. to < Blocks(a) => to \in BlockSet(a) /\ h.table[a][to] # "tail"
  <2> SUFFICES ASSUME to < Blocks(a), h.table[a][to] = "tail" PROVE FALSE
    BY <1>1 DEF BlockSet
  <2>1. to \in BlockSet(a)
    BY <1>1 DEF BlockSet
  <2>2. h.table[a][to - 1] # "free"
    BY <2>1 DEF Chained
  <2>3. to - 1 \in from..to - 1
    BY <1>1
  <2> QED BY <1>2, <2>2, <2>3
<1>4. Chained(new)
  <2> SUFFICES ASSUME NEW x \in AreaSet, NEW c \in BlockSet(x)
               PROVE  /\ new.table[x][c] \in {"free", "head", "tail"}
                      /\ new.table[x][c] = "tail" => c > 0 /\ new.table[x][c - 1] # "free"
                      /\ new.table[x][c] # "free" => c <= new.used[x]
    BY DEF Chained
  <2>0. c \in Nat /\ c < Blocks(x) /\ Blocks(x) \in Nat
    BY BlocksNat DEF BlockSet
  <2>1. /\ h.table[x][c] \in {"free", "head", "tail"}
        /\ h.table[x][c] = "tail" => c > 0 /\ h.table[x][c - 1] # "free"
        /\ h.table[x][c] # "free" => c <= h.used[x]
    BY DEF Chained
  <2>2. CASE x = a /\ c \in from..to - 1
    <3>1. new.table[x][c] = IF c = from THEN kind ELSE "tail"
      BY <2>2
    <3>2. c <= new.used[x]
      BY <1>1, <2>0, <2>2
    <3>3. CASE c = from
      <4>1. ASSUME kind = "tail" PROVE c > 0 /\ new.table[x][c - 1] # "free"
        <5>1. c - 1 \in BlockSet(x) /\ c - 1 \notin from..to - 1
          BY <1>1, <2>0, <3>3, <4>1 DEF BlockSet
        <5> QED BY <2>2, <3>3, <4>1, <5>1
      <4> QED BY <3>1, <3>2, <3>3, <4>1
    <3>4. CASE c # from
      <4>1. c > 0 /\ c - 1 \in from..to - 1 /\ c - 1 \in BlockSet(x)
        BY <1>1, <2>0, <2>2, <3>4 DEF BlockSet
      <4>2. new.table[x][c - 1] \in {kind, "tail"}
        BY <2>2, <4>1
      <4> QED BY <3>1, <3>2, <3>4, <4>1, <4>2
    <3> QED BY <3>3, <3>4
  <2>3. CASE ~(x = a /\ c \in from..to - 1)
    <3>1. new.table[x][c] = h.table[x][c]
      BY <2>3
    <3>2. ASSUME h.table[x][c] = "tail" PROVE c > 0 /\ new.table[x][c - 1] # "free"
      <4>1. c > 0 /\ c - 1 \in BlockSet(x) /\ h.table[x][c - 1] # "free"
        BY <2>0, <2>1, <3>2 DEF BlockSet
      <4>2. new.table[x][c - 1] \in {kind, "tail", h.table[x][c - 1]}
        BY <4>1
      <4> QED BY <4>1, <4>2
    <3>3. h.used[x] \in Nat /\ new.used[x] \in Nat
      BY DEF Chained
    <3> QED BY <2>0, <2>1, <3>1, <3>2, <3>3
  <2> QED BY <2>2, <2>3
<1>5. to < Blocks(a) => new.table[a][to] # "tail"
  <2>1. to \notin from..to - 1
    BY <1>1
  <2> QED BY <1>3, <2>1
<1>6. ASSUME NEW x \in AreaSet, NEW c \in BlockSet(x), NEW e,
             IsChain(h, x, c, e), ~(kind = "tail" /\ x = a /\ e = from)
      PROVE  IsChain(new, x, c, e)
  <2>1. c \in Nat /\ Blocks(x) \in Nat /\ e \in c + 1..Blocks(x) /\ e \in Nat
    BY <1>6, BlocksNat DEF IsChain
  <2>2. \A y \in c..e - 1 : y \in BlockSet(x) /\ h.table[x][y] # "free"
    BY <1>6, <2>1 DEF IsChain, BlockSet
  <2>3. \A y \in c..e - 1 : new.table[x][y] = h.table[x][y]
    BY <1>2, <2>2
  <2>4. new.table[x][c] = "head"
    BY <1>6, <2>1, <2>3 DEF IsChain
  <2>5. \A y \in c + 1..e - 1 : new.table[x][y] = "tail"
    BY <1>6, <2>1, <2>3 DEF IsChain
  <2>6. ASSUME e < Blocks(x) PROVE new.table[x][e] # "tail"
    <3>1. e \in BlockSet(x) /\ h.table[x][e] # "tail"
      BY <1>6, <2>1, <2>6 DEF IsChain, BlockSet
    <3>2. CASE x = a /\ e \in from..to - 1
      <4>1. e = from
        <5> SUFFICES ASSUME e # from PROVE FALSE
          OBVIOUS
        <5>1. e - 1 \in from..to - 1 /\ e - 1 \in c..e - 1
          BY <1>1, <2>1, <3>2
        <5> QED BY <1>2, <2>2, <3>2, <5>1
      <4>2. kind = "head"
        BY <1>6, <3>2, <4>1
      <4> QED BY <3>1, <3>2, <4>1, <4>2
    <3>3. CASE ~(x = a /\ e \in from..to - 1)
      BY <3>1, <3>3
    <3> QED BY <3>2, <3>3
  <2> QED BY <2>1, <2>4, <2>5, <2>6 DEF IsChain
<1> QED BY <1>4, <1>5, <1>6

(* What the sweep makes of a block *)
LEMMA SweptKinds ==
    ASSUME NEW t, NEW b
    PROVE  /\ t[b] = "mark" => Swept(t, b) = "head"
           /\ t[b] \in {"head", "free"} => Swept(t, b) = "free"
           /\ t[b] = "tail" /\ FreeTail(t, b) => Swept(t, b) = "free"
           /\ t[b] = "tail" /\ ~FreeTail(t, b) => Swept(t, b) = "tail"
<1>1. t[b] = "mark" => Swept(t, b) = "head"
  BY Zenon DEF Swept
<1>2. t[b] = "head" => Swept(t, b) = "free"
  BY Zenon DEF Swept
<1>3. t[b] = "free" => Swept(t, b) = "free"
  BY Zenon DEF Swept
<1>4. t[b] = "tail" => Swept(t, b) = IF FreeTail(t, b) THEN "free" ELSE "tail"
  BY Zenon DEF Swept
<1> QED BY <1>1, <1>2, <1>3, <1>4

(* The sweep frees a tail exactly if the head of its chain is not marked. *)
LEMMA FreeTailIs ==
    ASSUME NEW t, NEW m \in Nat, NEW c \in Nat, m < c, t[m] \in {"head", "mark"},
           \A y \in m + 1..c : t[y] = "tail"
    PROVE  FreeTail(t, c) <=> t[m] = "head"
<1> DEFINE owners == {y \in 0..c : t[y] \in {"head", "mark"}}
<1>1. m \in owners
  OBVIOUS
<1>2. \A y \in owners : y <= m
  <2> SUFFICES ASSUME NEW y \in owners, ~(y <= m) PROVE FALSE
    OBVIOUS
  <2>1. y \in m + 1..c
    OBVIOUS
  <2>2. t[y] = "tail" /\ t[y] \in {"head", "mark"}
    BY <2>1
  <2> QED BY <2>2
<1>3. owners \in SUBSET Nat /\ owners # {}
  BY <1>1
<1> HIDE DEF owners
<1>4. Max(owners) \in owners /\ \A y \in owners : y <= Max(owners)
  BY <1>2, <1>3, GreatestElement
<1>5. Max(owners) = m
  <2>1. Max(owners) \in Nat /\ Max(owners) <= m /\ m <= Max(owners)
    BY <1>1, <1>2, <1>3, <1>4
  <2> QED BY <2>1
<1>6. FreeTail(t, c) <=> owners # {} /\ t[Max(owners)] = "head"
  BY DEF FreeTail, owners
<1> QED BY <1>3, <1>5, <1>6

(* The blocks of an object *)
LEMMA CoveredBlocks ==
    ASSUME NEW f, \A p \in DOMAIN f : p = <<p[1], p[2]>>, NEW a, NEW b
    PROVE  <<a, b>> \in Covered(f) <=>
                \E m : <<a, m>> \in DOMAIN f /\ b \in m..m + f[<<a, m>>] - 1
<1>1. ASSUME <<a, b>> \in Covered(f)
      PROVE  \E m : <<a, m>> \in DOMAIN f /\ b \in m..m + f[<<a, m>>] - 1
  <2>1. PICK p \in DOMAIN f : <<a, b>> \in {p[1]} \X (p[2]..p[2] + f[p] - 1)
    BY <1>1 DEF Covered
  <2>2. a = p[1] /\ b \in p[2]..p[2] + f[p] - 1 /\ p = <<p[1], p[2]>>
    BY <2>1
  <2>3. p = <<a, p[2]>>
    BY <2>2
  <2> QED BY <2>2, <2>3
<1>2. ASSUME NEW m, <<a, m>> \in DOMAIN f, b \in m..m + f[<<a, m>>] - 1
      PROVE  <<a, b>> \in Covered(f)
  <2> DEFINE p == <<a, m>>
  <2>1. p \in DOMAIN f /\ p[1] = a /\ p[2] = m
    BY <1>2
  <2>2. <<a, b>> \in {p[1]} \X (p[2]..p[2] + f[p] - 1)
    BY <1>2, <2>1
  <2> HIDE DEF p
  <2> QED BY <2>1, <2>2 DEF Covered
<1> QED BY <1>1, <1>2

(* A collection frees the blocks that belong to no object in use, and      *)
(* leaves the others as they are.                                          *)
LEMMA CollectTable ==
    ASSUME NEW h, IsHeap(h), Chained(h), NEW f, Intact(h, f),
           NEW a \in AreaSet, NEW b \in BlockSet(a)
    PROVE  Collect(h, DOMAIN f).table[a][b] =
                IF <<a, b>> \in Covered(f) THEN h.table[a][b] ELSE "free"
<1> DEFINE marked == MarkLive(h, DOMAIN f)
           new == Collect(h, DOMAIN f)
<1>1. /\ IsHeap(marked) /\ marked.used = h.used
      /\ \A x \in AreaSet : \A c \in BlockSet(x) :
           marked.table[x][c] = IF <<x, c>> \in DOMAIN f /\ h.table[x][c] = "head"
                                THEN "mark" ELSE h.table[x][c]
  BY MarkLiveHeap
<1>2. new = CollectEnd(marked)
  BY DEF Collect
<1> HIDE DEF marked, new
<1> SUFFICES new.table[a][b] = IF <<a, b>> \in Covered(f) THEN h.table[a][b] ELSE "free"
  BY DEF new
<1> DEFINE t == marked.table[a]
<1>3. new.table[a][b] = IF b < SweepEnd(marked, a) THEN Swept(t, b) ELSE t[b]
  <2>1. SweptHeap(marked, new)
    BY <1>1, <1>2, CollectEndHinted
  <2> QED BY <2>1 DEF SweptHeap
<1>4. /\ b \in Nat /\ Blocks(a) \in Nat /\ b < Blocks(a) /\ h.used[a] \in Nat
  BY BlocksNat DEF BlockSet, Chained
<1>5. \A c \in BlockSet(a) :
        t[c] = IF <<a, c>> \in DOMAIN f /\ h.table[a][c] = "head" THEN "mark" ELSE h.table[a][c]
  BY <1>1
<1>6. /\ h.table[a][b] \in {"free", "head", "tail"}
      /\ h.table[a][b] # "free" => b <= h.used[a]
  BY DEF Chained
<1>7. ~(b < SweepEnd(marked, a)) => h.table[a][b] = "free" /\ t[b] = "free"
  <2>1. ~(b < SweepEnd(marked, a)) => ~(b <= h.used[a])
    BY <1>1, <1>4 DEF SweepEnd
  <2> QED BY <1>5, <1>6, <2>1
<1>8. \A c \in BlockSet(a) : <<a, c>> \in DOMAIN f =>
        /\ f[<<a, c>>] \in Nat \ {0}
        /\ IsChain(h, a, c, c + f[<<a, c>>])
  <2> SUFFICES ASSUME NEW c \in BlockSet(a), <<a, c>> \in DOMAIN f
               PROVE  /\ f[<<a, c>>] \in Nat \ {0}
                      /\ IsChain(h, a, c, c + f[<<a, c>>])
    OBVIOUS
  <2>1. <<a, c>>[1] = a /\ <<a, c>>[2] = c
    OBVIOUS
  <2> QED BY <2>1 DEF Intact
<1>9. \A p \in DOMAIN f : p = <<p[1], p[2]>>
  BY DEF Intact
<1> HIDE DEF t
<1>10. CASE <<a, b>> \in Covered(f)
  <2>1. PICK m : <<a, m>> \in DOMAIN f /\ b \in m..m + f[<<a, m>>] - 1
    BY <1>9, <1>10, CoveredBlocks
  <2>2. m \in BlockSet(a)
    <3>1. IsAddress(<<a, m>>)
      BY <2>1 DEF Intact
    <3> QED BY <3>1 DEF IsAddress
  <2>3. f[<<a, m>>] \in Nat /\ IsChain(h, a, m, m + f[<<a, m>>]) /\ m \in Nat
    BY <1>8, <2>1, <2>2, BlocksNat
  <2>4. h.table[a][m] = "head" /\ t[m] = "mark"
    BY <1>5, <2>1, <2>2, <2>3 DEF IsChain
  <2>5. \A y \in m + 1..b : h.table[a][y] = "tail" /\ t[y] = "tail"
    <3> SUFFICES ASSUME NEW y \in m + 1..b PROVE h.table[a][y] = "tail" /\ t[y] = "tail"
      OBVIOUS
    <3>1. y \in BlockSet(a)
      BY <1>4, <2>3 DEF BlockSet
    <3>2. y \in m + 1..m + f[<<a, m>>] - 1
      BY <1>4, <2>1, <2>3
    <3>3. h.table[a][y] = "tail"
      BY <2>3, <3>2 DEF IsChain
    <3> QED BY <1>5, <3>1, <3>3
  <2>6. CASE b = m
    <3>1. Swept(t, b) = "head"
      BY <2>4, <2>6, SweptKinds
    <3>2. b < SweepEnd(marked, a)
      BY <1>7, <2>4, <2>6
    <3> QED BY <1>3, <1>10, <2>4, <2>6, <3>1, <3>2
  <2>7. CASE m < b
    <3>1. ~FreeTail(t, b)
      BY <1>4, <2>3, <2>4, <2>5, <2>7, FreeTailIs
    <3>2. b \in m + 1..b
      BY <1>4, <2>3, <2>7
    <3>3. h.table[a][b] = "tail" /\ t[b] = "tail"
      BY <2>5, <3>2
    <3>4. Swept(t, b) = "tail"
      BY <3>1, <3>3, SweptKinds
    <3>5. b < SweepEnd(marked, a)
      BY <1>7, <3>3
    <3> QED BY <1>3, <1>10, <3>3, <3>4, <3>5
  <2>8. b = m \/ m < b
    BY <1>4, <2>1, <2>3
  <2> QED BY <2>6, <2>7, <2>8
<1>11. CASE <<a, b>> \notin Covered(f)
  <2>1. <<a, b>> \notin DOMAIN f
    <3> SUFFICES ASSUME <<a, b>> \in DOMAIN f PROVE <<a, b>> \in Covered(f)
      BY <1>11
    <3>1. b \in b..b + f[<<a, b>>] - 1
      BY <1>4, <1>8
    <3> QED BY <1>9, <3>1, CoveredBlocks
  <2>2. t[b] = h.table[a][b]
    BY <1>5, <2>1
  <2>3. CASE h.table[a][b] \in {"free", "head"}
    <3>1. Swept(t, b) = "free"
      BY <2>2, <2>3, SweptKinds
    <3> QED BY <1>3, <1>7, <1>11, <3>1
  <2>4. CASE h.table[a][b] = "tail"
    <3>1. PICK m \in BlockSet(a) : /\ m < b
                                   /\ h.table[a][m] = "head"
                                   /\ \A y \in m + 1..b : h.table[a][y] = "tail"
      BY <2>4, TailOwner
    <3>2. m \in Nat
      BY BlocksNat
    <3>3. <<a, m>> \notin DOMAIN f
      <4> SUFFICES ASSUME <<a, m>> \in DOMAIN f PROVE FALSE
        OBVIOUS
      <4> DEFINE e == m + f[<<a, m>>]
      <4>1. f[<<a, m>>] \in Nat \ {0} /\ IsChain(h, a, m, e)
        BY <1>8
      <4>2. b \notin m..e - 1
        <5>1. ~(<<a, m>> \in DOMAIN f /\ b \in m..m + f[<<a, m>>] - 1)
          BY <1>9, <1>11, CoveredBlocks
        <5> QED BY <1>4, <3>2, <4>1, <5>1
      <4>3. e \in m + 1..b /\ e < Blocks(a)
        BY <1>4, <3>1, <3>2, <4>1, <4>2
      <4> HIDE DEF e
      <4> QED BY <3>1, <4>1, <4>3 DEF IsChain
    <3>4. t[m] = "head"
      BY <1>5, <3>1, <3>3
    <3>5. \A y \in m + 1..b : t[y] = "tail"
      <4> SUFFICES ASSUME NEW y \in m + 1..b PROVE t[y] = "tail"
        OBVIOUS
      <4>1. y \in BlockSet(a)
        BY <1>4, <3>2 DEF BlockSet
      <4> QED BY <1>5, <3>1, <4>1
    <3>6. FreeTail(t, b)
      BY <1>4, <3>1, <3>2, <3>4, <3>5, FreeTailIs
    <3>7. Swept(t, b) = "free" /\ b < SweepEnd(marked, a)
      BY <1>7, <2>2, <2>4, <3>6, SweptKinds
    <3> QED BY <1>3, <1>11, <3>7
  <2> QED BY <1>6, <2>3, <2>4
<1> QED BY <1>10, <1>11

(* The last used block after a collection lies at or after each block that *)
(* is still in use.                                                        *)
LEMMA CollectUsed ==
    ASSUME NEW h, IsHeap(h), Chained(h), NEW f, Intact(h, f)
    PROVE  LET new == Collect(h, DOMAIN f)
           IN  /\ new.used \in [AreaSet -> Nat]
               /\ \A a \in AreaSet : \A b \in BlockSet(a) :
                    new.table[a][b] # "free" => b <= new.used[a]
<1> DEFINE marked == MarkLive(h, DOMAIN f)
           new == Collect(h, DOMAIN f)
           kept(a) == {b \in BlockSet(a) : b < SweepEnd(marked, a) /\ new.table[a][b] # "free"}
                        \cup {0}
<1>1. IsHeap(marked) /\ marked.used = h.used
  BY MarkLiveHeap
<1>2. new = CollectEnd(marked)
  BY DEF Collect
<1> HIDE DEF marked, new
<1>3. new.used = [a \in AreaSet |-> Max(kept(a))]
  <2>1. SweptHeap(marked, new)
    BY <1>1, <1>2, CollectEndHinted
  <2> QED BY <2>1 DEF SweptHeap
<1>4. ASSUME NEW a \in AreaSet
      PROVE  /\ Max(kept(a)) \in Nat
             /\ \A b \in kept(a) : b <= Max(kept(a))
  <2>1. Blocks(a) \in Nat /\ kept(a) \in SUBSET Nat /\ kept(a) # {}
    BY BlocksNat
  <2>2. \A b \in kept(a) : b <= Blocks(a)
    BY <2>1 DEF BlockSet
  <2> HIDE DEF kept
  <2>3. Max(kept(a)) \in kept(a) /\ \A b \in kept(a) : b <= Max(kept(a))
    BY <2>1, <2>2, GreatestElement
  <2> QED BY <2>1, <2>3
<1>5. ASSUME NEW a \in AreaSet, NEW b \in BlockSet(a), new.table[a][b] # "free"
      PROVE  b \in kept(a)
  <2>1. h.table[a][b] # "free"
    BY <1>5, CollectTable DEF new
  <2>2. b \in Nat /\ Blocks(a) \in Nat /\ b < Blocks(a) /\ h.used[a] \in Nat /\ b <= h.used[a]
    BY <2>1, BlocksNat DEF Chained, BlockSet
  <2>3. b < SweepEnd(marked, a)
    BY <1>1, <2>2 DEF SweepEnd
  <2> QED BY <1>5, <2>3
<1> HIDE DEF kept
<1>6. new.used \in [AreaSet -> Nat]
  BY <1>3, <1>4
<1>7. \A a \in AreaSet : \A b \in BlockSet(a) : new.table[a][b] # "free" => b <= new.used[a]
  BY <1>3, <1>4, <1>5
<1> QED BY <1>6, <1>7 DEF new

(* After a collection the objects in use are what they were, and there is  *)
(* no garbage.                                                             *)
LEMMA CollectChains ==
    ASSUME NEW h, IsHeap(h), Chained(h), NEW f, Intact(h, f)
    PROVE  LET new == Collect(h, DOMAIN f)
           IN  Chained(new) /\ Intact(new, f) /\ Clean(new, f)
<1> DEFINE new == Collect(h, DOMAIN f)
<1>1. \A a \in AreaSet : \A b \in BlockSet(a) :
        new.table[a][b] = IF <<a, b>> \in Covered(f) THEN h.table[a][b] ELSE "free"
  <2> SUFFICES ASSUME NEW a \in AreaSet, NEW b \in BlockSet(a)
               PROVE  new.table[a][b] = IF <<a, b>> \in Covered(f) THEN h.table[a][b] ELSE "free"
    OBVIOUS
  <2>1. Collect(h, DOMAIN f).table[a][b] = IF <<a, b>> \in Covered(f) THEN h.table[a][b] ELSE "free"
    BY CollectTable
  <2> QED BY <2>1 DEF new
<1>2. /\ new.used \in [AreaSet -> Nat]
      /\ \A a \in AreaSet : \A b \in BlockSet(a) : new.table[a][b] # "free" => b <= new.used[a]
  BY CollectUsed
<1> HIDE DEF new
<1>3. \A p \in DOMAIN f : p = <<p[1], p[2]>>
  BY DEF Intact
<1>4. Clean(new, f)
  BY <1>1 DEF Clean
<1>5. Intact(new, f)
  <2> SUFFICES ASSUME NEW p \in DOMAIN f
               PROVE  /\ p = <<p[1], p[2]>> /\ IsAddress(p) /\ f[p] \in Nat \ {0}
                      /\ IsChain(new, p[1], p[2], p[2] + f[p])
    BY DEF Intact
  <2> DEFINE a == p[1]
             b == p[2]
             e == b + f[p]
  <2>1. /\ p = <<a, b>> /\ IsAddress(p) /\ f[p] \in Nat \ {0} /\ IsChain(h, a, b, e)
        /\ a \in AreaSet /\ b \in BlockSet(a)
    BY DEF Intact, IsAddress
  <2>2. b \in Nat /\ Blocks(a) \in Nat /\ e \in b + 1..Blocks(a) /\ f[p] \in Nat
    BY <2>1, BlocksNat DEF IsChain
  <2>3. ASSUME NEW c \in b..e - 1 PROVE c \in BlockSet(a) /\ new.table[a][c] = h.table[a][c]
    <3>1. c \in BlockSet(a)
      BY <2>2 DEF BlockSet
    <3>2. <<a, b>> \in DOMAIN f /\ f[<<a, b>>] = f[p]
      BY <2>1
    <3>3. c \in b..b + f[<<a, b>>] - 1
      BY <2>1, <2>2
    <3> HIDE DEF a, b
    <3>4. <<a, c>> \in Covered(f)
      BY <1>3, <3>2, <3>3, CoveredBlocks
    <3> QED BY <1>1, <2>1, <3>1, <3>4
  <2> HIDE DEF a, b, e
  <2>4. new.table[a][b] = "head" /\ \A c \in b + 1..e - 1 : new.table[a][c] = "tail"
    BY <2>1, <2>2, <2>3 DEF IsChain
  <2>5. e < Blocks(a) => new.table[a][e] # "tail"
    <3> SUFFICES ASSUME e < Blocks(a) PROVE new.table[a][e] # "tail"
      OBVIOUS
    <3>1. e \in BlockSet(a) /\ h.table[a][e] # "tail"
      BY <2>1, <2>2 DEF IsChain, BlockSet
    <3> QED BY <1>1, <2>1, <3>1
  <2>6. IsChain(new, a, b, e)
    BY <2>2, <2>4, <2>5 DEF IsChain
  <2> QED BY <2>1, <2>6 DEF a, b, e
<1>6. Chained(new)
  <2> SUFFICES ASSUME NEW a \in AreaSet, NEW b \in BlockSet(a)
               PROVE  /\ new.table[a][b] \in {"free", "head", "tail"}
                      /\ new.table[a][b] = "tail" => b > 0 /\ new.table[a][b - 1] # "free"
    BY <1>2 DEF Chained
  <2>1. h.table[a][b] \in {"free", "head", "tail"}
    BY DEF Chained
  <2>2. ASSUME new.table[a][b] = "tail" PROVE b > 0 /\ new.table[a][b - 1] # "free"
    <3>1. h.table[a][b] = "tail" /\ <<a, b>> \in Covered(f)
      BY <1>1, <2>2
    <3>2. b \in Nat /\ b > 0 /\ b - 1 \in BlockSet(a) /\ h.table[a][b - 1] # "free"
      BY <3>1, BlocksNat DEF Chained, BlockSet
    <3>3. PICK m : <<a, m>> \in DOMAIN f /\ b \in m..m + f[<<a, m>>] - 1
      BY <1>3, <3>1, CoveredBlocks
    <3>4. m \in BlockSet(a) /\ f[<<a, m>>] \in Nat /\ h.table[a][m] = "head" /\ m \in Nat
      <4>1. IsAddress(<<a, m>>) /\ f[<<a, m>>] \in Nat
            /\ IsChain(h, <<a, m>>[1], <<a, m>>[2], <<a, m>>[2] + f[<<a, m>>])
        BY <3>3 DEF Intact
      <4>2. <<a, m>>[1] = a /\ <<a, m>>[2] = m
        OBVIOUS
      <4>3. m \in BlockSet(a)
        BY <4>1, <4>2 DEF IsAddress
      <4> QED BY <4>1, <4>2, <4>3, BlocksNat DEF IsChain
    <3>5. b - 1 \in m..m + f[<<a, m>>] - 1
      BY <3>1, <3>2, <3>3, <3>4
    <3>6. <<a, b - 1>> \in Covered(f)
      BY <1>3, <3>3, <3>5, CoveredBlocks
    <3> QED BY <1>1, <3>2, <3>6
  <2> QED BY <1>1, <2>1, <2>2
<1> QED BY <1>4, <1>5, <1>6 DEF new

(* What is said of chains is said of the table and the last used blocks. *)
LEMMA SameChains ==
    ASSUME NEW h, NEW new, new.table = h.table, new.used = h.used, NEW f
    PROVE  /\ Chained(h) => Chained(new)
           /\ Intact(h, f) => Intact(new, f)
           /\ Clean(h, f) => Clean(new, f)
BY DEF Chained, Intact, IsChain, Clean

(* A new object shares no block with an older one. *)
LEMMA TakenChains ==
    ASSUME NEW h, Chained(h), NEW f, Intact(h, f), NEW n \in Nat \ {0}, NEW p, NEW new,
           Taken(h, new, p, n)
    PROVE  /\ Chained(new)
           /\ Intact(new, Remember(f, p, n))
           /\ p \notin DOMAIN f
<1> DEFINE a == p[1]
           b == p[2]
           end == b + n
<1>0. /\ p = <<a, b>> /\ IsAddress(p) /\ a \in AreaSet /\ b \in BlockSet(a)
      /\ end <= Blocks(a) /\ AllFree(h, a, b, end) /\ Occupied(h, new, a, b, n)
  BY DEF Taken, IsAddress
<1> HIDE DEF a, b
<1>1. b \in Nat /\ Blocks(a) \in Nat /\ end \in Nat /\ end \in b + 1..Blocks(a)
  BY <1>0, BlocksNat
<1>2. \A x \in AreaSet : \A c \in BlockSet(x) :
        new.table[x][c] = IF x = a /\ c \in b..end - 1
                          THEN (IF c = b THEN "head" ELSE "tail") ELSE h.table[x][c]
  BY <1>0, <1>1 DEF Occupied
<1>3. /\ new.used \in [AreaSet -> Nat]
      /\ \A x \in AreaSet : h.used[x] <= new.used[x]
      /\ end - 1 <= new.used[a]
  <2> DEFINE final == b + n - 1
             last == Max({h.used[a], final})
  <2>1. h.used \in [AreaSet -> Nat] /\ final \in Nat /\ end - 1 = final
    BY <1>1 DEF Chained
  <2>2. new.used = [h.used EXCEPT ![a] = last]
    BY <1>0, SMT DEF Occupied
  <2> HIDE DEF final
  <2>3. last \in Nat /\ h.used[a] <= last /\ final <= last
    BY <1>0, <2>1, MaxOfTwo
  <2> HIDE DEF last, end
  <2> QED BY <1>0, <2>1, <2>2, <2>3
<1> HIDE DEF end
<1>4. /\ Chained(new)
      /\ end < Blocks(a) => new.table[a][end] # "tail"
      /\ \A x \in AreaSet : \A c \in BlockSet(x) : \A e :
            IsChain(h, x, c, e) => IsChain(new, x, c, e)
  BY <1>0, <1>1, <1>2, <1>3, GrownChains
<1>5. IsChain(new, a, b, end)
  <2>1. \A y \in b..end - 1 : y \in BlockSet(a)
    BY <1>1 DEF BlockSet
  <2>2. new.table[a][b] = "head"
    BY <1>0, <1>1, <1>2
  <2>3. \A y \in b + 1..end - 1 : new.table[a][y] = "tail"
    BY <1>0, <1>1, <1>2, <2>1
  <2> QED BY <1>1, <1>4, <2>2, <2>3 DEF IsChain
<1>6. p \notin DOMAIN f
  <2> SUFFICES ASSUME p \in DOMAIN f PROVE FALSE
    OBVIOUS
  <2>1. h.table[a][b] = "head"
    BY DEF Intact, IsChain, a, b
  <2>2. b \in b..end - 1
    BY <1>1
  <2> QED BY <1>0, <2>1, <2>2 DEF AllFree
<1>7. Intact(new, Remember(f, p, n))
  <2> DEFINE g == Remember(f, p, n)
  <2>1. /\ DOMAIN g = DOMAIN f \cup {p} /\ g[p] = n
        /\ \A q \in DOMAIN f : g[q] = f[q]
    BY <1>6 DEF Remember
  <2> HIDE DEF g
  <2> SUFFICES ASSUME NEW q \in DOMAIN g
               PROVE  /\ q = <<q[1], q[2]>> /\ IsAddress(q) /\ g[q] \in Nat \ {0}
                      /\ IsChain(new, q[1], q[2], q[2] + g[q])
    BY DEF Intact, g
  <2>2. CASE q = p
    BY <1>0, <1>5, <2>1, <2>2 DEF a, b, end
  <2>3. CASE q \in DOMAIN f
    <3>1. /\ q = <<q[1], q[2]>> /\ IsAddress(q) /\ f[q] \in Nat \ {0}
          /\ IsChain(h, q[1], q[2], q[2] + f[q])
      BY <2>3 DEF Intact
    <3>2. q[1] \in AreaSet /\ q[2] \in BlockSet(q[1])
      BY <3>1 DEF IsAddress
    <3>3. IsChain(new, q[1], q[2], q[2] + f[q])
      BY <1>4, <3>1, <3>2
    <3> QED BY <2>1, <2>3, <3>1, <3>3
  <2> QED BY <2>1, <2>2, <2>3
<1> QED BY <1>4, <1>6, <1>7

(* A search keeps the chains, and makes the object it returns one. *)
LEMMA SearchChains ==
    ASSUME NEW h, IsHeap(h), Hinted(h), Chained(h), NEW f, Intact(h, f), NEW n \in Nat \ {0}
    PROVE  LET r == Search(h, n)
           IN  /\ IsHeap(r.heap) /\ Hinted(r.heap) /\ Chained(r.heap)
               /\ r.ptr = NULL => /\ Intact(r.heap, f)
                                  /\ Clean(h, f) => Clean(r.heap, f)
               /\ r.ptr # NULL => /\ Intact(r.heap, Remember(f, r.ptr, n))
                                  /\ r.ptr \notin DOMAIN f
<1> DEFINE r == Search(h, n)
<1>1. /\ IsHeap(r.heap) /\ Hinted(r.heap)
      /\ r.ptr = NULL => r.heap.table = h.table /\ r.heap.used = h.used
      /\ r.ptr # NULL => Taken(h, r.heap, r.ptr, n)
  BY SearchHinted
<1> HIDE DEF r
<1>2. CASE r.ptr = NULL
  <2>1. r.heap.table = h.table /\ r.heap.used = h.used
    BY <1>1, <1>2
  <2>2. Chained(r.heap) /\ Intact(r.heap, f) /\ (Clean(h, f) => Clean(r.heap, f))
    BY <2>1, SameChains
  <2> QED BY <1>1, <1>2, <2>2 DEF r
<1>3. CASE r.ptr # NULL
  <2>1. Taken(h, r.heap, r.ptr, n)
    BY <1>1, <1>3
  <2>2. Chained(r.heap) /\ Intact(r.heap, Remember(f, r.ptr, n)) /\ r.ptr \notin DOMAIN f
    BY <2>1, TakenChains
  <2> QED BY <1>1, <1>3, <2>2 DEF r
<1> QED BY <1>2, <1>3

(* An allocation does, with the collections it makes; and with automatic   *)
(* collection it returns NULL only when there is no garbage.               *)
LEMMA AllocChains ==
    ASSUME NEW h, IsHeap(h), Hinted(h), Chained(h), NEW f, Intact(h, f), NEW n \in Nat \ {0},
           NEW early
    PROVE  LET r == Alloc(h, DOMAIN f, n, early)
           IN  /\ IsHeap(r.heap) /\ Hinted(r.heap) /\ Chained(r.heap)
               /\ r.ptr = NULL => Intact(r.heap, f) /\ (auto => Clean(r.heap, f))
               /\ r.ptr # NULL => /\ Intact(r.heap, Remember(f, r.ptr, n))
                                  /\ r.ptr \notin DOMAIN f
<1> DEFINE objects == DOMAIN f
           start == IF auto /\ early THEN Collect(h, objects) ELSE h
           first == Search(start, n)
           again == Collect(first.heap, objects)
           second == Search(again, n)
<1>1. /\ IsHeap(start) /\ Hinted(start) /\ Chained(start) /\ Intact(start, f)
      /\ auto /\ early => Clean(start, f)
  <2>1. /\ IsHeap(Collect(h, objects)) /\ Hinted(Collect(h, objects))
        /\ Chained(Collect(h, objects)) /\ Intact(Collect(h, objects), f)
        /\ Clean(Collect(h, objects), f)
    BY CollectHinted, CollectChains
  <2> QED BY <2>1
<1> HIDE DEF start
<1>2. /\ IsHeap(first.heap) /\ Hinted(first.heap) /\ Chained(first.heap)
      /\ first.ptr = NULL => /\ Intact(first.heap, f)
                             /\ Clean(start, f) => Clean(first.heap, f)
      /\ first.ptr # NULL => /\ Intact(first.heap, Remember(f, first.ptr, n))
                             /\ first.ptr \notin DOMAIN f
  BY <1>1, SearchChains
<1>3. Alloc(h, objects, n, early) =
        IF first.ptr # NULL \/ ~auto \/ early THEN first ELSE second
  BY DEF Alloc, start
<1> HIDE DEF first
<1>4. CASE first.ptr # NULL \/ ~auto \/ early
  <2>1. Alloc(h, objects, n, early) = first
    BY <1>3, <1>4
  <2>2. first.ptr = NULL /\ auto => Clean(first.heap, f)
    BY <1>1, <1>2, <1>4
  <2> QED BY <1>2, <2>1, <2>2
<1>5. CASE first.ptr = NULL /\ auto /\ ~early
  <2>1. Alloc(h, objects, n, early) = second
    BY <1>3, <1>5
  <2>2. IsHeap(again) /\ Hinted(again) /\ Chained(again) /\ Intact(again, f) /\ Clean(again, f)
    BY <1>2, <1>5, CollectHinted, CollectChains
  <2> HIDE DEF again
  <2>3. /\ IsHeap(second.heap) /\ Hinted(second.heap) /\ Chained(second.heap)
        /\ second.ptr = NULL => /\ Intact(second.heap, f)
                                /\ Clean(again, f) => Clean(second.heap, f)
        /\ second.ptr # NULL => /\ Intact(second.heap, Remember(f, second.ptr, n))
                                /\ second.ptr \notin DOMAIN f
    BY <2>2, SearchChains
  <2> HIDE DEF second
  <2> QED BY <2>1, <2>2, <2>3
<1> QED BY <1>4, <1>5

(* Objects that are dropped leave the others intact. *)
LEMMA IntactFewer ==
    ASSUME NEW h, NEW f, Intact(h, f), NEW g, DOMAIN g \subseteq DOMAIN f,
           \A q \in DOMAIN g : g[q] = f[q]
    PROVE  Intact(h, g)
BY DEF Intact

(* Freeing an object leaves the others intact. *)
LEMMA FreeChainChains ==
    ASSUME NEW h, IsHeap(h), Chained(h), NEW f, Intact(h, f), NEW p \in DOMAIN f,
           NEW g, DOMAIN g \subseteq DOMAIN f \ {p}, \A q \in DOMAIN g : g[q] = f[q]
    PROVE  Chained(FreeChain(h, p[1], p[2])) /\ Intact(FreeChain(h, p[1], p[2]), g)
<1> DEFINE a == p[1]
           b == p[2]
           end == b + f[p]
           mid == FreeHint(h, a, b)
           new == SetKind(mid, a, b, end, "free")
<1>1. /\ p = <<a, b>> /\ a \in AreaSet /\ b \in BlockSet(a) /\ IsChain(h, a, b, end)
  BY DEF Intact, IsAddress
<1> HIDE DEF a, b, end
<1>2. ChainEnd(h, a, b) = end
  BY <1>1, ChainEndIs
<1>3. FreeChain(h, a, b) = new
  BY <1>2 DEF FreeChain
<1>4. IsHeap(mid) /\ mid.table = h.table /\ mid.used = h.used
  BY <1>1, FreeHintHeap
<1> HIDE DEF mid
<1>5. /\ new.used = mid.used
      /\ \A x \in AreaSet : \A c \in BlockSet(x) :
           new.table[x][c] = IF x = a /\ c \in b..end - 1 THEN "free" ELSE mid.table[x][c]
  BY <1>1, <1>4, SetKindHeap
<1> HIDE DEF new
<1>6. b \in b..end - 1
  BY <1>1, BlocksNat DEF IsChain
<1>7. /\ Chained(new)
      /\ \A x \in AreaSet : \A c \in BlockSet(x) : \A e :
            IsChain(h, x, c, e) /\ ~(x = a /\ c = b) => IsChain(new, x, c, e)
  <2>1. /\ new.used = h.used
        /\ \A x \in AreaSet : \A c \in BlockSet(x) :
             new.table[x][c] = IF x = a /\ c \in b..end - 1 THEN "free" ELSE h.table[x][c]
    BY <1>4, <1>5
  <2> QED BY <1>1, <1>6, <2>1, FreedChains
<1>8. Intact(new, g)
  <2> SUFFICES ASSUME NEW q \in DOMAIN g
               PROVE  /\ q = <<q[1], q[2]>> /\ IsAddress(q) /\ g[q] \in Nat \ {0}
                      /\ IsChain(new, q[1], q[2], q[2] + g[q])
    BY DEF Intact
  <2>1. /\ q \in DOMAIN f /\ q # p /\ g[q] = f[q]
        /\ q = <<q[1], q[2]>> /\ IsAddress(q) /\ f[q] \in Nat \ {0}
        /\ IsChain(h, q[1], q[2], q[2] + f[q])
    BY DEF Intact
  <2>2. q[1] \in AreaSet /\ q[2] \in BlockSet(q[1]) /\ ~(q[1] = a /\ q[2] = b)
    BY <1>1, <2>1 DEF IsAddress
  <2>3. IsChain(new, q[1], q[2], q[2] + f[q])
    BY <1>7, <2>1, <2>2
  <2> QED BY <2>1, <2>3
<1> QED BY <1>3, <1>7, <1>8 DEF a, b

(* Shrinking an object leaves the others intact, and its own front. *)
LEMMA ShrunkChains ==
    ASSUME NEW h, IsHeap(h), Chained(h), NEW f, Intact(h, f), NEW p \in DOMAIN f,
           NEW n \in Nat \ {0}, n < f[p]
    PROVE  LET a == p[1]
               new == FreeHint(SetKind(h, a, p[2] + n, p[2] + f[p], "free"), a, p[2] + n)
           IN  Chained(new) /\ Intact(new, Remember(f, p, n))
<1> DEFINE a == p[1]
           b == p[2]
           end == b + f[p]
           from == b + n
           mid == SetKind(h, a, from, end, "free")
           new == FreeHint(mid, a, from)
           g == Remember(f, p, n)
<1>1. /\ p = <<a, b>> /\ IsAddress(p) /\ a \in AreaSet /\ b \in BlockSet(a)
      /\ IsChain(h, a, b, end) /\ f[p] \in Nat
  BY DEF Intact, IsAddress
<1>2. b \in Nat /\ Blocks(a) \in Nat /\ end \in Nat /\ end <= Blocks(a) /\ from \in b..end - 1
      /\ from > b /\ from \in BlockSet(a)
  BY <1>1, BlocksNat DEF IsChain, BlockSet
<1> HIDE DEF a, b, end, from
<1>3. /\ IsHeap(mid) /\ mid.used = h.used
      /\ \A x \in AreaSet : \A c \in BlockSet(x) :
           mid.table[x][c] = IF x = a /\ c \in from..end - 1 THEN "free" ELSE h.table[x][c]
  BY <1>1, SetKindHeap
<1> HIDE DEF mid
<1>4. new.table = mid.table /\ new.used = mid.used
  BY <1>1, <1>2, <1>3, FreeHintHeap
<1> HIDE DEF new
<1>5. /\ Chained(new) /\ IsChain(new, a, b, from)
      /\ \A x \in AreaSet : \A c \in BlockSet(x) : \A e :
            IsChain(h, x, c, e) /\ ~(x = a /\ c = b) => IsChain(new, x, c, e)
  <2>1. /\ new.used = h.used
        /\ \A x \in AreaSet : \A c \in BlockSet(x) :
             new.table[x][c] = IF x = a /\ c \in from..end - 1 THEN "free" ELSE h.table[x][c]
    BY <1>3, <1>4
  <2> QED BY <1>1, <1>2, <2>1, FreedChains
<1>6. Intact(new, g)
  <2>1. DOMAIN g = DOMAIN f /\ g[p] = n /\ \A q \in DOMAIN f \ {p} : g[q] = f[q]
    BY DEF Remember
  <2> HIDE DEF g
  <2> SUFFICES ASSUME NEW q \in DOMAIN g
               PROVE  /\ q = <<q[1], q[2]>> /\ IsAddress(q) /\ g[q] \in Nat \ {0}
                      /\ IsChain(new, q[1], q[2], q[2] + g[q])
    BY DEF Intact
  <2>2. CASE q = p
    BY <1>1, <1>5, <2>1, <2>2 DEF a, b, from
  <2>3. CASE q # p
    <3>1. /\ q \in DOMAIN f /\ g[q] = f[q]
          /\ q = <<q[1], q[2]>> /\ IsAddress(q) /\ f[q] \in Nat \ {0}
          /\ IsChain(h, q[1], q[2], q[2] + f[q])
      BY <2>1, <2>3 DEF Intact
    <3>2. q[1] \in AreaSet /\ q[2] \in BlockSet(q[1]) /\ ~(q[1] = a /\ q[2] = b)
      BY <1>1, <2>3, <3>1 DEF IsAddress
    <3>3. IsChain(new, q[1], q[2], q[2] + f[q])
      BY <1>5, <3>1, <3>2
    <3> QED BY <3>1, <3>3
  <2> QED BY <2>2, <2>3
<1> QED BY <1>5, <1>6 DEF new, mid, g, a, b, end, from

(* Expanding an object in place leaves the others intact: the blocks it    *)
(* takes are free, and no other chain ends where it did.                   *)
LEMMA ExpandedChains ==
    ASSUME NEW h, IsHeap(h), Hinted(h), Chained(h), NEW f, Intact(h, f), NEW p \in DOMAIN f,
           NEW n \in Nat, f[p] < n, p[2] + n <= Blocks(p[1]),
           AllFree(h, p[1], p[2] + f[p], p[2] + n)
    PROVE  LET a == p[1]
               mid == SetKind(h, a, p[2] + f[p], p[2] + n, "tail")
               new == [mid EXCEPT !.used[a] = Max({mid.used[a], p[2] + n})]
           IN  Chained(new) /\ Intact(new, Remember(f, p, n))
<1> DEFINE a == p[1]
           b == p[2]
           from == b + f[p]
           to == b + n
           mid == SetKind(h, a, from, to, "tail")
           last == Max({mid.used[a], to})
           new == [mid EXCEPT !.used[a] = last]
           g == Remember(f, p, n)
<1>1. /\ p = <<a, b>> /\ IsAddress(p) /\ a \in AreaSet /\ b \in BlockSet(a)
      /\ IsChain(h, a, b, from) /\ f[p] \in Nat \ {0}
  BY DEF Intact, IsAddress
<1>2. /\ b \in Nat /\ Blocks(a) \in Nat /\ from \in Nat /\ to \in Nat /\ b < from /\ from < to
      /\ to <= Blocks(a) /\ from \in BlockSet(a) /\ to \in from + 1..Blocks(a)
      /\ AllFree(h, a, from, to)
  BY <1>1, BlocksNat DEF BlockSet
<1> HIDE DEF a, b, from, to, last
<1>3. /\ IsHeap(mid) /\ Hinted(mid) /\ mid.used = h.used
      /\ \A x \in AreaSet : \A c \in BlockSet(x) :
           mid.table[x][c] = IF x = a /\ c \in from..to - 1 THEN "tail" ELSE h.table[x][c]
  BY <1>1, SetKindHeap, UsedHinted
<1> HIDE DEF mid
<1>4. new.table = mid.table /\ new.used = [mid.used EXCEPT ![a] = last]
  BY <1>1, <1>3, SetUsedHinted
<1> HIDE DEF new
<1>5. /\ new.used \in [AreaSet -> Nat]
      /\ \A x \in AreaSet : h.used[x] <= new.used[x]
      /\ to - 1 <= new.used[a]
  <2>1. h.used \in [AreaSet -> Nat]
    BY DEF Chained
  <2>2. last \in Nat /\ h.used[a] <= last /\ to <= last
    BY <1>1, <1>2, <1>3, <2>1, MaxOfTwo DEF last
  <2> QED BY <1>1, <1>2, <1>3, <1>4, <2>1, <2>2
<1>6. from > 0 /\ h.table[a][from - 1] # "free"
  <2>1. from - 1 = b \/ from - 1 \in b + 1..from - 1
    BY <1>2
  <2>2. h.table[a][from - 1] \in {"head", "tail"}
    BY <1>1, <2>1 DEF IsChain
  <2> QED BY <1>2, <2>2
<1>7. /\ Chained(new)
      /\ to < Blocks(a) => new.table[a][to] # "tail"
      /\ \A x \in AreaSet : \A c \in BlockSet(x) : \A e :
            IsChain(h, x, c, e) /\ ~(x = a /\ e = from) => IsChain(new, x, c, e)
  <2> DEFINE kind == "tail"
  <2>1. kind \in {"head", "tail"} /\ (kind = "tail" => from > 0 /\ h.table[a][from - 1] # "free")
    BY <1>6
  <2>2. \A x \in AreaSet : \A c \in BlockSet(x) :
          new.table[x][c] = IF x = a /\ c \in from..to - 1
                            THEN (IF c = from THEN kind ELSE "tail") ELSE h.table[x][c]
    BY <1>3, <1>4
  <2>3. kind = "tail"
    OBVIOUS
  <2> HIDE DEF kind
  <2>4. /\ Chained(new)
        /\ to < Blocks(a) => new.table[a][to] # "tail"
        /\ \A x \in AreaSet : \A c \in BlockSet(x) : \A e :
              IsChain(h, x, c, e) /\ ~(kind = "tail" /\ x = a /\ e = from)
                => IsChain(new, x, c, e)
    BY <1>1, <1>2, <1>5, <2>1, <2>2, GrownChains
  <2> QED BY <2>3, <2>4
<1>8. IsChain(new, a, b, to)
  <2>1. \A y \in b..to - 1 : y \in BlockSet(a)
    BY <1>2 DEF BlockSet
  <2>2. new.table[a][b] = "head"
    BY <1>1, <1>2, <1>3, <1>4 DEF IsChain
  <2>3. ASSUME NEW y \in b + 1..to - 1 PROVE new.table[a][y] = "tail"
    <3>1. y \in BlockSet(a) /\ (y \in b + 1..from - 1 \/ y \in from..to - 1)
      BY <1>2, <2>1
    <3>2. y \in b + 1..from - 1 => h.table[a][y] = "tail"
      BY <1>1 DEF IsChain
    <3> QED BY <1>1, <1>3, <1>4, <3>1, <3>2
  <2> QED BY <1>2, <1>7, <2>2, <2>3 DEF IsChain
<1>9. Intact(new, g)
  <2>1. DOMAIN g = DOMAIN f /\ g[p] = n /\ \A q \in DOMAIN f \ {p} : g[q] = f[q]
    BY DEF Remember
  <2> HIDE DEF g
  <2> SUFFICES ASSUME NEW q \in DOMAIN g
               PROVE  /\ q = <<q[1], q[2]>> /\ IsAddress(q) /\ g[q] \in Nat \ {0}
                      /\ IsChain(new, q[1], q[2], q[2] + g[q])
    BY DEF Intact
  <2>2. CASE q = p
    <3>1. n \in Nat \ {0}
      BY <1>1
    <3> QED BY <1>1, <1>8, <2>1, <2>2, <3>1 DEF a, b, to
  <2>3. CASE q # p
    <3> DEFINE c == q[2]
               e == c + f[q]
    <3>1. /\ q \in DOMAIN f /\ g[q] = f[q]
          /\ q = <<q[1], c>> /\ IsAddress(q) /\ f[q] \in Nat \ {0}
          /\ IsChain(h, q[1], c, e)
      BY <2>1, <2>3 DEF Intact
    <3>2. q[1] \in AreaSet /\ c \in BlockSet(q[1]) /\ ~(q[1] = a /\ c = b)
      BY <1>1, <2>3, <3>1 DEF IsAddress
    <3> HIDE DEF c, e
    <3>3. ~(q[1] = a /\ e = from)
      <4> SUFFICES ASSUME q[1] = a, e = from PROVE FALSE
        OBVIOUS
      <4>1. c \in Nat /\ c < from /\ c \in BlockSet(a) /\ IsChain(h, a, c, from)
        BY <1>2, <3>1, <3>2, BlocksNat DEF IsChain
      <4>2. CASE b < c
        <5>1. from <= c
          BY <1>1, <4>1, <4>2, ChainsDisjoint
        <5> QED BY <1>2, <4>1, <5>1
      <4>3. CASE c < b
        <5>1. from <= b
          BY <1>1, <4>1, <4>3, ChainsDisjoint
        <5> QED BY <1>2, <5>1
      <4> QED BY <1>2, <3>2, <4>1, <4>2, <4>3
    <3>4. IsChain(new, q[1], c, e)
      BY <1>7, <3>1, <3>2, <3>3
    <3> QED BY <3>1, <3>4 DEF c, e
  <2> QED BY <2>2, <2>3
<1> QED BY <1>7, <1>9 DEF new, mid, last, g, a, b, from, to

(* Without garbage the blocks in use are those of the objects. *)
LEMMA CleanBlocks ==
    ASSUME NEW h, NEW f, Intact(h, f), Clean(h, f)
    PROVE  {p \in Addresses : h.table[p[1]][p[2]] # "free"} = Covered(f)
<1>1. ASSUME NEW p \in Addresses, h.table[p[1]][p[2]] # "free"
      PROVE  p \in Covered(f)
  <2>1. PICK a \in AreaSet : p \in {a} \X BlockSet(a)
    BY DEF Addresses
  <2>2. p = <<a, p[2]>> /\ p[1] = a /\ p[2] \in BlockSet(a)
    BY <2>1
  <2> QED BY <1>1, <2>2 DEF Clean
<1>2. ASSUME NEW p \in Covered(f)
      PROVE  p \in Addresses /\ h.table[p[1]][p[2]] # "free"
  <2>1. PICK q \in DOMAIN f : p \in {q[1]} \X (q[2]..q[2] + f[q] - 1)
    BY DEF Covered
  <2> DEFINE a == q[1]
             b == q[2]
             e == b + f[q]
             c == p[2]
  <2>2. p = <<a, c>> /\ p[1] = a /\ c \in b..e - 1
    <3>1. p = <<p[1], p[2]>> /\ p[1] = q[1] /\ p[2] \in q[2]..q[2] + f[q] - 1
      BY <2>1
    <3>2. f[q] \in Nat /\ q[2] \in Nat
      BY BlocksNat DEF Intact, IsAddress
    <3> QED BY <3>1, <3>2
  <2>3. a \in AreaSet /\ b \in BlockSet(a) /\ IsChain(h, a, b, e) /\ f[q] \in Nat
    BY DEF Intact, IsAddress
  <2> HIDE DEF a, b, e, c
  <2>4. b \in Nat /\ Blocks(a) \in Nat /\ e \in b + 1..Blocks(a)
    BY <2>3, BlocksNat DEF IsChain
  <2>5. c \in BlockSet(a) /\ (c = b \/ c \in b + 1..e - 1)
    BY <2>2, <2>4 DEF BlockSet
  <2>6. h.table[a][c] \in {"head", "tail"}
    BY <2>3, <2>5 DEF IsChain
  <2>7. p \in {a} \X BlockSet(a)
    BY <2>2, <2>5
  <2> QED BY <2>2, <2>3, <2>6, <2>7 DEF Addresses, c
<1> QED BY <1>1, <1>2

-----------------------------------------------------------------------------
(* The second inductive invariant, kept by the steps that keep the first *)
CInv ==
    /\ Chained(heap) /\ Intact(heap, live)
    /\ failed > 0 /\ auto => Clean(heap, live)

LEMMA InitCInv == Init => CInv
<1> SUFFICES ASSUME Init PROVE CInv
  OBVIOUS
<1> DEFINE zero == [a \in AreaSet |-> 0]
           table == [a \in AreaSet |-> [b \in BlockSet(a) |-> "free"]]
<1>1. heap = [table |-> table, area |-> 1, index |-> zero, used |-> zero]
      /\ live = << >> /\ failed = 0
  BY DEF Init
<1>2. zero \in [AreaSet -> Nat] /\ \A a \in AreaSet : \A b \in BlockSet(a) : table[a][b] = "free"
  OBVIOUS
<1> HIDE DEF zero, table
<1>3. heap.table = table /\ heap.used = zero
  BY <1>1
<1>4. Chained(heap)
  BY <1>2, <1>3 DEF Chained
<1>5. Intact(heap, live)
  BY <1>1 DEF Intact
<1> QED BY <1>1, <1>4, <1>5 DEF CInv

(* An operation that does not fail *)
LEMMA SucceededC ==
    ASSUME Chained(heap'), Intact(heap', live'), failed' = 0
    PROVE  CInv'
BY DEF CInv

LEMMA AllocCInv ==
    ASSUME IInv, CInv, NEW n \in Nat \ {0}, NEW early, gc_alloc(n, early)
    PROVE  CInv'
<1> DEFINE r == Alloc(heap, DOMAIN live, n, early)
<1>0. IsHeap(heap) /\ Hinted(heap) /\ Chained(heap) /\ Intact(heap, live)
  BY DEF IInv, CInv
<1>1. /\ Chained(r.heap)
      /\ r.ptr = NULL => Intact(r.heap, live) /\ (auto => Clean(r.heap, live))
      /\ r.ptr # NULL => Intact(r.heap, Remember(live, r.ptr, n))
  BY <1>0, AllocChains
<1>2. CASE depth > 0
  BY <1>0, <1>2, SucceededC DEF gc_alloc
<1>3. CASE ~(depth > 0) /\ r.ptr = NULL
  <2>1. heap' = r.heap /\ live' = live /\ auto' = auto
    BY <1>3 DEF gc_alloc
  <2> HIDE DEF r
  <2> QED BY <1>1, <1>3, <2>1 DEF CInv
<1>4. CASE ~(depth > 0) /\ r.ptr # NULL
  <2>1. heap' = r.heap /\ live' = Remember(live, r.ptr, n) /\ failed' = 0
    BY <1>4 DEF gc_alloc
  <2> HIDE DEF r
  <2> QED BY <1>1, <1>4, <2>1, SucceededC
<1> QED BY <1>2, <1>3, <1>4

(* Forgetting an object forgets no other. *)
LEMMA ForgetIs ==
    ASSUME NEW p
    PROVE  /\ DOMAIN Forget(p) = DOMAIN live \ {p}
           /\ \A q \in DOMAIN Forget(p) : Forget(p)[q] = live[q]
BY DEF Forget

LEMMA FreeCInv ==
    ASSUME IInv, CInv, NEW p \in DOMAIN live, gc_free(p)
    PROVE  CInv'
<1>0. IsHeap(heap) /\ Chained(heap) /\ Intact(heap, live)
  BY DEF IInv, CInv
<1>1. /\ heap' = IF depth > 0 THEN heap ELSE FreeChain(heap, p[1], p[2])
      /\ live' = Forget(p) /\ failed' = 0
  BY DEF gc_free
<1>2. Intact(heap, Forget(p))
  BY <1>0, ForgetIs, IntactFewer
<1>3. /\ Chained(FreeChain(heap, p[1], p[2]))
      /\ Intact(FreeChain(heap, p[1], p[2]), Forget(p))
  <2>1. DOMAIN Forget(p) \subseteq DOMAIN live \ {p}
    BY ForgetIs
  <2> QED BY <1>0, <2>1, ForgetIs, FreeChainChains
<1> QED BY <1>0, <1>1, <1>2, <1>3, SucceededC

LEMMA ReallocCInv ==
    ASSUME IInv, CInv, NEW p \in DOMAIN live, NEW n \in Nat \ {0}, NEW move, NEW early,
           gc_realloc(p, n, move, early)
    PROVE  CInv'
<1> DEFINE a == p[1]
           b == p[2]
           end == b + live[p]
<1>0. /\ IsHeap(heap) /\ Hinted(heap) /\ Chained(heap) /\ Intact(heap, live) /\ depth \in Nat
      /\ a \in AreaSet /\ b \in BlockSet(a) /\ IsChain(heap, a, b, end) /\ live[p] \in Nat
  BY DEF IInv, CInv, Intact, IsAddress
<1>1. b \in Nat /\ end \in Nat
  BY <1>0, BlocksNat
<1>2. ChainEnd(heap, a, b) = end /\ auto' = auto
  BY <1>0, ChainEndIs DEF gc_realloc
<1>3. CASE failed' = 0 /\ UNCHANGED <<heap, live>>
  BY <1>0, <1>3, SucceededC
<1>4. CASE b + n < end /\ Shrink(p, end, n)
  <2> DEFINE new == FreeHint(SetKind(heap, a, b + n, end, "free"), a, b + n)
  <2>1. heap' = new /\ live' = Remember(live, p, n) /\ failed' = 0
    BY <1>4 DEF Shrink
  <2>2. n < live[p]
    BY <1>0, <1>1, <1>4
  <2>3. Chained(new) /\ Intact(new, Remember(live, p, n))
    BY <1>0, <2>2, ShrunkChains
  <2> HIDE DEF new
  <2> QED BY <2>1, <2>3, SucceededC
<1>5. CASE b + n > end /\ b + n <= Blocks(a) /\ AllFree(heap, a, end, b + n) /\ Expand(p, end, n)
  <2> DEFINE mid == SetKind(heap, a, end, b + n, "tail")
             new == [mid EXCEPT !.used[a] = Max({mid.used[a], b + n})]
  <2>1. heap' = new /\ live' = Remember(live, p, n) /\ failed' = 0
    BY <1>5 DEF Expand
  <2>2. live[p] < n
    BY <1>0, <1>1, <1>5
  <2>3. Chained(new) /\ Intact(new, Remember(live, p, n))
    BY <1>0, <1>5, <2>2, ExpandedChains
  <2> HIDE DEF new
  <2> QED BY <2>1, <2>3, SucceededC
<1>6. CASE Move(p, n, early)
  <2> DEFINE r == Alloc(heap, DOMAIN live, n, early)
  <2>1. /\ IsHeap(r.heap) /\ Chained(r.heap)
        /\ r.ptr = NULL => Intact(r.heap, live) /\ (auto => Clean(r.heap, live))
        /\ r.ptr # NULL => Intact(r.heap, Remember(live, r.ptr, n)) /\ r.ptr \notin DOMAIN live
    BY <1>0, AllocChains
  <2>2. CASE r.ptr = NULL
    <3>1. heap' = r.heap /\ live' = live
      BY <1>6, <2>2 DEF Move
    <3> HIDE DEF r
    <3> QED BY <1>2, <2>1, <2>2, <3>1 DEF CInv
  <2>3. CASE r.ptr # NULL
    <3>1. /\ heap' = FreeChain(r.heap, a, b) /\ failed' = 0
          /\ live' = Remember(Forget(p), r.ptr, n)
      BY <1>6, <2>3 DEF Move
    <3> HIDE DEF r
    <3> DEFINE f == Remember(live, r.ptr, n)
               g == Remember(Forget(p), r.ptr, n)
    <3>2. /\ DOMAIN g \subseteq DOMAIN f \ {p} /\ p \in DOMAIN f
          /\ \A q \in DOMAIN g : g[q] = f[q]
      BY <2>1, <2>3, ForgetIs DEF Remember
    <3>3. Intact(r.heap, f)
      BY <2>1, <2>3
    <3> HIDE DEF f, g
    <3>4. Chained(FreeChain(r.heap, a, b)) /\ Intact(FreeChain(r.heap, a, b), g)
      BY <2>1, <3>2, <3>3, FreeChainChains
    <3> QED BY <3>1, <3>4, SucceededC DEF g
  <2> QED BY <2>2, <2>3
<1>7. \/ failed' = 0 /\ UNCHANGED <<heap, live>>
      \/ b + n < end /\ Shrink(p, end, n)
      \/ b + n > end /\ b + n <= Blocks(a) /\ AllFree(heap, a, end, b + n) /\ Expand(p, end, n)
      \/ Move(p, n, early)
  <2> DEFINE last == ChainEnd(heap, a, b)
  <2>1. depth > 0 \/ depth = 0
    BY <1>0
  <2>2. b + n = last \/ b + n < last \/ b + n > last
    BY <1>1, <1>2
  <2> HIDE DEF last
  <2>3. \/ failed' = 0 /\ UNCHANGED <<heap, live>>
        \/ b + n < last /\ Shrink(p, last, n)
        \/ b + n > last /\ b + n <= Blocks(a) /\ AllFree(heap, a, last, b + n) /\ Expand(p, last, n)
        \/ Move(p, n, early)
    BY <2>1, <2>2, Zenon DEF gc_realloc, last
  <2>4. last = end
    BY <1>2 DEF last
  <2> HIDE DEF end
  <2> QED BY <2>3, <2>4
<1> QED BY <1>3, <1>4, <1>5, <1>6, <1>7

(* gc_sweep_all() is a collection with no object in use. *)
LEMMA SweepAllCollects ==
    ASSUME NEW h, IsHeap(h)
    PROVE  CollectEnd(h) = Collect(h, DOMAIN << >>)
<1> DEFINE table == [a \in AreaSet |-> [b \in BlockSet(a) |->
                        IF <<a, b>> \in DOMAIN << >> /\ h.table[a][b] = "head"
                        THEN "mark" ELSE h.table[a][b]]]
<1>1. MarkLive(h, DOMAIN << >>) = [h EXCEPT !.table = table]
  BY DEF MarkLive
<1>2. table = h.table
  <2>1. table = [a \in AreaSet |-> [b \in BlockSet(a) |-> h.table[a][b]]]
    OBVIOUS
  <2>2. \A a \in AreaSet : [b \in BlockSet(a) |-> h.table[a][b]] = h.table[a]
    BY DEF IsHeap
  <2>3. table = [a \in AreaSet |-> h.table[a]]
    BY <2>1, <2>2
  <2> HIDE DEF table
  <2> QED BY <2>3 DEF IsHeap
<1>3. h = [table |-> h.table, area |-> h.area, index |-> h.index, used |-> h.used]
  BY DEF IsHeap
<1> HIDE DEF table
<1>4. [h EXCEPT !.table = h.table] = h
  BY <1>3
<1> QED BY <1>1, <1>2, <1>4 DEF Collect

(* After a collection, asked for or by the reset, there is no garbage. *)
LEMMA CollectedClean ==
    ASSUME IInv, CInv, gc_collect \/ gc_sweep_all
    PROVE  Chained(heap') /\ Intact(heap', live') /\ Clean(heap', live')
<1>0. IsHeap(heap) /\ Chained(heap) /\ Intact(heap, live)
  BY DEF IInv, CInv
<1>1. CASE gc_collect
  <2>1. heap' = Collect(heap, DOMAIN live) /\ live' = live
    BY <1>1 DEF gc_collect
  <2> QED BY <1>0, <2>1, CollectChains
<1>2. CASE gc_sweep_all
  <2>1. heap' = Collect(heap, DOMAIN << >>) /\ live' = << >>
    BY <1>0, <1>2, SweepAllCollects DEF gc_sweep_all
  <2>2. Intact(heap, << >>)
    BY DEF Intact
  <2> QED BY <1>0, <2>1, <2>2, CollectChains
<1> QED BY <1>1, <1>2

(* The inductive step *)
LEMMA NextCInv == IInv /\ CInv /\ [Next]_vars => CInv'
<1> SUFFICES ASSUME IInv, CInv, [Next]_vars PROVE CInv'
  OBVIOUS
<1>0. Chained(heap) /\ Intact(heap, live)
  BY DEF CInv
<1>1. \A n \in 1..MaxBlocks : n \in Nat \ {0}
  BY GcHeapAssumption
<1>2. ASSUME NEW n \in 1..MaxBlocks, NEW early \in Early, gc_alloc(n, early)
      PROVE  CInv'
  BY <1>1, <1>2, AllocCInv
<1>3. ASSUME NEW p \in DOMAIN live, gc_free(p)
      PROVE  CInv'
  BY <1>3, FreeCInv
<1>4. ASSUME NEW p \in DOMAIN live, NEW n \in 1..MaxBlocks, NEW early \in Early,
             NEW move \in {TRUE, early}, gc_realloc(p, n, move, early)
      PROVE  CInv'
  BY <1>1, <1>4, ReallocCInv
<1>5. ASSUME NEW p \in DOMAIN live, Drop(p)
      PROVE  CInv'
  <2>1. Intact(heap, Forget(p))
    BY <1>0, ForgetIs, IntactFewer
  <2> QED BY <1>0, <1>5, <2>1, SucceededC DEF Drop
<1>6. ASSUME NEW on \in BOOLEAN, gc_enable(on)
      PROVE  CInv'
  BY <1>0, <1>6, SucceededC DEF gc_enable
<1>7. CASE gc_collect \/ gc_sweep_all
  BY <1>7, CollectedClean DEF CInv
<1>8. CASE gc_lock \/ gc_unlock
  BY <1>0, <1>8, SucceededC DEF gc_lock, gc_unlock
<1>9. CASE UNCHANGED vars
  BY <1>9 DEF vars, CInv
<1> QED BY <1>2, <1>3, <1>4, <1>5, <1>6, <1>7, <1>8, <1>9 DEF Next

(* The objects in use are never touched: whatever gc_alloc(),              *)
(* gc_realloc(), gc_free() and the sweep do around them, each stays one    *)
(* chain of the length that was asked for.                                 *)
THEOREM ObjectsStayIntact == Spec => []ObjectsIntact
<1>1. CInv => ObjectsIntact
  <2> SUFFICES ASSUME CInv, NEW p \in DOMAIN live
               PROVE  /\ p[2] + live[p] <= Blocks(p[1])
                      /\ heap.table[p[1]][p[2]] = "head"
                      /\ ChainEnd(heap, p[1], p[2]) = p[2] + live[p]
    BY DEF ObjectsIntact
  <2> DEFINE a == p[1]
             b == p[2]
             end == b + live[p]
  <2>1. a \in AreaSet /\ b \in BlockSet(a) /\ IsChain(heap, a, b, end)
    BY DEF CInv, Intact, IsAddress
  <2> HIDE DEF a, b, end
  <2>2. ChainEnd(heap, a, b) = end
    BY <2>1, ChainEndIs
  <2>3. end <= Blocks(a) /\ heap.table[a][b] = "head"
    BY <2>1, BlocksNat DEF IsChain
  <2> QED BY <2>2, <2>3 DEF a, b, end
<1> QED BY <1>1, InitIInv, NextIInv, InitCInv, NextCInv, PTL DEF Spec

(* Unless the program has called gc.disable(), gc_alloc() and gc_realloc() *)
(* fail only after a collection has left no garbage.                       *)
THEOREM FailureMeansCollected == Spec => []FailsAfterCollecting
<1>1. CInv => FailsAfterCollecting
  BY CleanBlocks DEF CInv, FailsAfterCollecting, UsedBlocks
<1> QED BY <1>1, InitIInv, NextIInv, InitCInv, NextCInv, PTL DEF Spec

(* gc_collect() reclaims all garbage, though the sweep stops at the last   *)
(* used block, and gc_sweep_all() reclaims everything.                     *)
THEOREM CollectionsReclaim == Spec => CollectionReclaims
<1>1. IInv /\ CInv /\ [Next]_vars
        => [gc_collect \/ gc_sweep_all => UsedBlocks' = Covered(live')]_vars
  <2> SUFFICES ASSUME IInv, CInv, gc_collect \/ gc_sweep_all
               PROVE  UsedBlocks' = Covered(live')
    OBVIOUS
  <2>1. Intact(heap', live') /\ Clean(heap', live')
    BY CollectedClean
  <2>2. {p \in Addresses : heap'.table[p[1]][p[2]] # "free"} = Covered(live')
    BY <2>1, CleanBlocks
  <2> QED BY <2>2 DEF UsedBlocks
<1> QED BY <1>1, InitIInv, NextIInv, InitCInv, NextCInv, PTL DEF Spec, CollectionReclaims
==============================================================================
