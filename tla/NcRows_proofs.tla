--------------------------- MODULE NcRows_proofs ---------------------------
(***************************************************************************)
(* Lemmas about rows, tables, the flattener and the rows of a call: what   *)
(* the operators that walk over sequences of rows return when a sequence   *)
(* grows by one row, and what types they keep.  They are cited by the      *)
(* proofs about the flattener and the two streams.                         *)
(***************************************************************************)
EXTENDS NcJobs, SequenceTheorems, FiniteSetTheorems, TLAPS

-----------------------------------------------------------------------------
(* Induction, stated with a set in the place of a predicate.  If some      *)
(* number were missing from S, adding one would map the members of S up to *)
(* it into the same set without zero, and no two to the same.              *)
LEMMA SetInduction ==
  ASSUME NEW S, 0 \in S, \A n \in Nat : n \in S => n + 1 \in S
  PROVE  Nat \subseteq S
<1>1. SUFFICES ASSUME NEW n \in Nat, n \notin S PROVE FALSE
  OBVIOUS
<1> DEFINE T == {x \in 0..n : x \in S}
           U == T \ {0}
           f == [x \in T |-> x + 1]
<1>2. IsFiniteSet(0..n) /\ T \subseteq 0..n
  BY <1>1, FS_Interval
<1>3. IsFiniteSet(T)
  BY <1>2, FS_Subset
<1>4. 0 \in T
  BY <1>1
<1>5. IsFiniteSet(U) /\ Cardinality(U) = Cardinality(T) - 1 /\ Cardinality(T) \in Nat
  BY <1>3, <1>4, FS_RemoveElement, FS_CardinalityType
<1>6. f \in [T -> U]
  BY <1>1
<1>7. \A x, y \in T : x # y => f[x] # f[y]
  BY <1>1
<1> HIDE DEF T, U, f
<1> QED
  BY <1>3, <1>5, <1>6, <1>7, FS_PigeonHole

LEMMA LenNat ==
  ASSUME NEW S, NEW s \in Seq(S)
  PROVE  Len(s) \in Nat /\ (Len(s) = 0 <=> s = <<>>)
BY EmptySeq, LenProperties

(* The same for sequences that grow at their end.                          *)
LEMMA SeqInduction ==
  ASSUME NEW S, NEW T, <<>> \in T,
         \A s \in Seq(S) : \A x \in S : s \in T => Append(s, x) \in T
  PROVE  Seq(S) \subseteq T
<1> DEFINE N == {n \in Nat : \A s \in Seq(S) : Len(s) = n => s \in T}
<1>1. 0 \in N
  BY LenNat
<1>2. ASSUME NEW n \in Nat, n \in N PROVE n + 1 \in N
  <2>1. SUFFICES ASSUME NEW s \in Seq(S), Len(s) = n + 1 PROVE s \in T
    BY <1>2
  <2>2. s # <<>>
    BY <2>1, LenNat
  <2>3. PICK t \in Seq(S), x \in S : s = Append(t, x)
    BY <2>2, SequenceEmptyOrAppend
  <2>4. Len(s) = Len(t) + 1 /\ Len(t) \in Nat
    BY <2>3, AppendProperties, LenNat
  <2>5. t \in T
    BY <1>2, <2>1, <2>4
  <2> QED
    BY <2>3, <2>5
<1> HIDE DEF N
<1>3. Nat \subseteq N
  BY <1>1, <1>2, SetInduction
<1>4. \A s \in Seq(S) : Len(s) \in N
  BY <1>3, LenNat
<1> QED
  BY <1>4 DEF N

(* A function may be defined by what it is at zero and how each value      *)
(* follows from the one before.                                            *)
IsStep(G, n, V) == G \in [(1..n) \X V -> V]
IsWalk(f, n, V, base, G) ==
  f \in [0..n -> V] /\ f[0] = base /\ \A i \in 1..n : f[i] = G[<<i, f[i - 1]>>]

LEMMA Recursion ==
  ASSUME NEW n \in Nat, NEW V, NEW base \in V, NEW G, IsStep(G, n, V)
  PROVE  \E f : IsWalk(f, n, V, base, G)
<1> USE DEF IsStep
<1> DEFINE M == {m \in Nat : m <= n => \E f \in [0..m -> V] :
                                f[0] = base /\ \A i \in 1..m : f[i] = G[<<i, f[i - 1]>>]}
<1>1. 0 \in M
  <2> DEFINE f == [i \in 0..0 |-> base]
  <2>1. f \in [0..0 -> V] /\ f[0] = base /\ \A i \in 1..0 : f[i] = G[<<i, f[i - 1]>>]
    OBVIOUS
  <2> QED
    BY <2>1
<1>2. ASSUME NEW m \in Nat, m \in M PROVE m + 1 \in M
  <2>1. SUFFICES ASSUME m + 1 <= n
                 PROVE  \E f \in [0..m + 1 -> V] :
                           f[0] = base /\ \A i \in 1..m + 1 : f[i] = G[<<i, f[i - 1]>>]
    BY <1>2
  <2>2. PICK f \in [0..m -> V] : f[0] = base /\ \A i \in 1..m : f[i] = G[<<i, f[i - 1]>>]
    BY <1>2, <2>1
  <2> DEFINE g == [i \in 0..m + 1 |-> IF i = m + 1 THEN G[<<m + 1, f[m]>>] ELSE f[i]]
  <2>3. G[<<m + 1, f[m]>>] \in V
    BY <1>2, <2>1, <2>2
  <2>4. g \in [0..m + 1 -> V]
    BY <1>2, <2>2, <2>3
  <2>5. g[0] = base
    BY <1>2, <2>2
  <2>6. ASSUME NEW i \in 1..m + 1 PROVE g[i] = G[<<i, g[i - 1]>>]
    <3>1. CASE i = m + 1
      <4>1. g[i] = G[<<m + 1, f[m]>>] /\ g[i - 1] = f[m] /\ i - 1 = m
        BY <1>2, <3>1
      <4> QED
        BY <3>1, <4>1
    <3>2. CASE i # m + 1
      <4>1. i \in 1..m /\ i - 1 \in 0..m + 1 /\ i - 1 # m + 1 /\ i \in 0..m + 1
        BY <1>2, <3>2
      <4>2. g[i] = f[i] /\ g[i - 1] = f[i - 1]
        BY <3>2, <4>1
      <4> QED
        BY <2>2, <4>1, <4>2
    <3> QED
      BY <3>1, <3>2
  <2> HIDE DEF g
  <2> QED
    BY <2>4, <2>5, <2>6
<1> HIDE DEF M
<1>3. n \in M
  BY <1>1, <1>2, SetInduction
<1> QED
  BY <1>3 DEF M, IsWalk

-----------------------------------------------------------------------------
(* Picking elements of a sequence.                                         *)

PicksAlong(f, S, seq, places) ==
  /\ f \in [0..Len(seq) -> Seq(S)] /\ f[0] = <<>>
  /\ \A i \in 1..Len(seq) : f[i] = IF i \in places THEN Append(f[i - 1], seq[i]) ELSE f[i - 1]

LEMMA PickedWalk ==
  ASSUME NEW S, NEW seq \in Seq(S), NEW places
  PROVE  \E f : PicksAlong(f, S, seq, places) /\ Picked(seq, places) = f[Len(seq)]
<1> DEFINE n == Len(seq)
           V == Seq(S)
           G == [iv \in (1..n) \X V |-> IF iv[1] \in places THEN Append(iv[2], seq[iv[1]]) ELSE iv[2]]
           c == CHOOSE f : f = [i \in 0..n |->
                  IF i = 0 THEN <<>> ELSE IF i \in places THEN Append(f[i - 1], seq[i]) ELSE f[i - 1]]
<1>1. n \in Nat /\ \A i \in 1..n : seq[i] \in S
  BY LenNat, ElementOfSeq
<1>2. <<>> \in V
  BY EmptySeq
<1>3. \A iv \in (1..n) \X V : G[iv] \in V
  BY <1>1, AppendProperties
<1>4. IsStep(G, n, V)
  BY <1>3 DEF IsStep
<1>5. \A i \in 1..n : \A v \in V : G[<<i, v>>] = IF i \in places THEN Append(v, seq[i]) ELSE v
  OBVIOUS
<1> HIDE DEF G, V
<1>6. PICK f \in [0..n -> V] : f[0] = <<>> /\ \A i \in 1..n : f[i] = G[<<i, f[i - 1]>>]
  <2> HIDE DEF n, c
  <2>1. n \in Nat
    BY <1>1
  <2> QED
    BY <2>1, <1>2, <1>4, Recursion, SMTT(20) DEF IsWalk
<1>7. \A i \in 1..n : f[i] = IF i \in places THEN Append(f[i - 1], seq[i]) ELSE f[i - 1]
  <2> SUFFICES ASSUME NEW i \in 1..n
               PROVE  f[i] = IF i \in places THEN Append(f[i - 1], seq[i]) ELSE f[i - 1]
    OBVIOUS
  <2>1. i - 1 \in 0..n
    BY <1>1
  <2>2. f[i - 1] \in V
    BY <1>6, <2>1
  <2> QED
    BY <1>5, <1>6, <2>2
<1>8. f = [i \in 0..n |-> IF i = 0 THEN <<>>
                          ELSE IF i \in places THEN Append(f[i - 1], seq[i]) ELSE f[i - 1]]
  <2>1. \A i \in 0..n : f[i] = IF i = 0 THEN <<>>
                          ELSE IF i \in places THEN Append(f[i - 1], seq[i]) ELSE f[i - 1]
    <3> SUFFICES ASSUME NEW i \in 0..n, i # 0
                 PROVE  f[i] = IF i \in places THEN Append(f[i - 1], seq[i]) ELSE f[i - 1]
      BY <1>6
    <3>1. i \in 1..n
      BY <1>1
    <3> QED
      BY <1>7, <3>1
  <2> QED
    BY <1>6, <2>1
<1>9. c = [i \in 0..n |-> IF i = 0 THEN <<>>
                          ELSE IF i \in places THEN Append(c[i - 1], seq[i]) ELSE c[i - 1]]
  BY <1>8
<1>10. Picked(seq, places) = c[n]
  BY DEF Picked
<1> HIDE DEF c
<1>11. c[0] = <<>> /\ \A i \in 1..n : c[i] = IF i \in places THEN Append(c[i - 1], seq[i]) ELSE c[i - 1]
  <2> HIDE DEF n
  <2>1. \A i \in 0..n : c[i] = IF i = 0 THEN <<>>
                          ELSE IF i \in places THEN Append(c[i - 1], seq[i]) ELSE c[i - 1]
    BY <1>9
  <2>2. 0 \in 0..n /\ \A i \in 1..n : i \in 0..n /\ i # 0
    BY <1>1
  <2> QED
    BY <2>1, <2>2
<1> DEFINE M == {k \in Nat : k <= n => c[k] = f[k]}
<1>12. 0 \in M
  BY <1>6, <1>11
<1>13. ASSUME NEW k \in Nat, k \in M PROVE k + 1 \in M
  <2>1. k + 1 <= n => k + 1 \in 1..n /\ (k + 1) - 1 = k /\ c[k] = f[k]
    BY <1>1, <1>13
  <2> QED
    BY <1>7, <1>11, <2>1
<1> HIDE DEF M
<1>14. n \in M
  BY <1>1, <1>12, <1>13, SetInduction
<1> QED
  BY <1>1, <1>6, <1>7, <1>10, <1>14 DEF M, V, PicksAlong

LEMMA PickedType ==
  ASSUME NEW S, NEW seq \in Seq(S), NEW places
  PROVE  Picked(seq, places) \in Seq(S)
<1>1. PICK f : PicksAlong(f, S, seq, places) /\ Picked(seq, places) = f[Len(seq)]
  BY PickedWalk
<1> QED
  BY <1>1, LenNat DEF PicksAlong

LEMMA PickedNone ==
  ASSUME NEW S, NEW seq \in Seq(S), NEW places
  PROVE  Len(seq) = 0 => Picked(seq, places) = <<>>
<1>1. PICK f : PicksAlong(f, S, seq, places) /\ Picked(seq, places) = f[Len(seq)]
  BY PickedWalk
<1> QED
  BY <1>1 DEF PicksAlong

LEMMA PickedEmpty == \A places : Picked(<<>>, places) = <<>>
<1>1. <<>> \in Seq({}) /\ Len(<<>>) = 0
  BY EmptySeq
<1> QED
  BY <1>1, PickedNone

LEMMA PickedAppend ==
  ASSUME NEW S, NEW seq \in Seq(S), NEW x \in S, NEW places, NEW before,
         \A i \in 1..Len(seq) : i \in places <=> i \in before
  PROVE  Picked(Append(seq, x), places) =
           IF Len(seq) + 1 \in places THEN Append(Picked(seq, before), x) ELSE Picked(seq, before)
<1> DEFINE n   == Len(seq)
           all == Append(seq, x)
<1>1. /\ n \in Nat /\ all \in Seq(S) /\ Len(all) = n + 1 /\ all[n + 1] = x
      /\ \A i \in 1..n : all[i] = seq[i]
  BY LenNat, AppendProperties
<1>2. PICK f : PicksAlong(f, S, seq, before) /\ Picked(seq, before) = f[n]
  BY PickedWalk
<1> HIDE DEF all
<1>3. PICK g : PicksAlong(g, S, all, places) /\ Picked(all, places) = g[Len(all)]
  BY <1>1, PickedWalk
<1> USE DEF PicksAlong
<1> HIDE DEF n
<1> DEFINE M == {k \in Nat : k <= n => f[k] = g[k]}
<1>4. 0 \in M
  BY <1>2, <1>3 DEF n
<1>5. ASSUME NEW k \in Nat, k \in M PROVE k + 1 \in M
  <2>1. SUFFICES ASSUME k + 1 <= n PROVE f[k + 1] = g[k + 1]
    OBVIOUS
  <2>2. /\ f[k] = g[k] /\ k + 1 \in 1..n /\ k + 1 \in 1..Len(all) /\ (k + 1) - 1 = k
        /\ all[k + 1] = seq[k + 1]
    BY <1>1, <1>5, <2>1, SMTT(20)
  <2>3. k + 1 \in places <=> k + 1 \in before
    BY <2>2 DEF n
  <2> QED
    BY <1>2, <1>3, <2>2, <2>3 DEF n
<1> HIDE DEF M
<1>6. n \in M
  BY <1>1, <1>4, <1>5, SetInduction
<1>7. f[n] = g[n]
  BY <1>1, <1>6 DEF M
<1>8. n + 1 \in 1..Len(all) /\ (n + 1) - 1 = n
  BY <1>1
<1>9. Picked(all, places) = IF n + 1 \in places THEN Append(g[n], x) ELSE g[n]
  BY <1>1, <1>3, <1>8
<1> QED
  BY <1>2, <1>7, <1>9 DEF n, all

-----------------------------------------------------------------------------
(* The last place of some.                                                 *)

LEMMA MaxExists ==
  ASSUME NEW n \in Nat, NEW H, H \subseteq 1..n, H # {}
  PROVE  Max(H) \in H /\ \A k \in H : k <= Max(H)
<1> DEFINE N == {m \in Nat : \A I \in SUBSET (1..m) : I # {} => \E x \in I : \A k \in I : k <= x}
<1>1. 0 \in N
  <2>1. \A I \in SUBSET (1..0) : I = {}
    OBVIOUS
  <2> QED
    BY <2>1
<1>2. ASSUME NEW m \in Nat, m \in N PROVE m + 1 \in N
  <2>1. SUFFICES ASSUME NEW I \in SUBSET (1..m + 1), I # {} PROVE \E x \in I : \A k \in I : k <= x
    BY <1>2
  <2>2. CASE m + 1 \in I
    BY <1>2, <2>2
  <2>3. CASE m + 1 \notin I
    <3>1. I \in SUBSET (1..m)
      BY <1>2, <2>3
    <3> QED
      BY <1>2, <2>1, <3>1
  <2> QED
    BY <2>2, <2>3
<1> HIDE DEF N
<1>3. n \in N
  BY <1>1, <1>2, SetInduction
<1>4. PICK x \in H : \A k \in H : k <= x
  BY <1>3 DEF N
<1>5. \A k \in H : x >= k
  BY <1>4
<1>6. Max(H) \in H /\ \A k \in H : Max(H) >= k
  BY <1>5 DEF Max
<1> QED
  BY <1>6

LEMMA MaxIs ==
  ASSUME NEW n \in Nat, NEW H, H \subseteq 1..n, NEW m \in H, \A k \in H : k <= m
  PROVE  Max(H) = m
<1>1. Max(H) \in H /\ \A k \in H : k <= Max(H)
  BY MaxExists
<1> DEFINE x == Max(H)
<1>2. x \in H /\ m <= x
  BY <1>1
<1> HIDE DEF x
<1>3. x <= m /\ x \in 1..n /\ m \in 1..n
  BY <1>2
<1>4. x = m
  BY <1>2, <1>3
<1> QED
  BY <1>4 DEF x

-----------------------------------------------------------------------------
(* Rows.                                                                   *)

LEMMA RowFields ==
  ASSUME NEW row \in Row
  PROVE  /\ row.line \in Nat /\ row.cells \in Cells /\ row.changes \in Seq(Names \X Values)
         /\ row.cut \in Nat \ {0}
BY DEF Row

LEMMA EmptyRowType == EmptyRow \in Row
<1>1. NoCells \in Cells
  BY DEF NoCells, Cells
<1>2. <<>> \in Seq(Names \X Values)
  BY EmptySeq
<1> QED
  BY <1>1, <1>2 DEF EmptyRow, Row

LEMMA BareCells ==
  ASSUME NEW row, row.cells \in Cells
  PROVE  Bare(row) <=> \A c \in Columns : row.cells[c] = Null
BY DEF Bare, NoCells, Cells

-----------------------------------------------------------------------------
(* The last value programmed in a column.                                  *)

LEMMA LastInBefore ==
  ASSUME NEW rows, NEW more, NEW i \in Nat, NEW c,
         \A j \in 1..i : more[j] = rows[j]
  PROVE  LastIn(more, i, c) = LastIn(rows, i, c)
<1> DEFINE H == {j \in 1..i : rows[j].cells[c] # Null}
           I == {j \in 1..i : more[j].cells[c] # Null}
<1>1. H = I
  OBVIOUS
<1>2. H # {} => Max(H) \in 1..i
  <2> HIDE DEF I
  <2>1. H \subseteq 1..i
    OBVIOUS
  <2> HIDE DEF H
  <2> QED
    BY <2>1, MaxExists
<1>3. LastIn(rows, i, c) = IF H = {} THEN Null ELSE rows[Max(H)].cells[c]
  BY DEF LastIn
<1>4. LastIn(more, i, c) = IF I = {} THEN Null ELSE more[Max(I)].cells[c]
  BY DEF LastIn
<1> HIDE DEF H, I
<1> QED
  BY <1>1, <1>2, <1>3, <1>4

LEMMA LastInNext ==
  ASSUME NEW rows, NEW i \in Nat, NEW c
  PROVE  LastIn(rows, i + 1, c) =
           IF rows[i + 1].cells[c] # Null THEN rows[i + 1].cells[c] ELSE LastIn(rows, i, c)
<1> DEFINE H == {j \in 1..i : rows[j].cells[c] # Null}
           I == {j \in 1..i + 1 : rows[j].cells[c] # Null}
<1>1. LastIn(rows, i, c) = IF H = {} THEN Null ELSE rows[Max(H)].cells[c]
  BY DEF LastIn
<1>2. LastIn(rows, i + 1, c) = IF I = {} THEN Null ELSE rows[Max(I)].cells[c]
  BY DEF LastIn
<1>3. CASE rows[i + 1].cells[c] # Null
  <2>1. i + 1 \in I /\ I \subseteq 1..i + 1 /\ \A k \in I : k <= i + 1
    BY <1>3
  <2> HIDE DEF I, H
  <2>2. i + 1 \in Nat
    OBVIOUS
  <2>3. Max(I) = i + 1
    BY <2>1, <2>2, MaxIs
  <2> QED
    BY <1>2, <1>3, <2>1, <2>3
<1>4. CASE rows[i + 1].cells[c] = Null
  <2>1. H = I
    BY <1>4
  <2> HIDE DEF I, H
  <2> QED
    BY <1>1, <1>2, <1>4, <2>1
<1> QED
  BY <1>3, <1>4

LEMMA LastInNone ==
  ASSUME NEW rows, NEW c
  PROVE  LastIn(rows, 0, c) = Null
BY DEF LastIn

LEMMA LastInType ==
  ASSUME NEW rows \in Seq(Row), NEW i \in 0..Len(rows), NEW c \in Columns
  PROVE  LastIn(rows, i, c) \in Values \cup Words \cup {Null}
<1> DEFINE H == {j \in 1..i : rows[j].cells[c] # Null}
<1>1. LastIn(rows, i, c) = IF H = {} THEN Null ELSE rows[Max(H)].cells[c]
  BY DEF LastIn
<1>2. H \subseteq 1..i /\ i \in Nat /\ 1..i \subseteq 1..Len(rows)
  BY LenNat
<1> HIDE DEF H
<1>3. H # {} => Max(H) \in 1..Len(rows)
  BY <1>2, MaxExists
<1>4. H # {} => rows[Max(H)] \in Row
  BY <1>3, ElementOfSeq
<1>5. H # {} => rows[Max(H)].cells \in Cells
  BY <1>4, RowFields
<1> QED
  BY <1>1, <1>5 DEF Cells

-----------------------------------------------------------------------------
(* Tables, row by row.                                                     *)

TableRow == [line : Nat, cells : Cells]

(* The row of the table that row becomes behind some rows.                 *)
MeantRow(rows, row) ==
  [line  |-> row.line,
   cells |-> [c \in Columns |->
                IF c \in ForwardFilled
                THEN IF row.cells[c] # Null THEN row.cells[c] ELSE LastIn(rows, Len(rows), c)
                ELSE row.cells[c]]]

LEMMA MeantType ==
  ASSUME NEW rows \in Seq(Row)
  PROVE  Meant(rows) \in Seq(TableRow) /\ Len(Meant(rows)) = Len(rows)
<1> DEFINE cells(i) == [c \in Columns |-> IF c \in ForwardFilled THEN LastIn(rows, i, c)
                                          ELSE rows[i].cells[c]]
<1>1. Len(rows) \in Nat /\ DOMAIN rows = 1..Len(rows)
  BY LenProperties
<1>2. ASSUME NEW i \in 1..Len(rows) PROVE [line |-> rows[i].line, cells |-> cells(i)] \in TableRow
  <2>1. rows[i] \in Row
    BY ElementOfSeq
  <2>2. rows[i].line \in Nat /\ rows[i].cells \in Cells
    BY <2>1, RowFields
  <2>3. \A c \in Columns : LastIn(rows, i, c) \in Values \cup Words \cup {Null}
    BY <1>1, LastInType
  <2>4. cells(i) \in Cells
    BY <2>2, <2>3 DEF Cells
  <2> QED
    BY <2>2, <2>4 DEF TableRow
<1>3. Meant(rows) = [i \in 1..Len(rows) |-> [line |-> rows[i].line, cells |-> cells(i)]]
  BY <1>1 DEF Meant
<1>4. Meant(rows) \in [1..Len(rows) -> TableRow]
  BY <1>2, <1>3
<1> QED
  BY <1>1, <1>4

LEMMA MeantRowType ==
  ASSUME NEW rows \in Seq(Row), NEW row \in Row
  PROVE  MeantRow(rows, row) \in TableRow
<1>1. row.line \in Nat /\ row.cells \in Cells
  BY RowFields
<1>2. \A c \in Columns : LastIn(rows, Len(rows), c) \in Values \cup Words \cup {Null}
  BY LenNat, LastInType
<1>3. [c \in Columns |->
         IF c \in ForwardFilled
         THEN IF row.cells[c] # Null THEN row.cells[c] ELSE LastIn(rows, Len(rows), c)
         ELSE row.cells[c]] \in Cells
  BY <1>1, <1>2 DEF Cells
<1> QED
  BY <1>1, <1>3 DEF MeantRow, TableRow

LEMMA MeantAppend ==
  ASSUME NEW rows \in Seq(Row), NEW row \in Row
  PROVE  Meant(Append(rows, row)) = Append(Meant(rows), MeantRow(rows, row))
<1> DEFINE n == Len(rows)
           all == Append(rows, row)
           left == Meant(all)
           right == Append(Meant(rows), MeantRow(rows, row))
<1>1. /\ n \in Nat /\ all \in Seq(Row) /\ Len(all) = n + 1 /\ all[n + 1] = row
      /\ \A i \in 1..n : all[i] = rows[i]
  BY LenNat, AppendProperties
<1>2. /\ left \in Seq(TableRow) /\ Len(left) = n + 1
      /\ Meant(rows) \in Seq(TableRow) /\ Len(Meant(rows)) = n
      /\ MeantRow(rows, row) \in TableRow
  BY <1>1, MeantType, MeantRowType
<1>3. /\ right \in Seq(TableRow) /\ Len(right) = n + 1 /\ right[n + 1] = MeantRow(rows, row)
      /\ \A i \in 1..n : right[i] = Meant(rows)[i]
  BY <1>2, AppendProperties
<1>4. DOMAIN all = 1..n + 1 /\ DOMAIN rows = 1..n
  BY <1>1, LenProperties
<1> HIDE DEF all
<1>5. \A i \in 1..n + 1 :
         left[i] = [line  |-> all[i].line,
                    cells |-> [c \in Columns |-> IF c \in ForwardFilled THEN LastIn(all, i, c)
                                                 ELSE all[i].cells[c]]]
  BY <1>4 DEF Meant
<1>6. \A i \in 1..n :
         Meant(rows)[i] = [line  |-> rows[i].line,
                    cells |-> [c \in Columns |-> IF c \in ForwardFilled THEN LastIn(rows, i, c)
                                                 ELSE rows[i].cells[c]]]
  BY <1>4 DEF Meant
<1> HIDE DEF left, right
<1>7. ASSUME NEW i \in 1..n PROVE left[i] = right[i]
  <2>1. \A c : LastIn(all, i, c) = LastIn(rows, i, c)
    <3>1. i \in Nat /\ \A j \in 1..i : all[j] = rows[j]
      BY <1>1
    <3> QED
      BY <3>1, LastInBefore
  <2>2. all[i] = rows[i] /\ i \in 1..n + 1
    BY <1>1
  <2>3. [c \in Columns |-> IF c \in ForwardFilled THEN LastIn(all, i, c) ELSE all[i].cells[c]]
          = [c \in Columns |-> IF c \in ForwardFilled THEN LastIn(rows, i, c) ELSE rows[i].cells[c]]
    BY <2>1, <2>2
  <2>4. left[i] = [line  |-> all[i].line,
                    cells |-> [c \in Columns |-> IF c \in ForwardFilled THEN LastIn(all, i, c)
                                                 ELSE all[i].cells[c]]]
    BY <1>5, <2>2
  <2>5. left[i] = Meant(rows)[i]
    BY <1>6, <2>2, <2>3, <2>4
  <2> QED
    BY <1>3, <2>5
<1>8. left[n + 1] = right[n + 1]
  <2>1. \A c : LastIn(all, n + 1, c) = IF row.cells[c] # Null THEN row.cells[c] ELSE LastIn(rows, n, c)
    <3>1. \A c : LastIn(all, n, c) = LastIn(rows, n, c)
      BY <1>1, LastInBefore
    <3>2. \A c : LastIn(all, n + 1, c) =
                   IF all[n + 1].cells[c] # Null THEN all[n + 1].cells[c] ELSE LastIn(all, n, c)
      BY <1>1, LastInNext
    <3> QED
      BY <1>1, <3>1, <3>2
  <2>2. n + 1 \in 1..n + 1
    BY <1>1
  <2>3. [c \in Columns |-> IF c \in ForwardFilled THEN LastIn(all, n + 1, c) ELSE all[n + 1].cells[c]]
          = [c \in Columns |-> IF c \in ForwardFilled
                               THEN IF row.cells[c] # Null THEN row.cells[c] ELSE LastIn(rows, n, c)
                               ELSE row.cells[c]]
    BY <1>1, <2>1
  <2>4. left[n + 1] = [line  |-> row.line,
                       cells |-> [c \in Columns |-> IF c \in ForwardFilled THEN LastIn(all, n + 1, c)
                                                    ELSE all[n + 1].cells[c]]]
    BY <1>1, <1>5, <2>2
  <2>5. left[n + 1] = MeantRow(rows, row)
    BY <2>3, <2>4 DEF MeantRow
  <2> QED
    BY <1>3, <2>5
<1>9. \A i \in 1..n + 1 : left[i] = right[i]
  BY <1>1, <1>7, <1>8
<1>10. left = right
  BY <1>2, <1>3, <1>9, SeqEqual DEF left, right
<1> QED
  BY <1>10 DEF left, right, all

LEMMA CelledAppend ==
  ASSUME NEW S, NEW rows \in Seq(S), NEW row \in S
  PROVE  /\ \A i \in 1..Len(rows) : i \in Celled(Append(rows, row)) <=> i \in Celled(rows)
         /\ Len(rows) + 1 \in Celled(Append(rows, row)) <=> ~Bare(row)
<1>1. /\ Len(rows) \in Nat /\ Append(rows, row) \in Seq(S) /\ Len(Append(rows, row)) = Len(rows) + 1
      /\ Append(rows, row)[Len(rows) + 1] = row
      /\ \A i \in 1..Len(rows) : Append(rows, row)[i] = rows[i]
  BY LenNat, AppendProperties
<1>2. DOMAIN Append(rows, row) = 1..Len(rows) + 1 /\ DOMAIN rows = 1..Len(rows)
  BY <1>1, LenProperties
<1> QED
  BY <1>1, <1>2 DEF Celled

LEMMA WithCellsAppend ==
  ASSUME NEW S, NEW rows \in Seq(S), NEW row \in S
  PROVE  WithCells(Append(rows, row)) =
           IF Bare(row) THEN WithCells(rows) ELSE Append(WithCells(rows), row)
BY CelledAppend, PickedAppend DEF WithCells

LEMMA WithCellsType ==
  ASSUME NEW S, NEW rows \in Seq(S)
  PROVE  WithCells(rows) \in Seq(S) /\ WithCells(<<>>) = <<>>
BY PickedType, PickedEmpty DEF WithCells

(* The rows of the table of some rows.                                     *)
Tabled(rows) == MeantTable(rows).rows

LEMMA TabledEmpty == Tabled(<<>>) = <<>>
<1>1. Meant(<<>>) = <<>>
  <2>1. <<>> \in Seq(Row) /\ Len(<<>>) = 0
    BY EmptySeq
  <2>2. Meant(<<>>) \in Seq(TableRow) /\ Len(Meant(<<>>)) = 0
    BY <2>1, MeantType
  <2> QED
    BY <2>2, LenNat
<1> QED
  BY <1>1, PickedEmpty DEF Tabled, MeantTable

LEMMA TabledAppend ==
  ASSUME NEW rows \in Seq(Row), NEW row \in Row
  PROVE  Tabled(Append(rows, row)) =
           IF Bare(row) THEN Tabled(rows) ELSE Append(Tabled(rows), MeantRow(rows, row))
<1>1. Meant(rows) \in Seq(TableRow) /\ Len(Meant(rows)) = Len(rows) /\ MeantRow(rows, row) \in TableRow
  BY MeantType, MeantRowType
<1>2. Meant(Append(rows, row)) = Append(Meant(rows), MeantRow(rows, row))
  BY MeantAppend
<1>3. /\ \A i \in 1..Len(Meant(rows)) : i \in Celled(Append(rows, row)) <=> i \in Celled(rows)
      /\ Len(Meant(rows)) + 1 \in Celled(Append(rows, row)) <=> ~Bare(row)
  BY <1>1, CelledAppend
<1>4. Picked(Append(Meant(rows), MeantRow(rows, row)), Celled(Append(rows, row))) =
        IF Len(Meant(rows)) + 1 \in Celled(Append(rows, row))
        THEN Append(Picked(Meant(rows), Celled(rows)), MeantRow(rows, row))
        ELSE Picked(Meant(rows), Celled(rows))
  BY <1>1, <1>3, PickedAppend
<1> QED
  BY <1>2, <1>3, <1>4 DEF Tabled, MeantTable

LEMMA TabledType ==
  ASSUME NEW rows \in Seq(Row)
  PROVE  Tabled(rows) \in Seq(TableRow)
BY MeantType, PickedType DEF Tabled, MeantTable

-----------------------------------------------------------------------------
(* Joining sequences.                                                      *)

JoinsAlong(f, S, seqs) ==
  /\ f \in [0..Len(seqs) -> Seq(S)] /\ f[0] = <<>>
  /\ \A i \in 1..Len(seqs) : f[i] = f[i - 1] \o seqs[i]

LEMMA FlattenWalk ==
  ASSUME NEW S, NEW seqs \in Seq(Seq(S))
  PROVE  \E f : JoinsAlong(f, S, seqs) /\ FlattenSeq(seqs) = f[Len(seqs)]
<1> DEFINE n == Len(seqs)
           V == Seq(S)
           G == [iv \in (1..n) \X V |-> iv[2] \o seqs[iv[1]]]
           c == CHOOSE f : f = [i \in 1..n |-> IF i = 1 THEN seqs[i] ELSE f[i - 1] \o seqs[i]]
<1>1. n \in Nat /\ \A i \in 1..n : seqs[i] \in Seq(S)
  BY LenNat, ElementOfSeq
<1>2. <<>> \in V
  BY EmptySeq
<1>3. \A iv \in (1..n) \X V : G[iv] \in V
  BY <1>1, ConcatProperties
<1>4. IsStep(G, n, V)
  BY <1>3 DEF IsStep
<1>5. \A i \in 1..n : \A v \in V : G[<<i, v>>] = v \o seqs[i]
  OBVIOUS
<1> HIDE DEF G, V
<1>6. PICK f \in [0..n -> V] : f[0] = <<>> /\ \A i \in 1..n : f[i] = G[<<i, f[i - 1]>>]
  <2> HIDE DEF n, c
  <2>1. n \in Nat
    BY <1>1
  <2>2. \E f : IsWalk(f, n, V, <<>>, G)
    BY <2>1, <1>2, <1>4, Recursion
  <2> QED
    BY <2>2 DEF IsWalk
<1>7. \A i \in 1..n : f[i] = f[i - 1] \o seqs[i]
  <2> SUFFICES ASSUME NEW i \in 1..n PROVE f[i] = f[i - 1] \o seqs[i]
    OBVIOUS
  <2>1. i - 1 \in 0..n
    BY <1>1
  <2>2. f[i - 1] \in V
    BY <1>6, <2>1
  <2> QED
    BY <1>5, <1>6, <2>2
<1>8. JoinsAlong(f, S, seqs)
  BY <1>6, <1>7 DEF JoinsAlong, V
<1>9. CASE n = 0
  <2>1. seqs = <<>> /\ FlattenSeq(seqs) = seqs
    BY <1>9, LenNat DEF FlattenSeq
  <2> QED
    BY <1>6, <1>8, <1>9, <2>1
<1>10. CASE n # 0
  <2> DEFINE g == [i \in 1..n |-> f[i]]
  <2>1. 1 \in 1..n /\ f[1] = seqs[1]
    <3>1. 1 \in 1..n /\ seqs[1] \in Seq(S)
      BY <1>1, <1>10
    <3>2. <<>> \o seqs[1] = seqs[1]
      BY <3>1, ConcatEmptySeq
    <3>3. f[1] = f[1 - 1] \o seqs[1]
      BY <1>7, <3>1
    <3>4. f[1 - 1] = <<>>
      BY <1>6
    <3> QED
      BY <3>1, <3>2, <3>3, <3>4
  <2>2. ASSUME NEW i \in 1..n PROVE g[i] = IF i = 1 THEN seqs[i] ELSE g[i - 1] \o seqs[i]
    <3>1. i # 1 => i - 1 \in 1..n
      BY <1>1
    <3> QED
      BY <1>7, <2>1, <3>1
  <2>3. g = [i \in 1..n |-> IF i = 1 THEN seqs[i] ELSE g[i - 1] \o seqs[i]]
    <3> HIDE DEF g
    <3>1. g = [i \in 1..n |-> g[i]]
      BY DEF g
    <3> QED
      BY <2>2, <3>1
  <2> HIDE DEF g
  <2>4. c = [i \in 1..n |-> IF i = 1 THEN seqs[i] ELSE c[i - 1] \o seqs[i]]
    BY <2>3
  <2>5. FlattenSeq(seqs) = c[n]
    BY <1>10 DEF FlattenSeq
  <2> HIDE DEF c
  <2> DEFINE M == {k \in Nat : k + 1 <= n => c[k + 1] = f[k + 1]}
  <2>6. 0 \in M
    BY <1>1, <2>1, <2>4
  <2>7. ASSUME NEW k \in Nat, k \in M PROVE k + 1 \in M
    <3> SUFFICES ASSUME k + 2 <= n PROVE c[k + 2] = f[k + 2]
      BY <2>7
    <3>1. c[k + 1] = f[k + 1] /\ k + 2 \in 1..n /\ k + 2 # 1 /\ (k + 2) - 1 = k + 1
      BY <1>1, <2>7
    <3>2. c[k + 2] = c[k + 1] \o seqs[k + 2]
      BY <2>4, <3>1
    <3>3. f[k + 2] = f[k + 1] \o seqs[k + 2]
      BY <1>7, <3>1
    <3> QED
      BY <3>1, <3>2, <3>3
  <2> HIDE DEF M
  <2>8. n - 1 \in M
    <3>1. Nat \subseteq M
      BY <2>6, <2>7, SetInduction
    <3>2. n - 1 \in Nat
      BY <1>1, <1>10
    <3> QED
      BY <3>1, <3>2
  <2>9. c[n] = f[n]
    BY <1>1, <2>8 DEF M
  <2> QED
    BY <1>8, <2>5, <2>9
<1> QED
  BY <1>9, <1>10

LEMMA FlattenType ==
  ASSUME NEW S, NEW seqs \in Seq(Seq(S))
  PROVE  FlattenSeq(seqs) \in Seq(S)
<1>1. PICK f : JoinsAlong(f, S, seqs) /\ FlattenSeq(seqs) = f[Len(seqs)]
  BY FlattenWalk
<1> QED
  BY <1>1, LenNat DEF JoinsAlong

LEMMA FlattenEmpty == FlattenSeq(<<>>) = <<>>
<1>1. Len(<<>>) = 0
  BY EmptySeq
<1> QED
  BY <1>1 DEF FlattenSeq

LEMMA FlattenAppend ==
  ASSUME NEW S, NEW seqs \in Seq(Seq(S)), NEW x \in Seq(S)
  PROVE  FlattenSeq(Append(seqs, x)) = FlattenSeq(seqs) \o x
<1> DEFINE n   == Len(seqs)
           all == Append(seqs, x)
<1>1. /\ n \in Nat /\ all \in Seq(Seq(S)) /\ Len(all) = n + 1 /\ all[n + 1] = x
      /\ \A i \in 1..n : all[i] = seqs[i]
  BY LenNat, AppendProperties
<1>2. PICK f : JoinsAlong(f, S, seqs) /\ FlattenSeq(seqs) = f[n]
  BY FlattenWalk
<1> HIDE DEF all
<1>3. PICK g : JoinsAlong(g, S, all) /\ FlattenSeq(all) = g[Len(all)]
  BY <1>1, FlattenWalk
<1>4. f[0] = <<>> /\ \A i \in 1..n : f[i] = f[i - 1] \o seqs[i]
  BY <1>2 DEF JoinsAlong
<1>5. g[0] = <<>> /\ \A i \in 1..n + 1 : g[i] = g[i - 1] \o all[i]
  BY <1>1, <1>3 DEF JoinsAlong
<1> HIDE DEF n
<1> DEFINE M == {k \in Nat : k <= n => f[k] = g[k]}
<1>6. 0 \in M
  BY <1>4, <1>5
<1>7. ASSUME NEW k \in Nat, k \in M PROVE k + 1 \in M
  <2> SUFFICES ASSUME k + 1 <= n PROVE f[k + 1] = g[k + 1]
    OBVIOUS
  <2>1. f[k] = g[k] /\ k + 1 \in 1..n /\ k + 1 \in 1..n + 1 /\ (k + 1) - 1 = k
    BY <1>1, <1>7
  <2> QED
    BY <1>1, <1>4, <1>5, <2>1
<1> HIDE DEF M
<1>8. n \in M
  BY <1>1, <1>6, <1>7, SetInduction
<1>9. f[n] = g[n]
  BY <1>1, <1>8 DEF M
<1>10. n + 1 \in 1..n + 1 /\ (n + 1) - 1 = n
  BY <1>1
<1>11. g[n + 1] = g[n] \o x
  BY <1>1, <1>5, <1>10
<1> QED
  BY <1>1, <1>2, <1>3, <1>9, <1>11 DEF all, n

-----------------------------------------------------------------------------
(* The changes of some rows.                                               *)

(* What a row of the program, of a table or of an iterator records.        *)
Recording(S) == \A r \in S : r.changes \in Seq(Names \X Values)

LEMMA ChangesSeq ==
  ASSUME NEW S, Recording(S), NEW rows \in Seq(S)
  PROVE  [i \in DOMAIN rows |-> rows[i].changes] \in Seq(Seq(Names \X Values))
<1>1. Len(rows) \in Nat /\ DOMAIN rows = 1..Len(rows) /\ \A i \in 1..Len(rows) : rows[i] \in S
  BY LenProperties, ElementOfSeq
<1>2. [i \in DOMAIN rows |-> rows[i].changes] \in [1..Len(rows) -> Seq(Names \X Values)]
  BY <1>1 DEF Recording
<1> QED
  BY <1>1, <1>2

LEMMA ChangesAppend ==
  ASSUME NEW S, Recording(S), NEW rows \in Seq(S), NEW row \in S
  PROVE  ChangesOf(Append(rows, row)) = ChangesOf(rows) \o row.changes
<1> DEFINE some == [i \in DOMAIN rows |-> rows[i].changes]
           all  == [i \in DOMAIN Append(rows, row) |-> Append(rows, row)[i].changes]
           n    == Len(rows)
<1>1. /\ n \in Nat /\ Append(rows, row) \in Seq(S) /\ Len(Append(rows, row)) = n + 1
      /\ Append(rows, row)[n + 1] = row /\ \A i \in 1..n : Append(rows, row)[i] = rows[i]
  BY LenNat, AppendProperties
<1>2. DOMAIN rows = 1..n /\ DOMAIN Append(rows, row) = 1..n + 1
  BY <1>1, LenProperties
<1>3. row.changes \in Seq(Names \X Values)
  BY DEF Recording
<1>4. all = [i \in 1..n + 1 |-> Append(rows, row)[i].changes] /\ some = [i \in 1..n |-> rows[i].changes]
  BY <1>2
<1>5. some \in Seq(Seq(Names \X Values)) /\ all \in Seq(Seq(Names \X Values))
  BY <1>1, ChangesSeq
<1>6. Len(all) = n + 1 /\ Len(some) = n
  BY <1>1, <1>4
<1>7. all[n + 1] = row.changes /\ \A i \in 1..n : all[i] = some[i]
  BY <1>1, <1>4
<1> HIDE DEF all, some
<1>8. /\ Append(some, row.changes) \in Seq(Seq(Names \X Values)) /\ Len(Append(some, row.changes)) = n + 1
      /\ Append(some, row.changes)[n + 1] = row.changes
      /\ \A i \in 1..n : Append(some, row.changes)[i] = some[i]
  BY <1>3, <1>5, <1>6, AppendProperties
<1>9. \A i \in 1..n + 1 : all[i] = Append(some, row.changes)[i]
  BY <1>1, <1>7, <1>8
<1>10. all = Append(some, row.changes)
  BY <1>5, <1>6, <1>8, <1>9, SeqEqual
<1> QED
  BY <1>3, <1>5, <1>10, FlattenAppend DEF ChangesOf, all, some

LEMMA ChangesType ==
  ASSUME NEW S, Recording(S), NEW rows \in Seq(S)
  PROVE  ChangesOf(rows) \in Seq(Names \X Values)
BY ChangesSeq, FlattenType DEF ChangesOf

LEMMA ChangesEmpty == ChangesOf(<<>>) = <<>>
<1>1. [i \in DOMAIN <<>> |-> <<>>[i].changes] = <<>>
  OBVIOUS
<1> QED
  BY <1>1, FlattenEmpty DEF ChangesOf

LEMMA ChangesConcat ==
  ASSUME NEW S, Recording(S), NEW rows \in Seq(S), NEW more \in Seq(S)
  PROVE  ChangesOf(rows \o more) = ChangesOf(rows) \o ChangesOf(more)
<1> DEFINE T == {t \in Seq(S) : ChangesOf(rows \o t) = ChangesOf(rows) \o ChangesOf(t)}
<1>1. <<>> \in T
  <2>1. <<>> \in Seq(S) /\ rows \o <<>> = rows
    BY EmptySeq, ConcatEmptySeq
  <2>2. ChangesOf(rows) \o <<>> = ChangesOf(rows)
    BY ChangesType, ConcatEmptySeq
  <2> QED
    BY <2>1, <2>2, ChangesEmpty
<1>2. ASSUME NEW t \in Seq(S), NEW x \in S, t \in T PROVE Append(t, x) \in T
  <2>1. rows \o Append(t, x) = Append(rows \o t, x) /\ rows \o t \in Seq(S) /\ Append(t, x) \in Seq(S)
    <3>1. /\ Append(t, x) = t \o <<x>> /\ <<x>> \in Seq(S) /\ rows \o t \in Seq(S)
          /\ Append(t, x) \in Seq(S)
      BY AppendIsConcat, AppendProperties, ConcatProperties
    <3>2. Append(rows \o t, x) = (rows \o t) \o <<x>>
      BY <3>1, AppendIsConcat
    <3> QED
      BY <3>1, <3>2, ConcatAssociative
  <2>2. ChangesOf(Append(rows \o t, x)) = ChangesOf(rows \o t) \o x.changes
    BY <2>1, ChangesAppend
  <2>3. ChangesOf(Append(t, x)) = ChangesOf(t) \o x.changes
    BY ChangesAppend
  <2>4. /\ ChangesOf(rows) \in Seq(Names \X Values) /\ ChangesOf(t) \in Seq(Names \X Values)
        /\ x.changes \in Seq(Names \X Values)
    BY ChangesType DEF Recording
  <2>5. (ChangesOf(rows) \o ChangesOf(t)) \o x.changes = ChangesOf(rows) \o (ChangesOf(t) \o x.changes)
    <3>1. \A a, b, d \in Seq(Names \X Values) : (a \o b) \o d = a \o (b \o d)
      BY ConcatAssociative, SMTT(20)
    <3> QED
      BY <2>4, <3>1
  <2> QED
    BY <1>2, <2>1, <2>2, <2>3, <2>5
<1> HIDE DEF T
<1>3. more \in T
  BY <1>1, <1>2, SeqInduction
<1> QED
  BY <1>3 DEF T

-----------------------------------------------------------------------------
(* What the output does to a row keeps it one.                             *)

LEMMA ResetType ==
  ASSUME NEW row \in Row
  PROVE  Reset(row) \in Row
<1>1. NoCells \in Cells
  BY DEF NoCells, Cells
<1>2. <<>> \in Seq(Names \X Values)
  BY EmptySeq
<1> DEFINE blank == [row EXCEPT !.line = 0, !.cells = NoCells]
           reset == [blank EXCEPT !.changes = <<>>, !.cut = 1]
<1>3. blank \in Row
  BY <1>1 DEF Row
<1>4. Reset(row) = reset
  BY Zenon DEF Reset
<1> HIDE DEF blank
<1>5. 1 \in Nat \ {0}
  OBVIOUS
<1>6. reset \in Row
  BY <1>2, <1>3, <1>5 DEF Row
<1> QED
  BY <1>4, <1>6

LEMMA RekeyedType ==
  ASSUME NEW row \in Row
  PROVE  Rekeyed(row) \in Row
<1> DEFINE dwell == IF row.cells["F"] # Null THEN row.cells["F"] ELSE row.cells["S"]
<1>1. row.cells \in Cells
  BY RowFields
<1>2. dwell \in Values \cup Words \cup {Null}
  BY <1>1 DEF Cells, Columns
<1> HIDE DEF dwell
<1>3. [row.cells EXCEPT !["F"] = Null, !["S"] = Null, !["dwell"] = dwell] \in Cells
  BY <1>1, <1>2 DEF Cells
<1>4. [row EXCEPT !.cells = [row.cells EXCEPT !["F"] = Null, !["S"] = Null, !["dwell"] = dwell]] \in Row
  BY <1>3 DEF Row
<1>5. Rekeyed(row) = row
        \/ Rekeyed(row) = [row EXCEPT !.cells = [row.cells EXCEPT !["F"] = Null, !["S"] = Null,
                                                                 !["dwell"] = dwell]]
  BY DEF Rekeyed, dwell, Row
<1> QED
  BY <1>4, <1>5

(* Rekeying moves cells; whether there are any stays the same, because the *)
(* word that makes the row a dwell is one itself.                          *)
LEMMA RekeyedKeeps ==
  ASSUME NEW row \in Row
  PROVE  /\ Rekeyed(row).line = row.line /\ Rekeyed(row).changes = row.changes
         /\ Bare(Rekeyed(row)) <=> Bare(row)
         /\ Empty(Rekeyed(row)) <=> Empty(row)
<1>1. Rekeyed(row).line = row.line /\ Rekeyed(row).changes = row.changes
  BY DEF Rekeyed, Row
<1>2. Bare(Rekeyed(row)) <=> Bare(row)
  <2>1. CASE row.cells["wait"] # "G4"
    BY <2>1 DEF Rekeyed
  <2>2. CASE row.cells["wait"] = "G4"
    <3>1. "G4" # Null
      BY NullAssumption DEF Words
    <3>2. row.cells["wait"] # Null /\ "wait" \in Columns
      BY <2>2, <3>1 DEF Columns
    <3>3. Rekeyed(row).cells["wait"] = "G4"
      BY <2>2 DEF Rekeyed, Row, Cells, Columns
    <3>4. row.cells \in Cells /\ Rekeyed(row).cells \in Cells
      BY RekeyedType, RowFields
    <3> QED
      BY <3>1, <3>2, <3>3, <3>4, BareCells
  <2> QED
    BY <2>1, <2>2
<1> QED
  BY <1>1, <1>2 DEF Empty

LEMMA WrittenType ==
  ASSUME NEW base \in Row, NEW block \in Row
  PROVE  Written(base, block) \in Row
<1> DEFINE cells == [c \in Columns |-> IF block.cells[c] # Null THEN block.cells[c] ELSE base.cells[c]]
<1>1. cells \in Cells
  BY RowFields DEF Cells
<1>2. base.changes \o block.changes \in Seq(Names \X Values)
  BY RowFields, ConcatProperties
<1> HIDE DEF cells
<1>3. [block EXCEPT !.cells = cells, !.changes = base.changes \o block.changes] \in Row
  BY <1>1, <1>2 DEF Row
<1> QED
  BY <1>3 DEF Written, cells

(* On an empty row a block writes just itself.                             *)
LEMMA WrittenFresh ==
  ASSUME NEW base \in Row, NEW block \in Row, Empty(base)
  PROVE  Written(base, block) = block
<1> DEFINE cells == [c \in Columns |-> IF block.cells[c] # Null THEN block.cells[c] ELSE base.cells[c]]
<1>1. block.cells \in Cells /\ \A c \in Columns : base.cells[c] = Null
  BY RowFields, BareCells DEF Empty
<1>2. cells = [c \in Columns |-> block.cells[c]]
  BY <1>1
<1>3. cells = block.cells
  BY <1>1, <1>2 DEF Cells
<1>4. base.changes \o block.changes = block.changes
  BY RowFields, ConcatEmptySeq DEF Empty
<1> HIDE DEF cells
<1>5. Written(base, block) = [block EXCEPT !.cells = block.cells, !.changes = block.changes]
  BY <1>3, <1>4 DEF Written, cells
<1> QED
  BY <1>5 DEF Row

LEMMA EmptyIs == Empty(EmptyRow) /\ \A row : Empty(Reset(row))
BY DEF Empty, Bare, EmptyRow, Reset

(* A block without its changes is one, too.                                *)
LEMMA UnrecordedType ==
  ASSUME NEW block \in Row
  PROVE  [block EXCEPT !.changes = <<>>] \in Row
BY EmptySeq DEF Row

LEMMA BlockRowType ==
  ASSUME NEW j, IsJob(j), NEW k \in 1..Len(j.blocks)
  PROVE  /\ j.blocks \in Seq(Row) /\ BlockRow(j, k) \in Row
         /\ BlockRow(j, k).line = k
         /\ j.record => BlockRow(j, k).changes = j.blocks[k].changes
<1>1. j.blocks \in Seq(Row)
  BY DEF IsJob, Job
<1>2. j.blocks[k] \in Row /\ k \in DOMAIN j.blocks
  BY <1>1, ElementOfSeq, LenProperties
<1>3. j.blocks[k].line = k
  BY <1>2 DEF IsJob
<1>4. [j.blocks[k] EXCEPT !.changes = <<>>] \in Row
  BY <1>2, UnrecordedType
<1>5. [j.blocks[k] EXCEPT !.changes = <<>>].line = j.blocks[k].line
  BY <1>2 DEF Row
<1> QED
  BY <1>1, <1>2, <1>3, <1>4, <1>5 DEF BlockRow

-----------------------------------------------------------------------------
(* The runs of the flattener.                                              *)

CellValues == Values \cup Words \cup {Null}

(* A run stands for a row: its line, its changes once and first, and the   *)
(* cells that are neither geometry nor motion on the first of its rows.    *)
Riding == {"F", "S", "wait", "dwell"}

RunOf(run, row) ==
  /\ run \in Seq(Row) /\ run # <<>>
  /\ \A k \in 1..Len(run) : run[k].line = row.line
  /\ run[1].changes = row.changes /\ \A k \in 2..Len(run) : run[k].changes = <<>>
  /\ \A c \in Riding : run[1].cells[c] = row.cells[c] /\ \A k \in 2..Len(run) : run[k].cells[c] = Null

(* How a run moves: to samples, each marked, and then to where it ends.    *)
Moves(run, point, mark) ==
  /\ run # <<>>
  /\ \A k \in 1..Len(run) - 1 : run[k].cells["X"] = "sample" /\ run[k].cells["flattened"] = "yes"
  /\ run[Len(run)].cells["X"] = point /\ run[Len(run)].cells["flattened"] = mark

LEMMA RunIs ==
  ASSUME NEW row \in Row, NEW n \in Nat \ {0}, NEW point \in CellValues, NEW mark \in {"yes", Null}
  PROVE  /\ Run(row, n, point, mark) \in Seq(Row) /\ Len(Run(row, n, point, mark)) = n
         /\ RunOf(Run(row, n, point, mark), row)
         /\ Moves(Run(row, n, point, mark), point, mark)
         /\ Run(row, n, point, mark)[1].cells["motion"] = "G1"
         /\ \A k \in 2..n : Run(row, n, point, mark)[k].cells["motion"] = Null
<1> DEFINE run == Run(row, n, point, mark)
           cell(k, c) == CASE c = "X"         -> IF k = n THEN point ELSE "sample"
                           [] c = "flattened" -> IF k = n THEN mark ELSE "yes"
                           [] OTHER           -> IF k = 1 THEN Aux(row)[c] ELSE Null
           changes(k) == IF k = 1 THEN row.changes ELSE <<>>
<1>1. row.line \in Nat /\ row.cells \in Cells /\ row.changes \in Seq(Names \X Values)
  BY RowFields
<1>2. run = [k \in 1..n |-> [line |-> row.line, cells |-> [c \in Columns |-> cell(k, c)],
                             changes |-> changes(k), cut |-> 1]]
  BY DEF Run
<1>3. \A k \in 1..n : \A c \in Columns : cell(k, c) \in CellValues
  <2>1. {"yes", "sample", "G1"} \subseteq Words
    BY DEF Words
  <2>2. \A c \in Columns \ {"X"} : Aux(row)[c] \in CellValues
    BY <1>1, <2>1 DEF Aux, Cells, CellValues
  <2> QED
    BY <2>1, <2>2 DEF CellValues
<1>4. \A c \in Riding : cell(1, c) = row.cells[c] /\ \A k \in 2..n : cell(k, c) = Null
  BY DEF Aux, Riding, Columns, Addresses
<1>5. cell(1, "motion") = "G1" /\ \A k \in 2..n : cell(k, "motion") = Null
  BY DEF Aux, Columns
<1>6. \A k \in 1..n : /\ cell(k, "X") = IF k = n THEN point ELSE "sample"
                      /\ cell(k, "flattened") = IF k = n THEN mark ELSE "yes"
  OBVIOUS
<1>7. \A k \in 1..n : changes(k) \in Seq(Names \X Values)
  BY <1>1, EmptySeq
<1> HIDE DEF cell
<1>8. 1 \in Nat \ {0}
  OBVIOUS
<1>9. \A k \in 1..n : [c \in Columns |-> cell(k, c)] \in Cells
  BY <1>3 DEF Cells, CellValues
<1>10. \A k \in 1..n : [line |-> row.line, cells |-> [c \in Columns |-> cell(k, c)],
                        changes |-> changes(k), cut |-> 1] \in Row
  <2> HIDE DEF changes
  <2> QED
    BY <1>1, <1>7, <1>8, <1>9 DEF Row
<1>11. run \in Seq(Row) /\ Len(run) = n
  <2>1. run \in [1..n -> Row] /\ n \in Nat
    BY <1>2, <1>10
  <2> HIDE DEF run
  <2> QED
    BY <2>1
<1>12. \A k \in 1..n : /\ run[k].line = row.line /\ run[k].changes = changes(k)
                       /\ \A c \in Columns : run[k].cells[c] = cell(k, c)
  BY <1>2
<1> HIDE DEF run
<1>13. run # <<>> /\ 1 \in 1..n /\ n \in 1..n /\ (\A k \in 2..n : k \in 1..n /\ k # 1)
       /\ (\A k \in 1..n - 1 : k \in 1..n /\ k # n)
  <2>1. run # <<>>
    BY <1>11, LenNat
  <2> QED
    BY <2>1
<1>14. RunOf(run, row)
  <2>1. Riding \subseteq Columns
    BY DEF Riding, Columns
  <2> QED
    BY <1>4, <1>11, <1>12, <1>13, <2>1 DEF RunOf
<1>15. {"X", "flattened", "motion"} \subseteq Columns
  BY DEF Columns
<1>16. Moves(run, point, mark)
  BY <1>6, <1>11, <1>12, <1>13, <1>15 DEF Moves
<1>17. run[1].cells["motion"] = "G1" /\ \A k \in 2..n : run[k].cells["motion"] = Null
  BY <1>5, <1>12, <1>13, <1>15
<1> QED
  BY <1>11, <1>14, <1>16, <1>17 DEF run

Unstated(run) == [run EXCEPT ![1].cells["motion"] = Null]

LEMMA Restated ==
  ASSUME NEW run \in Seq(Row), run # <<>>, NEW new, new = Unstated(run)
  PROVE  /\ new \in Seq(Row) /\ Len(new) = Len(run)
         /\ new[1].cells["motion"] = Null
         /\ \A k \in 1..Len(run) : /\ new[k].line = run[k].line /\ new[k].changes = run[k].changes
                                   /\ \A c \in Columns \ {"motion"} : new[k].cells[c] = run[k].cells[c]
         /\ \A k \in 2..Len(run) : new[k] = run[k]
<1> DEFINE n == Len(run)
           first == [run[1] EXCEPT !.cells = [run[1].cells EXCEPT !["motion"] = Null]]
<1>1. n \in Nat /\ n # 0 /\ 1 \in 1..n /\ run \in [1..n -> Row] /\ run[1] \in Row
  <2>1. n \in Nat /\ n # 0
    BY LenNat
  <2>2. 1 \in 1..n
    BY <2>1
  <2> QED
    BY <2>1, <2>2, LenProperties, ElementOfSeq
<1>2. run[1].cells \in Cells
  BY <1>1, RowFields
<1>3. [run[1].cells EXCEPT !["motion"] = Null] \in Cells
  BY <1>2 DEF Cells
<1>4. first \in Row
  BY <1>1, <1>3 DEF Row
<1>5. new = [run EXCEPT ![1] = first]
  BY DEF Unstated
<1>6. first.line = run[1].line /\ first.changes = run[1].changes
      /\ first.cells["motion"] = Null
      /\ \A c \in Columns \ {"motion"} : first.cells[c] = run[1].cells[c]
  BY <1>1, <1>2 DEF Row, Cells, Columns
<1> HIDE DEF first
<1>7. new \in [1..n -> Row] /\ new[1] = first /\ \A k \in 2..n : new[k] = run[k]
  BY <1>1, <1>4, <1>5
<1>8. new \in Seq(Row) /\ Len(new) = n
  <2> HIDE DEF n
  <2> QED
    BY <1>1, <1>7
<1>9. \A k \in 1..n : k = 1 \/ k \in 2..n
  BY <1>1
<1> QED
  BY <1>6, <1>7, <1>8, <1>9

LEMMA SamplesNat ==
  ASSUME NEW fl, NEW row \in Row, NEW n
  PROVE  Samples(fl, row, n) \in Nat
<1>1. row.cut \in Nat
  BY RowFields
<1>2. Samples(fl, row, n) \in {0, 1, row.cut}
  BY DEF Samples
<1> QED
  BY <1>1, <1>2

(* What the rows of a point are, whichever spline it is on.                *)
LEMMA PointRunIs ==
  ASSUME NEW fl, NEW row \in Row, NEW n, row.cells["X"] # Null
  PROVE  \E m \in Nat \ {0}, point \in CellValues, mark \in {"yes", Null} :
            /\ PointRun(fl, row, n) = Run(row, m, point, mark)
            /\ mark = "yes" => point = "sample"
            /\ fl.motion = "ASPLINE" => point = row.cells["X"] /\ mark = Null
<1> DEFINE samples == Samples(fl, row, n)
           programmed == fl.motion = "ASPLINE" \/ n = Len(PointRows(fl))
           x == row.cells["X"]
<1>1. samples \in Nat
  BY SamplesNat
<1>2. x \in CellValues /\ Null \in CellValues /\ "sample" \in CellValues
  BY RowFields DEF Cells, Columns, CellValues, Words
<1>3. PointRun(fl, row, n) =
        CASE samples = 0 -> Run(row, 1, IF fl.motion = "ASPLINE" THEN x ELSE Null, Null)
          [] samples # 0 /\ programmed -> Run(row, samples, x, Null)
          [] OTHER -> Run(row, samples, "sample", "yes")
  BY DEF PointRun
<1>4. fl.motion = "ASPLINE" => programmed
  OBVIOUS
<1>5. 1 \in Nat \ {0} /\ "yes" # Null
  BY NullAssumption DEF Words
<1> HIDE DEF samples, programmed, x
<1>6. CASE samples = 0
  <2>1. PointRun(fl, row, n) = Run(row, 1, IF fl.motion = "ASPLINE" THEN x ELSE Null, Null)
    BY <1>3, <1>6
  <2> QED
    BY <1>2, <1>5, <2>1 DEF x
<1>7. CASE samples # 0 /\ programmed
  <2>1. PointRun(fl, row, n) = Run(row, samples, x, Null)
    BY <1>3, <1>7
  <2>2. samples \in Nat \ {0}
    BY <1>1, <1>7
  <2> QED
    BY <1>2, <1>5, <2>1, <2>2 DEF x
<1>8. CASE samples # 0 /\ ~programmed
  <2>1. PointRun(fl, row, n) = Run(row, samples, "sample", "yes")
    BY <1>3, <1>8
  <2>2. samples \in Nat \ {0}
    BY <1>1, <1>8
  <2> QED
    BY <1>2, <1>4, <1>8, <2>1, <2>2
<1> QED
  BY <1>6, <1>7, <1>8

(* Only the first point of a spline states a motion.                       *)
LEMMA StatedRunIs ==
  ASSUME NEW fl, NEW row \in Row, NEW n, row.cells["X"] # Null
  PROVE  /\ StatedRun(fl, row, n) \in Seq(Row)
         /\ RunOf(StatedRun(fl, row, n), row)
         /\ fl.motion = "ASPLINE" => Moves(StatedRun(fl, row, n), row.cells["X"], Null)
         /\ \E point \in CellValues, mark \in {"yes", Null} : Moves(StatedRun(fl, row, n), point, mark)
         /\ StatedRun(fl, row, n)[1].cells["motion"] = IF n = 1 THEN "G1" ELSE Null
         /\ \A k \in 2..Len(StatedRun(fl, row, n)) : StatedRun(fl, row, n)[k].cells["motion"] = Null
<1> DEFINE old == PointRun(fl, row, n)
           new == StatedRun(fl, row, n)
<1>1. PICK m \in Nat \ {0}, point \in CellValues, mark \in {"yes", Null} :
            /\ old = Run(row, m, point, mark)
            /\ fl.motion = "ASPLINE" => point = row.cells["X"] /\ mark = Null
  BY PointRunIs
<1>2. /\ old \in Seq(Row) /\ Len(old) = m /\ RunOf(old, row) /\ Moves(old, point, mark)
      /\ old[1].cells["motion"] = "G1" /\ \A k \in 2..m : old[k].cells["motion"] = Null
  BY <1>1, RunIs
<1>3. CASE n = 1
  <2>1. new = old
    BY <1>3 DEF StatedRun
  <2> QED
    BY <1>1, <1>2, <1>3, <2>1
<1>4. CASE n # 1
  <2>1. new = Unstated(old)
    BY <1>4 DEF StatedRun, Unstated
  <2>2. old # <<>>
    BY <1>2 DEF RunOf
  <2>20. old \in Seq(Row) /\ Len(old) = m
    BY <1>2
  <2> HIDE DEF old, new
  <2>3. /\ new \in Seq(Row) /\ Len(new) = m
        /\ new[1].cells["motion"] = Null
        /\ \A k \in 1..m : /\ new[k].line = old[k].line /\ new[k].changes = old[k].changes
                           /\ \A c \in Columns \ {"motion"} : new[k].cells[c] = old[k].cells[c]
        /\ \A k \in 2..m : new[k] = old[k]
    BY <2>1, <2>2, <2>20, Restated
  <2>4. new # <<>> /\ 1 \in 1..m /\ m \in 1..m /\ \A k \in 2..m : k \in 1..m
    BY <2>3, LenNat
  <2>5. Riding \subseteq Columns \ {"motion"} /\ {"X", "flattened"} \subseteq Columns \ {"motion"}
    BY DEF Riding, Columns
  <2>6. RunOf(new, row)
    BY <1>2, <2>3, <2>4, <2>5 DEF RunOf
  <2>7. Moves(new, point, mark)
    <3>1. \A k \in 1..m - 1 : k \in 1..m
      BY <2>4
    <3> QED
      BY <1>2, <2>3, <2>4, <2>5, <3>1 DEF Moves
  <2>8. \A k \in 2..m : new[k].cells["motion"] = Null
    BY <1>2, <2>3
  <2> QED
    BY <1>1, <1>4, <2>3, <2>6, <2>7, <2>8 DEF new
<1> QED
  BY <1>3, <1>4

-----------------------------------------------------------------------------
(* Flushing a spline, row by row.                                          *)

FlushState == [points : Nat, out : Seq(Row)]

FlushesAlong(f, fl) ==
  /\ f \in [0..Len(fl.buffer) -> FlushState]
  /\ f[0] = [points |-> 0, out |-> <<>>]
  /\ \A i \in 1..Len(fl.buffer) :
       f[i] = IF IsPoint(fl.buffer[i])
              THEN [points |-> f[i - 1].points + 1,
                    out |-> f[i - 1].out \o StatedRun(fl, fl.buffer[i], f[i - 1].points + 1)]
              ELSE [points |-> f[i - 1].points, out |-> Append(f[i - 1].out, fl.buffer[i])]

LEMMA FlushWalk ==
  ASSUME NEW fl, fl.buffer \in Seq(Row)
  PROVE  \E f : FlushesAlong(f, fl) /\ FlushedSpline(fl) = f[Len(fl.buffer)].out
<1> DEFINE n == Len(fl.buffer)
           V == FlushState
           base == [points |-> 0, out |-> <<>>]
           step(i, v) == IF IsPoint(fl.buffer[i])
                         THEN [points |-> v.points + 1,
                               out |-> v.out \o StatedRun(fl, fl.buffer[i], v.points + 1)]
                         ELSE [points |-> v.points, out |-> Append(v.out, fl.buffer[i])]
           G == [iv \in (1..n) \X V |-> step(iv[1], iv[2])]
           c == CHOOSE f : f = [i \in 0..n |-> IF i = 0 THEN base ELSE step(i, f[i - 1])]
<1>1. n \in Nat /\ \A i \in 1..n : fl.buffer[i] \in Row
  BY LenNat, ElementOfSeq
<1>2. base \in V
  BY EmptySeq DEF FlushState
<1>3. ASSUME NEW i \in 1..n, NEW v \in V PROVE step(i, v) \in V
  <2>1. v.points \in Nat /\ v.out \in Seq(Row) /\ fl.buffer[i] \in Row
    BY <1>1, <1>3 DEF FlushState
  <2>2. CASE IsPoint(fl.buffer[i])
    <3>1. StatedRun(fl, fl.buffer[i], v.points + 1) \in Seq(Row)
      BY <2>1, <2>2, StatedRunIs DEF IsPoint
    <3>2. v.out \o StatedRun(fl, fl.buffer[i], v.points + 1) \in Seq(Row)
      BY <2>1, <3>1, ConcatProperties
    <3> QED
      BY <2>1, <2>2, <3>2 DEF FlushState
  <2>3. CASE ~IsPoint(fl.buffer[i])
    <3>1. Append(v.out, fl.buffer[i]) \in Seq(Row)
      BY <2>1, AppendProperties
    <3> QED
      BY <2>1, <2>3, <3>1 DEF FlushState
  <2> QED
    BY <2>2, <2>3
<1>4. FlushedSpline(fl) = c[n].out
  BY DEF FlushedSpline
<1> HIDE DEF step, V, base
<1>5. \A iv \in (1..n) \X V : G[iv] \in V
  BY <1>3
<1>6. IsStep(G, n, V)
  BY <1>5 DEF IsStep
<1>7. \A i \in 1..n : \A v \in V : G[<<i, v>>] = step(i, v)
  OBVIOUS
<1> HIDE DEF G
<1>8. PICK f \in [0..n -> V] : f[0] = base /\ \A i \in 1..n : f[i] = G[<<i, f[i - 1]>>]
  <2> HIDE DEF n, c
  <2>1. \E f : IsWalk(f, n, V, base, G)
    BY <1>1, <1>2, <1>6, Recursion
  <2> QED
    BY <2>1 DEF IsWalk
<1>9. \A i \in 1..n : f[i] = step(i, f[i - 1])
  <2> SUFFICES ASSUME NEW i \in 1..n PROVE f[i] = step(i, f[i - 1])
    OBVIOUS
  <2>1. i - 1 \in 0..n
    BY <1>1
  <2>2. f[i - 1] \in V
    BY <1>8, <2>1
  <2> QED
    BY <1>7, <1>8, <2>2
<1>10. f = [i \in 0..n |-> IF i = 0 THEN base ELSE step(i, f[i - 1])]
  <2>1. \A i \in 0..n : f[i] = IF i = 0 THEN base ELSE step(i, f[i - 1])
    <3> SUFFICES ASSUME NEW i \in 0..n, i # 0 PROVE f[i] = step(i, f[i - 1])
      BY <1>8
    <3>1. i \in 1..n
      BY <1>1
    <3> QED
      BY <1>9, <3>1
  <2> QED
    BY <1>8, <2>1
<1>11. c = [i \in 0..n |-> IF i = 0 THEN base ELSE step(i, c[i - 1])]
  BY <1>10
<1> HIDE DEF c
<1>12. c[0] = base /\ \A i \in 1..n : c[i] = step(i, c[i - 1])
  <2> HIDE DEF n
  <2>1. \A i \in 0..n : c[i] = IF i = 0 THEN base ELSE step(i, c[i - 1])
    BY <1>11
  <2>2. 0 \in 0..n /\ \A i \in 1..n : i \in 0..n /\ i # 0
    BY <1>1
  <2> QED
    BY <2>1, <2>2
<1> DEFINE M == {k \in Nat : k <= n => c[k] = f[k]}
<1>13. 0 \in M
  BY <1>8, <1>12
<1>14. ASSUME NEW k \in Nat, k \in M PROVE k + 1 \in M
  <2>1. k + 1 <= n => k + 1 \in 1..n /\ (k + 1) - 1 = k /\ c[k] = f[k]
    BY <1>1, <1>14
  <2> QED
    BY <1>9, <1>12, <2>1
<1> HIDE DEF M
<1>15. n \in M
  BY <1>1, <1>13, <1>14, SetInduction
<1>16. c[n] = f[n]
  BY <1>1, <1>15 DEF M
<1>17. FlushesAlong(f, fl)
  BY <1>8, <1>9 DEF FlushesAlong, V, base, step
<1> QED
  BY <1>4, <1>16, <1>17

-----------------------------------------------------------------------------
(* Growing sequences and their prefixes.                                   *)

LEMMA Grown ==
  ASSUME NEW S, NEW s \in Seq(S), NEW x \in S
  PROVE  /\ Len(s) \in Nat /\ Append(s, x) \in Seq(S) /\ Append(s, x) # <<>>
         /\ Len(Append(s, x)) = Len(s) + 1 /\ Append(s, x)[Len(s) + 1] = x
         /\ \A i \in 1..Len(s) : Append(s, x)[i] = s[i]
BY LenNat, AppendProperties

LEMMA ConcatAppend ==
  ASSUME NEW S, NEW s \in Seq(S), NEW t \in Seq(S), NEW x \in S
  PROVE  s \o Append(t, x) = Append(s \o t, x) /\ s \o t \in Seq(S)
<1>1. /\ Append(t, x) = t \o <<x>> /\ <<x>> \in Seq(S) /\ s \o t \in Seq(S)
  BY AppendIsConcat, ConcatProperties
<1>2. Append(s \o t, x) = (s \o t) \o <<x>>
  BY <1>1, AppendIsConcat
<1> QED
  BY <1>1, <1>2, ConcatAssociative

LEMMA PrefixType ==
  ASSUME NEW S, NEW s \in Seq(S), NEW n \in 0..Len(s)
  PROVE  /\ SubSeq(s, 1, n) \in Seq(S) /\ Len(SubSeq(s, 1, n)) = n
         /\ \A i \in 1..n : SubSeq(s, 1, n)[i] = s[i]
<1>1. Len(s) \in Nat /\ n \in Nat
  BY LenNat
<1>2. \A i \in 1..n : s[i] \in S
  BY <1>1, ElementOfSeq
<1>3. /\ SubSeq(s, 1, n) \in Seq(S)
      /\ Len(SubSeq(s, 1, n)) = IF 1 <= n THEN n - 1 + 1 ELSE 0
      /\ \A i \in 1..n - 1 + 1 : SubSeq(s, 1, n)[i] = s[1 + i - 1]
  BY <1>1, <1>2, SubSeqProperties
<1> QED
  BY <1>1, <1>3

(* Sequences that begin alike have the same prefixes.                      *)
LEMMA PrefixSame ==
  ASSUME NEW S, NEW s \in Seq(S), NEW t \in Seq(S), NEW n \in Nat, n <= Len(s), n <= Len(t),
         \A i \in 1..n : s[i] = t[i]
  PROVE  SubSeq(s, 1, n) = SubSeq(t, 1, n)
<1>1. n \in 0..Len(s) /\ n \in 0..Len(t)
  BY LenNat
<1>2. /\ SubSeq(s, 1, n) \in Seq(S) /\ Len(SubSeq(s, 1, n)) = n
      /\ \A i \in 1..n : SubSeq(s, 1, n)[i] = s[i]
  BY <1>1, PrefixType
<1>3. /\ SubSeq(t, 1, n) \in Seq(S) /\ Len(SubSeq(t, 1, n)) = n
      /\ \A i \in 1..n : SubSeq(t, 1, n)[i] = t[i]
  BY <1>1, PrefixType
<1>4. Len(SubSeq(s, 1, n)) = Len(SubSeq(t, 1, n))
      /\ \A i \in 1..Len(SubSeq(s, 1, n)) : SubSeq(s, 1, n)[i] = SubSeq(t, 1, n)[i]
  BY <1>2, <1>3
<1> QED
  BY <1>2, <1>3, <1>4, SeqEqual

LEMMA PrefixNext ==
  ASSUME NEW S, NEW s \in Seq(S), NEW n \in 1..Len(s)
  PROVE  SubSeq(s, 1, n) = Append(SubSeq(s, 1, n - 1), s[n])
<1>1. Len(s) \in Nat /\ n - 1 \in 0..Len(s) /\ n \in 0..Len(s) /\ s[n] \in S /\ n \in 1..n
  BY LenNat, ElementOfSeq
<1>2. /\ SubSeq(s, 1, n) \in Seq(S) /\ Len(SubSeq(s, 1, n)) = n
      /\ \A i \in 1..n : SubSeq(s, 1, n)[i] = s[i]
  BY <1>1, PrefixType
<1>3. /\ SubSeq(s, 1, n - 1) \in Seq(S) /\ Len(SubSeq(s, 1, n - 1)) = n - 1
      /\ \A i \in 1..n - 1 : SubSeq(s, 1, n - 1)[i] = s[i]
  BY <1>1, PrefixType
<1> DEFINE t == Append(SubSeq(s, 1, n - 1), s[n])
<1>4. /\ t \in Seq(S) /\ Len(t) = n /\ t[n] = s[n]
      /\ \A i \in 1..n - 1 : t[i] = s[i]
  BY <1>1, <1>3, Grown
<1> HIDE DEF t
<1>5. \A i \in 1..n : i = n \/ i \in 1..n - 1
  BY <1>1
<1>6. Len(SubSeq(s, 1, n)) = Len(t) /\ \A i \in 1..Len(SubSeq(s, 1, n)) : SubSeq(s, 1, n)[i] = t[i]
  BY <1>2, <1>4, <1>5
<1>7. SubSeq(s, 1, n) = t
  BY <1>2, <1>4, <1>6, SeqEqual
<1> QED
  BY <1>7 DEF t

-----------------------------------------------------------------------------
(* What the rows a flattener lets out have in common with the rows pushed. *)

(* Read up to row j of out, everything is as up to row i of done.          *)
Reads(out, j, done, i) ==
  /\ out[j].line = done[i].line
  /\ ChangesOf(SubSeq(out, 1, j)) = ChangesOf(SubSeq(done, 1, i))
  /\ \A c \in {"F", "S"} : LastIn(out, j, c) = LastIn(done, i, c)

Ascending(rows) == \A i, j \in 1..Len(rows) : i <= j => rows[i].line <= rows[j].line

Follows(out, done) ==
  /\ out \in Seq(Row) /\ done \in Seq(Row)
  /\ out = <<>> <=> done = <<>>
  /\ ChangesOf(out) = ChangesOf(done)
  /\ \A c \in {"F", "S"} : LastIn(out, Len(out), c) = LastIn(done, Len(done), c)
  /\ \A j \in 1..Len(out) : \E i \in 1..Len(done) : Reads(out, j, done, i)
  /\ \A i \in 1..Len(done) : \E j \in 1..Len(out) : out[j].line = done[i].line
  /\ Ascending(out)

UpToLine(rows, n) == \A i \in 1..Len(rows) : rows[i].line <= n

LEMMA RowsRecord == Recording(Row)
BY RowFields DEF Recording

LEMMA ReadsStays ==
  ASSUME NEW out \in Seq(Row), NEW done \in Seq(Row), NEW x \in Row, NEW y \in Row,
         NEW j \in 1..Len(out), NEW i \in 1..Len(done), Reads(out, j, done, i)
  PROVE  Reads(Append(out, x), j, Append(done, y), i) /\ Reads(Append(out, x), j, done, i)
<1> DEFINE o == Append(out, x)
           d == Append(done, y)
<1>1. /\ o \in Seq(Row) /\ Len(o) = Len(out) + 1 /\ Len(out) \in Nat
      /\ \A k \in 1..Len(out) : o[k] = out[k]
  BY Grown
<1>2. /\ d \in Seq(Row) /\ Len(d) = Len(done) + 1 /\ Len(done) \in Nat
      /\ \A k \in 1..Len(done) : d[k] = done[k]
  BY Grown
<1> HIDE DEF o, d
<1>3. /\ j \in Nat /\ j <= Len(out) /\ j <= Len(o) /\ \A k \in 1..j : o[k] = out[k]
      /\ i \in Nat /\ i <= Len(done) /\ i <= Len(d) /\ \A k \in 1..i : d[k] = done[k]
  BY <1>1, <1>2
<1>4. SubSeq(o, 1, j) = SubSeq(out, 1, j)
  BY <1>1, <1>3, PrefixSame
<1>5. SubSeq(d, 1, i) = SubSeq(done, 1, i)
  BY <1>2, <1>3, PrefixSame
<1>6. \A c : LastIn(o, j, c) = LastIn(out, j, c) /\ LastIn(d, i, c) = LastIn(done, i, c)
  BY <1>3, LastInBefore
<1>7. o[j] = out[j] /\ d[i] = done[i]
  BY <1>1, <1>2
<1> QED
  BY <1>4, <1>5, <1>6, <1>7 DEF Reads, o, d

LEMMA LastGrown ==
  ASSUME NEW rows \in Seq(Row), NEW x \in Row, NEW c
  PROVE  LastIn(Append(rows, x), Len(rows) + 1, c) =
           IF x.cells[c] # Null THEN x.cells[c] ELSE LastIn(rows, Len(rows), c)
<1> DEFINE o == Append(rows, x)
           n == Len(rows)
<1>1. n \in Nat /\ o[n + 1] = x /\ \A i \in 1..n : o[i] = rows[i]
  BY Grown
<1> HIDE DEF o, n
<1>2. LastIn(o, n, c) = LastIn(rows, n, c)
  BY <1>1, LastInBefore
<1>3. LastIn(o, n + 1, c) = IF o[n + 1].cells[c] # Null THEN o[n + 1].cells[c] ELSE LastIn(o, n, c)
  BY <1>1, LastInNext
<1>4. LastIn(o, n + 1, c) = IF x.cells[c] # Null THEN x.cells[c] ELSE LastIn(rows, n, c)
  BY <1>1, <1>2, <1>3
<1> QED
  BY <1>4 DEF o, n

(* A row that stands for the one pushed.                                   *)
LEMMA FollowsHead ==
  ASSUME NEW out, NEW done, Follows(out, done), NEW row \in Row, NEW first \in Row,
         UpToLine(done, row.line), first.line = row.line, first.changes = row.changes,
         \A c \in {"F", "S"} : first.cells[c] = row.cells[c]
  PROVE  Follows(Append(out, first), Append(done, row))
<1> DEFINE o == Append(out, first)
           d == Append(done, row)
           m == Len(out)
           n == Len(done)
<1>1. /\ out \in Seq(Row) /\ m \in Nat /\ o \in Seq(Row) /\ o # <<>> /\ Len(o) = m + 1
      /\ o[m + 1] = first /\ \A k \in 1..m : o[k] = out[k]
  <2>1. out \in Seq(Row)
    BY DEF Follows
  <2> QED
    BY <2>1, Grown
<1>2. /\ done \in Seq(Row) /\ n \in Nat /\ d \in Seq(Row) /\ d # <<>> /\ Len(d) = n + 1
      /\ d[n + 1] = row /\ \A k \in 1..n : d[k] = done[k]
  <2>1. done \in Seq(Row)
    BY DEF Follows
  <2> QED
    BY <2>1, Grown
<1>3. ChangesOf(o) = ChangesOf(d)
  <2>1. ChangesOf(o) = ChangesOf(out) \o first.changes
    BY <1>1, RowsRecord, ChangesAppend
  <2>2. ChangesOf(d) = ChangesOf(done) \o row.changes
    BY <1>2, RowsRecord, ChangesAppend
  <2> QED
    BY <2>1, <2>2 DEF Follows
<1>4. \A c \in {"F", "S"} : LastIn(o, m + 1, c) = LastIn(d, n + 1, c)
  <2>1. \A c : LastIn(o, m + 1, c) = IF first.cells[c] # Null THEN first.cells[c] ELSE LastIn(out, m, c)
    BY <1>1, LastGrown
  <2>2. \A c : LastIn(d, n + 1, c) = IF row.cells[c] # Null THEN row.cells[c] ELSE LastIn(done, n, c)
    BY <1>2, LastGrown
  <2>3. \A c \in {"F", "S"} : LastIn(out, m, c) = LastIn(done, n, c)
    BY DEF Follows
  <2> HIDE DEF o, d, m, n
  <2> QED
    BY <2>1, <2>2, <2>3
<1>5. ASSUME NEW j \in 1..m, NEW i \in 1..n, Reads(out, j, done, i) PROVE Reads(o, j, d, i)
  BY <1>1, <1>2, <1>5, ReadsStays
<1> HIDE DEF o, d
<1>6. Reads(o, m + 1, d, n + 1)
  <2>1. SubSeq(o, 1, m + 1) = o /\ SubSeq(d, 1, n + 1) = d
    BY <1>1, <1>2, SubSeqFull
  <2> QED
    BY <1>1, <1>2, <1>3, <1>4, <2>1 DEF Reads
<1>7. \A j \in 1..m + 1 : \E i \in 1..n + 1 : Reads(o, j, d, i)
  <2> SUFFICES ASSUME NEW j \in 1..m + 1 PROVE \E i \in 1..n + 1 : Reads(o, j, d, i)
    OBVIOUS
  <2>1. CASE j \in 1..m
    <3>1. PICK i \in 1..n : Reads(out, j, done, i)
      BY <2>1 DEF Follows
    <3>2. Reads(o, j, d, i) /\ i \in 1..n + 1
      BY <1>2, <1>5, <2>1, <3>1
    <3> QED
      BY <3>2
  <2>2. CASE j \notin 1..m
    <3>1. j = m + 1 /\ n + 1 \in 1..n + 1
      BY <1>1, <1>2, <2>2
    <3> QED
      BY <1>6, <3>1
  <2> QED
    BY <2>1, <2>2
<1>8. \A i \in 1..n + 1 : \E j \in 1..m + 1 : o[j].line = d[i].line
  <2> SUFFICES ASSUME NEW i \in 1..n + 1 PROVE \E j \in 1..m + 1 : o[j].line = d[i].line
    OBVIOUS
  <2>1. CASE i \in 1..n
    <3>1. PICK j \in 1..m : out[j].line = done[i].line
      BY <2>1 DEF Follows
    <3>2. j \in 1..m + 1 /\ o[j] = out[j] /\ d[i] = done[i]
      BY <1>1, <1>2, <2>1
    <3> QED
      BY <3>1, <3>2
  <2>2. CASE i \notin 1..n
    <3>1. i = n + 1 /\ m + 1 \in 1..m + 1
      BY <1>1, <1>2, <2>2
    <3> QED
      BY <1>1, <1>2, <3>1
  <2> QED
    BY <2>1, <2>2
<1>9. \A i, j \in 1..m + 1 : i <= j => o[i].line <= o[j].line
  <2> SUFFICES ASSUME NEW i \in 1..m + 1, NEW j \in 1..m + 1, i <= j PROVE o[i].line <= o[j].line
    OBVIOUS
  <2>1. CASE j \in 1..m
    <3>1. i \in 1..m /\ o[i] = out[i] /\ o[j] = out[j]
      BY <1>1, <2>1
    <3> QED
      BY <2>1, <3>1 DEF Follows, Ascending
  <2>2. CASE i \in 1..m /\ j \notin 1..m
    <3>1. PICK k \in 1..n : Reads(out, i, done, k)
      BY <2>2 DEF Follows
    <3>2. j = m + 1 /\ o[i] = out[i] /\ out[i].line = done[k].line /\ done[k].line <= row.line
      BY <1>1, <2>2, <3>1 DEF Reads, UpToLine
    <3> QED
      BY <1>1, <3>2
  <2>3. CASE i \notin 1..m /\ j \notin 1..m
    <3>1. i = m + 1 /\ j = m + 1
      BY <1>1, <2>3
    <3>2. first.line \in Nat
      BY RowFields
    <3> QED
      BY <1>1, <3>1, <3>2
  <2>4. i \in 1..m \/ j \notin 1..m
    BY <1>1
  <2> QED
    BY <2>1, <2>2, <2>3, <2>4
<1>10. Follows(o, d)
  BY <1>1, <1>2, <1>3, <1>4, <1>7, <1>8, <1>9 DEF Follows, Ascending
<1> QED
  BY <1>10 DEF o, d

(* A further row of the run of the last row pushed.                        *)
LEMMA FollowsMore ==
  ASSUME NEW out, NEW done, Follows(out, done), NEW more \in Row, done # <<>>,
         UpToLine(done, more.line), more.line = done[Len(done)].line, more.changes = <<>>,
         \A c \in {"F", "S"} : more.cells[c] = Null
  PROVE  Follows(Append(out, more), done)
<1> DEFINE o == Append(out, more)
           m == Len(out)
           n == Len(done)
<1>1. /\ out \in Seq(Row) /\ m \in Nat /\ o \in Seq(Row) /\ o # <<>> /\ Len(o) = m + 1
      /\ o[m + 1] = more /\ \A k \in 1..m : o[k] = out[k]
  <2>1. out \in Seq(Row)
    BY DEF Follows
  <2> QED
    BY <2>1, Grown
<1>2. /\ done \in Seq(Row) /\ n \in Nat /\ n \in 1..n
  <2>1. done \in Seq(Row) /\ n \in Nat /\ n # 0
    BY LenNat DEF Follows
  <2> QED
    BY <2>1
<1>3. ChangesOf(o) = ChangesOf(done)
  <2>1. ChangesOf(o) = ChangesOf(out) \o more.changes
    BY <1>1, RowsRecord, ChangesAppend
  <2>2. ChangesOf(out) \in Seq(Names \X Values)
    BY <1>1, RowsRecord, ChangesType
  <2> QED
    BY <2>1, <2>2, ConcatEmptySeq DEF Follows
<1>4. \A c \in {"F", "S"} : LastIn(o, m + 1, c) = LastIn(done, n, c)
  <2>1. \A c : LastIn(o, m + 1, c) = IF more.cells[c] # Null THEN more.cells[c] ELSE LastIn(out, m, c)
    BY <1>1, LastGrown
  <2>2. \A c \in {"F", "S"} : LastIn(out, m, c) = LastIn(done, n, c)
    BY DEF Follows
  <2> HIDE DEF o, m, n
  <2> QED
    BY <2>1, <2>2
<1>5. ASSUME NEW j \in 1..m, NEW i \in 1..n, Reads(out, j, done, i) PROVE Reads(o, j, done, i)
  BY <1>1, <1>2, <1>5, ReadsStays
<1> HIDE DEF o
<1>6. Reads(o, m + 1, done, n)
  <2>1. SubSeq(o, 1, m + 1) = o /\ SubSeq(done, 1, n) = done
    BY <1>1, <1>2, SubSeqFull
  <2> QED
    BY <1>1, <1>3, <1>4, <2>1 DEF Reads
<1>7. \A j \in 1..m + 1 : \E i \in 1..n : Reads(o, j, done, i)
  <2> SUFFICES ASSUME NEW j \in 1..m + 1 PROVE \E i \in 1..n : Reads(o, j, done, i)
    OBVIOUS
  <2>1. CASE j \in 1..m
    BY <1>5, <2>1 DEF Follows
  <2>2. CASE j \notin 1..m
    <3>1. j = m + 1
      BY <1>1, <2>2
    <3> QED
      BY <1>2, <1>6, <3>1
  <2> QED
    BY <2>1, <2>2
<1>8. \A i \in 1..n : \E j \in 1..m + 1 : o[j].line = done[i].line
  <2> SUFFICES ASSUME NEW i \in 1..n PROVE \E j \in 1..m + 1 : o[j].line = done[i].line
    OBVIOUS
  <2>1. PICK j \in 1..m : out[j].line = done[i].line
    BY DEF Follows
  <2>2. j \in 1..m + 1 /\ o[j] = out[j]
    BY <1>1
  <2> QED
    BY <2>1, <2>2
<1>9. \A i, j \in 1..m + 1 : i <= j => o[i].line <= o[j].line
  <2> SUFFICES ASSUME NEW i \in 1..m + 1, NEW j \in 1..m + 1, i <= j PROVE o[i].line <= o[j].line
    OBVIOUS
  <2>1. CASE j \in 1..m
    <3>1. i \in 1..m /\ o[i] = out[i] /\ o[j] = out[j]
      BY <1>1, <2>1
    <3> QED
      BY <2>1, <3>1 DEF Follows, Ascending
  <2>2. CASE j \notin 1..m
    <3>1. PICK k \in 1..n : Reads(o, i, done, k)
      BY <1>7
    <3>2. j = m + 1 /\ o[i].line = done[k].line /\ done[k].line <= more.line
      BY <1>1, <2>2, <3>1 DEF Reads, UpToLine
    <3> QED
      BY <1>1, <3>2
  <2> QED
    BY <2>1, <2>2
<1>10. done # <<>>
  OBVIOUS
<1>11. Follows(o, done)
  BY <1>1, <1>2, <1>3, <1>4, <1>7, <1>8, <1>9, <1>10 DEF Follows, Ascending
<1> QED
  BY <1>11 DEF o

LEMMA RidingHas == {"F", "S"} \subseteq Riding
BY DEF Riding

LEMMA FollowsRun ==
  ASSUME NEW out, NEW done, Follows(out, done), NEW row \in Row, UpToLine(done, row.line),
         NEW run, RunOf(run, row)
  PROVE  Follows(out \o run, Append(done, row))
<1> DEFINE T == {s \in Seq(Row) : RunOf(s, row) => Follows(out \o s, Append(done, row))}
           all == Append(done, row)
<1>1. out \in Seq(Row) /\ done \in Seq(Row) /\ run \in Seq(Row)
  BY DEF Follows, RunOf
<1>2. /\ Len(done) \in Nat /\ all \in Seq(Row) /\ all # <<>> /\ Len(all) = Len(done) + 1
      /\ all[Len(all)] = row /\ \A i \in 1..Len(done) : all[i] = done[i]
  BY <1>1, Grown
<1> HIDE DEF all
<1>3. UpToLine(all, row.line)
  <2>1. row.line \in Nat
    BY RowFields
  <2>2. \A i \in 1..Len(all) : i \in 1..Len(done) \/ i = Len(all)
    BY <1>2
  <2> QED
    BY <1>2, <2>1, <2>2 DEF UpToLine
<1>4. <<>> \in T
  BY EmptySeq DEF RunOf
<1>5. ASSUME NEW s \in Seq(Row), NEW x \in Row, s \in T PROVE Append(s, x) \in T
  <2> DEFINE t == Append(s, x)
  <2>1. /\ Len(s) \in Nat /\ t \in Seq(Row) /\ Len(t) = Len(s) + 1 /\ t[Len(s) + 1] = x
        /\ \A i \in 1..Len(s) : t[i] = s[i]
    BY Grown
  <2>2. out \o t = Append(out \o s, x)
    BY <1>1, ConcatAppend
  <2> HIDE DEF t
  <2>3. SUFFICES ASSUME RunOf(t, row) PROVE Follows(out \o t, all)
    BY <2>1 DEF t, all
  <2>4. CASE s = <<>>
    <3>1. Len(s) = 0 /\ out \o s = out
      BY <1>1, <2>4, EmptySeq, ConcatEmptySeq
    <3>2. 1 \in 1..Len(t) /\ t[1] = x
      BY <2>1, <3>1
    <3>3. x.line = row.line /\ x.changes = row.changes /\ \A c \in {"F", "S"} : x.cells[c] = row.cells[c]
      BY <2>3, <3>2, RidingHas DEF RunOf
    <3>4. Follows(Append(out, x), Append(done, row))
      BY <3>3, FollowsHead
    <3> QED
      BY <2>2, <3>1, <3>4 DEF all
  <2>5. CASE s # <<>>
    <3>1. Len(s) # 0 /\ 1 \in 1..Len(s)
      <4>1. Len(s) # 0
        BY <2>5, LenNat
      <4> QED
        BY <2>1, <4>1
    <3>2. /\ \A k \in 1..Len(s) : k \in 1..Len(t) /\ t[k] = s[k]
          /\ \A k \in 2..Len(s) : k \in 2..Len(t) /\ t[k] = s[k]
          /\ Len(s) + 1 \in 2..Len(t) /\ Len(s) + 1 \in 1..Len(t)
      BY <2>1, <3>1
    <3>3. RunOf(s, row)
      BY <2>3, <2>5, <3>1, <3>2, SMTT(20) DEF RunOf
    <3>4. x.line = row.line /\ x.changes = <<>> /\ \A c \in {"F", "S"} : x.cells[c] = Null
      BY <2>1, <2>3, <3>2, RidingHas DEF RunOf
    <3>5. Follows(out \o s, all)
      BY <1>5, <3>3 DEF all
    <3>6. UpToLine(all, x.line) /\ x.line = all[Len(all)].line
      BY <1>2, <1>3, <3>4
    <3>7. Follows(Append(out \o s, x), all)
      BY <1>2, <3>4, <3>5, <3>6, FollowsMore
    <3> QED
      BY <2>2, <3>7
  <2> QED
    BY <2>4, <2>5
<1> HIDE DEF T
<1>6. run \in T
  BY <1>1, <1>4, <1>5, SeqInduction
<1> QED
  BY <1>6 DEF T

(* A row let out as it is.                                                 *)
LEMMA FollowsSame ==
  ASSUME NEW out, NEW done, Follows(out, done), NEW row \in Row, UpToLine(done, row.line)
  PROVE  Follows(Append(out, row), Append(done, row))
BY FollowsHead

LEMMA FollowsNone == Follows(<<>>, <<>>)
<1>1. <<>> \in Seq(Row) /\ Len(<<>>) = 0
  BY EmptySeq
<1> QED
  BY <1>1 DEF Follows, Ascending

-----------------------------------------------------------------------------
(* Lines in ascending order.                                               *)

LEMMA AscendingAppend ==
  ASSUME NEW rows \in Seq(Row), NEW row \in Row, Ascending(rows), UpToLine(rows, row.line)
  PROVE  Ascending(Append(rows, row)) /\ UpToLine(Append(rows, row), row.line)
<1> DEFINE t == Append(rows, row)
           n == Len(rows)
<1>1. n \in Nat /\ Len(t) = n + 1 /\ t[n + 1] = row /\ \A i \in 1..n : t[i] = rows[i]
  BY Grown
<1>2. row.line \in Nat
  BY RowFields
<1> HIDE DEF t
<1>3. \A i \in 1..Len(t) : i = n + 1 \/ i \in 1..n
  BY <1>1
<1>4. \A i \in 1..Len(t) : t[i].line <= row.line
  BY <1>1, <1>2, <1>3 DEF UpToLine, n
<1>5. ASSUME NEW i \in 1..Len(t), NEW j \in 1..Len(t), i <= j PROVE t[i].line <= t[j].line
  <2>1. CASE j = n + 1
    BY <1>1, <1>4, <2>1
  <2>2. CASE j \in 1..n
    <3>1. i \in 1..n
      BY <1>1, <1>5, <2>2
    <3> QED
      BY <1>1, <1>5, <2>2, <3>1 DEF Ascending, n
  <2> QED
    BY <1>3, <2>1, <2>2
<1> QED
  BY <1>4, <1>5 DEF Ascending, UpToLine, t

(* The rows before a part of them and the next one.                        *)
LEMMA AscendingSplit ==
  ASSUME NEW rows \in Seq(Row), NEW more \in Seq(Row), Ascending(rows \o more), NEW k \in 1..Len(more)
  PROVE  UpToLine(rows \o SubSeq(more, 1, k - 1), more[k].line)
<1> DEFINE n == Len(rows)
           all == rows \o more
           some == SubSeq(more, 1, k - 1)
           front == rows \o some
<1>1. n \in Nat /\ Len(more) \in Nat /\ k - 1 \in 0..Len(more)
  BY LenNat
<1>2. some \in Seq(Row) /\ Len(some) = k - 1 /\ \A i \in 1..k - 1 : some[i] = more[i]
  BY <1>1, PrefixType
<1> HIDE DEF some
<1>3. /\ Len(front) = n + (k - 1)
      /\ \A i \in 1..n + (k - 1) : front[i] = IF i <= n THEN rows[i] ELSE some[i - n]
  <2>1. \A t \in Seq(Row) : /\ Len(rows \o t) = Len(rows) + Len(t)
                            /\ \A i \in 1..Len(rows) + Len(t) :
                                 (rows \o t)[i] = IF i <= Len(rows) THEN rows[i] ELSE t[i - Len(rows)]
    BY ConcatProperties
  <2> QED
    BY <1>2, <2>1
<1>4. /\ Len(all) = n + Len(more)
      /\ \A i \in 1..n + Len(more) : all[i] = IF i <= n THEN rows[i] ELSE more[i - n]
  BY ConcatProperties
<1> HIDE DEF front, all
<1>5. ASSUME NEW i \in 1..Len(front) PROVE front[i].line <= more[k].line
  <2>1. /\ i \in 1..n + (k - 1) /\ i \in 1..n + Len(more) /\ n + k \in 1..n + Len(more)
        /\ i <= n + k /\ ~(n + k <= n) /\ (n + k) - n = k
        /\ (~(i <= n) => i - n \in 1..k - 1)
    BY <1>1, <1>3
  <2>2. front[i] = all[i] /\ all[n + k] = more[k]
    BY <1>2, <1>3, <1>4, <2>1
  <2> QED
    BY <1>4, <2>1, <2>2 DEF Ascending, all
<1> QED
  BY <1>5 DEF UpToLine, front, some

-----------------------------------------------------------------------------
(* The flushed rows of a spline follow its buffered ones.                  *)

LEMMA FlushedOut ==
  ASSUME NEW fl, NEW f, FlushesAlong(f, fl), NEW i \in 1..Len(fl.buffer)
  PROVE  /\ f[i].out = IF IsPoint(fl.buffer[i])
                       THEN f[i - 1].out \o StatedRun(fl, fl.buffer[i], f[i - 1].points + 1)
                       ELSE Append(f[i - 1].out, fl.buffer[i])
         /\ f[i].points = IF IsPoint(fl.buffer[i]) THEN f[i - 1].points + 1 ELSE f[i - 1].points
<1>1. f[i] = IF IsPoint(fl.buffer[i])
             THEN [points |-> f[i - 1].points + 1,
                   out |-> f[i - 1].out \o StatedRun(fl, fl.buffer[i], f[i - 1].points + 1)]
             ELSE [points |-> f[i - 1].points, out |-> Append(f[i - 1].out, fl.buffer[i])]
  BY DEF FlushesAlong
<1>2. \A p, o : [points |-> p, out |-> o].out = o /\ [points |-> p, out |-> o].points = p
  OBVIOUS
<1> DEFINE more == f[i - 1].points + 1
           run  == StatedRun(fl, fl.buffer[i], more)
           old  == f[i - 1]
           row  == fl.buffer[i]
<1> HIDE DEF run, old, row, more
<1>3. CASE IsPoint(row)
  <2>1. f[i] = [points |-> more, out |-> old.out \o run]
    BY <1>1, <1>3 DEF run, old, row, more
  <2>2. f[i].out = old.out \o run /\ f[i].points = more
    BY <1>2, <2>1
  <2> QED
    BY <1>3, <2>2 DEF run, old, row, more
<1>4. CASE ~IsPoint(row)
  <2>1. f[i] = [points |-> old.points, out |-> Append(old.out, row)]
    BY <1>1, <1>4 DEF run, old, row, more
  <2>2. f[i].out = Append(old.out, row) /\ f[i].points = old.points
    BY <1>2, <2>1
  <2> QED
    BY <1>4, <2>2 DEF run, old, row, more
<1> QED
  BY <1>3, <1>4 DEF row

LEMMA FlushFollows ==
  ASSUME NEW fl, fl.buffer \in Seq(Row), NEW out, NEW done, Follows(out, done),
         Ascending(done \o fl.buffer)
  PROVE  /\ FlushedSpline(fl) \in Seq(Row)
         /\ Follows(out \o FlushedSpline(fl), done \o fl.buffer)
<1> DEFINE b == fl.buffer
           n == Len(b)
<1>1. PICK f : FlushesAlong(f, fl) /\ FlushedSpline(fl) = f[n].out
  BY FlushWalk
<1>2. n \in Nat /\ b \in Seq(Row) /\ out \in Seq(Row) /\ done \in Seq(Row)
  BY LenNat DEF Follows
<1>3. \A i \in 0..n : f[i] \in FlushState
  BY <1>1 DEF FlushesAlong
<1>4. f[0].out = <<>>
  BY <1>1 DEF FlushesAlong
<1>5. \A i \in 1..n : f[i].out = IF IsPoint(b[i])
              THEN f[i - 1].out \o StatedRun(fl, b[i], f[i - 1].points + 1)
              ELSE Append(f[i - 1].out, b[i])
  BY <1>1, FlushedOut
<1> DEFINE part(i) == done \o SubSeq(b, 1, i)
           M == {i \in Nat : i <= n => Follows(out \o f[i].out, part(i))}
<1>6. 0 \in M
  <2>1. SubSeq(b, 1, 0) = <<>>
    BY SubSeqEmpty
  <2>2. out \o <<>> = out /\ done \o <<>> = done
    BY <1>2, ConcatEmptySeq
  <2> QED
    BY <1>4, <2>1, <2>2
<1>7. ASSUME NEW m \in Nat, m \in M PROVE m + 1 \in M
  <2> DEFINE k == m + 1
             o == out \o f[m].out
  <2>1. SUFFICES ASSUME k <= n PROVE Follows(out \o f[k].out, part(k))
    OBVIOUS
  <2>2. k \in 1..n /\ k - 1 = m /\ m \in 0..n /\ m <= n
    BY <1>2, <1>7, <2>1
  <2>3. b[k] \in Row /\ f[m].out \in Seq(Row) /\ Follows(o, part(m))
    BY <1>2, <1>3, <1>7, <2>2, ElementOfSeq DEF FlushState
  <2>4. part(k) = Append(part(m), b[k])
    <3>1. SubSeq(b, 1, k) = Append(SubSeq(b, 1, m), b[k]) /\ SubSeq(b, 1, m) \in Seq(Row)
      BY <1>2, <2>2, PrefixNext, PrefixType
    <3>2. \A s, t \in Seq(Row) : \A x \in Row : s \o Append(t, x) = Append(s \o t, x)
      BY ConcatAppend
    <3>3. done \o Append(SubSeq(b, 1, m), b[k]) = Append(done \o SubSeq(b, 1, m), b[k])
      BY <1>2, <2>3, <3>1, <3>2
    <3> QED
      BY <3>1, <3>3
  <2>5. UpToLine(part(m), b[k].line)
    BY <1>2, <2>2, AscendingSplit
  <2>9. f[k].out = IF IsPoint(b[k]) THEN f[m].out \o StatedRun(fl, b[k], f[m].points + 1)
                   ELSE Append(f[m].out, b[k])
    <3> HIDE DEF k
    <3> QED
      BY <1>5, <2>2
  <2>10. /\ \A run \in Seq(Row) : out \o (f[m].out \o run) = o \o run
         /\ out \o Append(f[m].out, b[k]) = Append(o, b[k])
    <3>1. \A s, t, u \in Seq(Row) : (s \o t) \o u = s \o (t \o u)
      BY ConcatAssociative
    <3>2. \A s, t \in Seq(Row) : \A x \in Row : s \o Append(t, x) = Append(s \o t, x)
      BY ConcatAppend
    <3>3. \A run \in Seq(Row) : out \o (f[m].out \o run) = o \o run
      BY <1>2, <2>3, <3>1
    <3>4. out \o Append(f[m].out, b[k]) = Append(o, b[k])
      BY <1>2, <2>3, <3>2
    <3> QED
      BY <3>3, <3>4
  <2> HIDE DEF part, k, o
  <2>6. CASE IsPoint(b[k])
    <3> DEFINE run == StatedRun(fl, b[k], f[m].points + 1)
    <3>1. run \in Seq(Row) /\ RunOf(run, b[k])
      BY <2>3, <2>6, StatedRunIs DEF IsPoint
    <3>2. f[k].out = f[m].out \o run
      BY <2>6, <2>9
    <3> HIDE DEF run
    <3>3. out \o f[k].out = o \o run
      BY <2>10, <3>1, <3>2
    <3>4. Follows(o \o run, Append(part(m), b[k]))
      BY <2>3, <2>5, <3>1, FollowsRun
    <3> QED
      BY <2>4, <3>3, <3>4
  <2>7. CASE ~IsPoint(b[k])
    <3>1. f[k].out = Append(f[m].out, b[k])
      BY <2>7, <2>9
    <3>2. out \o f[k].out = Append(o, b[k])
      BY <2>10, <3>1
    <3>3. Follows(Append(o, b[k]), Append(part(m), b[k]))
      BY <2>3, <2>5, FollowsSame
    <3> QED
      BY <2>4, <3>2, <3>3
  <2> QED
    BY <2>6, <2>7
<1> HIDE DEF M
<1>8. n \in M
  BY <1>2, <1>6, <1>7, SetInduction
<1>9. Follows(out \o f[n].out, part(n))
  BY <1>2, <1>8 DEF M
<1>10. part(n) = done \o b
  BY <1>2, SubSeqFull
<1>11. f[n].out \in Seq(Row)
  BY <1>2, <1>3 DEF FlushState
<1> QED
  BY <1>1, <1>9, <1>10, <1>11

-----------------------------------------------------------------------------
(* Pushing a row.                                                          *)

FlatState == [motion : Values \cup Words, buffer : Seq(Row), position : CellValues, start : CellValues]

(* Only an active spline holds rows back.                                  *)
FlatOK(fl) == fl \in FlatState /\ (fl.buffer # <<>> => fl.motion \in Splines)

Going(fl, row)   == IF Deselects(fl, row) THEN fl.buffer ELSE <<>>
Before(fl, row)  == IF Deselects(fl, row) THEN FlushedSpline(fl) ELSE <<>>
Staying(fl, row) == IF Deselects(fl, row) THEN <<>> ELSE fl.buffer
Passing(fl, row) == IF MotionAfter(fl, row) = "G2" THEN Arc(fl, row) ELSE <<row>>

LEMMA FlatFields ==
  ASSUME NEW fl \in FlatState
  PROVE  /\ fl.motion \in Values \cup Words /\ fl.buffer \in Seq(Row)
         /\ fl.position \in CellValues /\ fl.start \in CellValues
BY DEF FlatState

LEMMA NewFlattenerOK == FlatOK(NewFlattener)
<1>1. <<>> \in Seq(Row) /\ "G1" \in Words
  BY EmptySeq DEF Words
<1> QED
  BY <1>1 DEF FlatOK, FlatState, NewFlattener, CellValues

LEMMA PassingRuns ==
  ASSUME NEW fl \in FlatState, NEW row \in Row
  PROVE  Passing(fl, row) \in Seq(Row) /\ RunOf(Passing(fl, row), row)
<1>1. CASE Passing(fl, row) = <<row>>
  <2>1. <<row>> \in Seq(Row) /\ Len(<<row>>) = 1 /\ <<row>>[1] = row /\ <<row>> # <<>>
    OBVIOUS
  <2>2. RunOf(<<row>>, row)
    BY <2>1 DEF RunOf
  <2> QED
    BY <1>1, <2>1, <2>2
<1>2. CASE Passing(fl, row) # <<row>>
  <2>1. Passing(fl, row) = Run(row, row.cut, Positioned(fl, row), Null)
    BY <1>2 DEF Passing, Arc
  <2>2. row.cut \in Nat \ {0} /\ row.cells \in Cells
    BY RowFields
  <2>3. Positioned(fl, row) \in CellValues
    BY <2>2, FlatFields DEF Positioned, Cells, Columns, CellValues
  <2> QED
    BY <2>1, <2>2, <2>3, RunIs
<1> QED
  BY <1>1, <1>2

LEMMA BeforeType ==
  ASSUME NEW fl \in FlatState, NEW row
  PROVE  Before(fl, row) \in Seq(Row) /\ FlushedSpline(fl) \in Seq(Row)
<1>1. PICK f : FlushesAlong(f, fl) /\ FlushedSpline(fl) = f[Len(fl.buffer)].out
  BY FlatFields, FlushWalk
<1>2. Len(fl.buffer) \in 0..Len(fl.buffer)
  BY FlatFields, LenNat
<1>3. f[Len(fl.buffer)] \in FlushState
  BY <1>1, <1>2 DEF FlushesAlong
<1>4. FlushedSpline(fl) \in Seq(Row)
  BY <1>1, <1>3 DEF FlushState
<1> QED
  BY <1>4, EmptySeq DEF Before

LEMMA PushIs ==
  ASSUME NEW fl, FlatOK(fl), NEW row \in Row
  PROVE  /\ FlatOK(Push(fl, row).fl)
         /\ Push(fl, row).fl.motion = MotionAfter(fl, row)
         /\ Push(fl, row).fl.position = Positioned(fl, row)
         /\ Push(fl, row).fl.start \in {fl.start, fl.position}
         /\ MotionAfter(fl, row) \in Splines =>
              /\ Push(fl, row).fl.buffer = Append(Staying(fl, row), row)
              /\ Push(fl, row).out = Before(fl, row)
         /\ MotionAfter(fl, row) \notin Splines =>
              /\ Staying(fl, row) = <<>> /\ Push(fl, row).fl.buffer = <<>>
              /\ Push(fl, row).out = Before(fl, row) \o Passing(fl, row)
<1> DEFINE before == Before(fl, row)
           rest   == Staying(fl, row)
           motion == MotionAfter(fl, row)
           at     == Positioned(fl, row)
           moved  == [fl EXCEPT !.motion = motion, !.buffer = rest, !.position = at]
           start  == IF rest = <<>> THEN fl.position ELSE fl.start
           new    == [moved EXCEPT !.buffer = Append(rest, row), !.start = start]
           p      == Push(fl, row)
<1>1. fl \in FlatState /\ row.cells \in Cells /\ "motion" \in Columns /\ "X" \in Columns
  BY RowFields DEF FlatOK, Columns
<1>2. /\ fl.motion \in Values \cup Words /\ fl.buffer \in Seq(Row)
      /\ fl.position \in CellValues /\ fl.start \in CellValues
  BY <1>1, FlatFields
<1>3. motion \in Values \cup Words
  BY <1>1, <1>2 DEF MotionAfter, Cells
<1>4. at \in CellValues
  BY <1>1, <1>2 DEF Positioned, Cells, CellValues
<1>5. before \in Seq(Row) /\ rest \in Seq(Row)
  BY <1>1, <1>2, BeforeType, EmptySeq DEF Staying
<1>6. motion \notin Splines => rest = <<>>
  <2>1. fl.buffer # <<>> /\ ~Deselects(fl, row) => motion = fl.motion /\ fl.motion \in Splines
    BY DEF Deselects, MotionAfter, FlatOK
  <2> QED
    BY <2>1 DEF Staying
<1>7. \/ motion \in Splines /\ p = [fl |-> new, out |-> before]
      \/ motion \notin Splines /\ motion = "G2" /\ p = [fl |-> moved, out |-> before \o Arc(fl, row)]
      \/ motion \notin Splines /\ motion # "G2" /\ p = [fl |-> moved, out |-> Append(before, row)]
  BY DEF Push, Before, Staying, Splines
<1>8. "G2" \notin Splines
  BY DEF Splines
<1> HIDE DEF before, rest, motion, at, p
<1>9. /\ moved \in FlatState /\ moved.motion = motion /\ moved.position = at /\ moved.buffer = rest
      /\ moved.start = fl.start
  BY <1>1, <1>3, <1>4, <1>5 DEF FlatState
<1>10. Append(rest, row) \in Seq(Row)
  BY <1>5, Grown
<1>11. start \in CellValues /\ start \in {fl.start, fl.position}
  BY <1>2
<1> HIDE DEF moved, start
<1>12. /\ new \in FlatState /\ new.motion = motion /\ new.position = at /\ new.buffer = Append(rest, row)
       /\ new.start = start
  BY <1>9, <1>10, <1>11 DEF FlatState
<1> HIDE DEF new
<1>13. CASE motion \in Splines
  <2>1. p = [fl |-> new, out |-> before]
    BY <1>7, <1>13
  <2>2. p.fl = new /\ p.out = before
    BY <2>1
  <2> QED
    BY <1>11, <1>12, <1>13, <2>2 DEF FlatOK, before, rest, motion, at, p
<1>14. CASE motion \notin Splines
  <2>1. p.fl = moved /\ p.out = before \o Passing(fl, row)
    <3>1. CASE motion = "G2"
      <4>1. p = [fl |-> moved, out |-> before \o Arc(fl, row)]
        BY <1>7, <1>8, <3>1
      <4> QED
        BY <3>1, <4>1 DEF Passing, motion
    <3>2. CASE motion # "G2"
      <4>1. p = [fl |-> moved, out |-> Append(before, row)]
        BY <1>7, <1>14, <3>2
      <4>2. Append(before, row) = before \o <<row>>
        BY <1>5, AppendIsConcat
      <4> QED
        BY <3>2, <4>1, <4>2 DEF Passing, motion
    <3> QED
      BY <3>1, <3>2
  <2> QED
    BY <1>6, <1>9, <1>14, <2>1 DEF FlatOK, before, rest, motion, at, p
<1> QED
  BY <1>13, <1>14

LEMMA AscendingPrefix ==
  ASSUME NEW rows \in Seq(Row), NEW row \in Row, Ascending(Append(rows, row))
  PROVE  Ascending(rows) /\ UpToLine(rows, row.line)
<1> DEFINE t == Append(rows, row)
<1>1. /\ Len(rows) \in Nat /\ Len(t) = Len(rows) + 1 /\ t[Len(rows) + 1] = row
      /\ \A i \in 1..Len(rows) : t[i] = rows[i]
  BY Grown
<1>2. Ascending(t)
  OBVIOUS
<1> HIDE DEF t
<1>3. Len(rows) + 1 \in 1..Len(t) /\ \A i \in 1..Len(rows) : i \in 1..Len(t) /\ i <= Len(rows) + 1
  BY <1>1
<1> QED
  BY <1>1, <1>2, <1>3 DEF Ascending, UpToLine

(* What has been let out follows what has been pushed, the held back rows  *)
(* excepted.                                                               *)
LEMMA PushFollows ==
  ASSUME NEW fl, FlatOK(fl), NEW row \in Row, NEW out, NEW done, Follows(out, done),
         Ascending(Append(done \o fl.buffer, row))
  PROVE  /\ Push(fl, row).out \in Seq(Row)
         /\ \E more \in Seq(Row) : /\ Follows(out \o Push(fl, row).out, more)
                                   /\ more \o Push(fl, row).fl.buffer = Append(done \o fl.buffer, row)
<1> DEFINE before == Before(fl, row)
           gone   == Going(fl, row)
           rest   == Staying(fl, row)
           p      == Push(fl, row)
           mid    == done \o gone
<1>1. fl \in FlatState /\ fl.buffer \in Seq(Row) /\ out \in Seq(Row) /\ done \in Seq(Row)
  BY FlatFields DEF FlatOK, Follows
<1>2. before \in Seq(Row) /\ Passing(fl, row) \in Seq(Row)
  BY <1>1, BeforeType, PassingRuns
<1>3. gone \in Seq(Row) /\ rest \in Seq(Row) /\ gone \o rest = fl.buffer
  BY <1>1, EmptySeq, ConcatEmptySeq DEF Going, Staying
<1>4. mid \in Seq(Row) /\ mid \o rest = done \o fl.buffer /\ done \o fl.buffer \in Seq(Row)
  <2>1. \A s, t, u \in Seq(Row) : (s \o t) \o u = s \o (t \o u)
    BY ConcatAssociative
  <2>2. \A s, t \in Seq(Row) : s \o t \in Seq(Row)
    BY ConcatProperties
  <2> HIDE DEF gone, rest
  <2>3. (done \o gone) \o rest = done \o (gone \o rest)
    BY <1>1, <1>3, <2>1
  <2> QED
    BY <1>1, <1>3, <2>2, <2>3
<1>5. Ascending(done \o fl.buffer) /\ UpToLine(done \o fl.buffer, row.line)
  BY <1>4, AscendingPrefix
<1>6. Follows(out \o before, mid)
  <2>1. CASE Deselects(fl, row)
    <3>1. Follows(out \o FlushedSpline(fl), done \o fl.buffer)
      BY <1>1, <1>5, FlushFollows
    <3> QED
      BY <2>1, <3>1 DEF Before, Going
  <2>2. CASE ~Deselects(fl, row)
    <3>1. out \o <<>> = out /\ done \o <<>> = done
      BY <1>1, ConcatEmptySeq
    <3> QED
      BY <2>2, <3>1 DEF Before, Going
  <2> QED
    BY <2>1, <2>2
<1> HIDE DEF before, gone, rest, mid
<1>7. CASE MotionAfter(fl, row) \in Splines
  <2>1. p.fl.buffer = Append(rest, row) /\ p.out = before
    BY <1>7, PushIs DEF rest, before
  <2>2. mid \o Append(rest, row) = Append(mid \o rest, row)
    <3>1. \A s, t \in Seq(Row) : \A x \in Row : s \o Append(t, x) = Append(s \o t, x)
      BY ConcatAppend
    <3> QED
      BY <1>3, <1>4, <3>1
  <2> QED
    BY <1>2, <1>4, <1>6, <2>1, <2>2
<1>8. CASE MotionAfter(fl, row) \notin Splines
  <2>1. rest = <<>> /\ p.fl.buffer = <<>> /\ p.out = before \o Passing(fl, row)
    BY <1>8, PushIs DEF rest, before
  <2>2. mid = done \o fl.buffer
    BY <1>4, <2>1, ConcatEmptySeq
  <2>3. Follows((out \o before) \o Passing(fl, row), Append(mid, row))
    BY <1>1, <1>5, <1>6, <2>2, PassingRuns, FollowsRun
  <2>4. (out \o before) \o Passing(fl, row) = out \o p.out
    BY <1>1, <1>2, <2>1, ConcatAssociative, SMTT(20)
  <2>5. Append(mid, row) \in Seq(Row) /\ Append(mid, row) \o <<>> = Append(mid, row)
    BY <1>4, Grown, ConcatEmptySeq
  <2>6. p.out \in Seq(Row)
    BY <1>2, <2>1, ConcatProperties
  <2> HIDE DEF p
  <2> QED
    BY <2>1, <2>2, <2>3, <2>4, <2>5, <2>6 DEF p
<1> QED
  BY <1>7, <1>8

(* The rows picked are rows of the sequence.                               *)
LEMMA PickedFrom ==
  ASSUME NEW S, NEW seq \in Seq(S), NEW places
  PROVE  \A j \in 1..Len(Picked(seq, places)) :
            \E i \in 1..Len(seq) : i \in places /\ Picked(seq, places)[j] = seq[i]
<1> DEFINE T == {s \in Seq(S) : \A j \in 1..Len(Picked(s, places)) :
                                  \E i \in 1..Len(s) : i \in places /\ Picked(s, places)[j] = s[i]}
<1>1. <<>> \in T
  <2>1. <<>> \in Seq(S) /\ Picked(<<>>, places) = <<>> /\ Len(<<>>) = 0
    BY EmptySeq, PickedEmpty
  <2> QED
    BY <2>1
<1>2. ASSUME NEW s \in Seq(S), NEW x \in S, s \in T PROVE Append(s, x) \in T
  <2> DEFINE t == Append(s, x)
             p == Picked(s, places)
             q == Picked(t, places)
             n == Len(s)
  <2>1. n \in Nat /\ t \in Seq(S) /\ Len(t) = n + 1 /\ t[n + 1] = x /\ \A i \in 1..n : t[i] = s[i]
    BY Grown
  <2>2. q = IF n + 1 \in places THEN Append(p, x) ELSE p
    BY PickedAppend
  <2>3. p \in Seq(S)
    BY PickedType
  <2>4. /\ Len(p) \in Nat /\ Len(Append(p, x)) = Len(p) + 1 /\ Append(p, x)[Len(p) + 1] = x
        /\ \A i \in 1..Len(p) : Append(p, x)[i] = p[i]
    BY <2>3, Grown
  <2>5. \A j \in 1..Len(p) : \E i \in 1..n : i \in places /\ p[j] = s[i]
    BY <1>2
  <2> HIDE DEF p, q, t
  <2>6. ASSUME NEW j \in 1..Len(q) PROVE \E i \in 1..n + 1 : i \in places /\ q[j] = t[i]
    <3>1. CASE j \in 1..Len(p)
      <4>1. PICK i \in 1..n : i \in places /\ p[j] = s[i]
        BY <2>5, <3>1
      <4>2. i \in 1..n + 1 /\ t[i] = s[i] /\ q[j] = p[j]
        BY <2>1, <2>2, <2>4, <3>1
      <4> QED
        BY <4>1, <4>2
    <3>2. CASE j \notin 1..Len(p)
      <4>1. n + 1 \in places /\ j = Len(p) + 1 /\ q[j] = x
        <5>1. CASE n + 1 \in places
          BY <2>2, <2>4, <3>2, <5>1
        <5>2. CASE n + 1 \notin places
          BY <2>2, <3>2, <5>2
        <5> QED
          BY <5>1, <5>2
      <4>2. n + 1 \in 1..n + 1
        BY <2>1
      <4> QED
        BY <2>1, <4>1, <4>2
    <3> QED
      BY <3>1, <3>2
  <2> QED
    BY <2>1, <2>6 DEF t, q
<1> HIDE DEF T
<1>3. seq \in T
  BY <1>1, <1>2, SeqInduction
<1> QED
  BY <1>3 DEF T

LEMMA SuffixOf ==
  ASSUME NEW S, NEW s \in Seq(S), NEW t \in Seq(S)
  PROVE  IsSuffix(t, s \o t)
<1> DEFINE u == s \o t
           m == Len(s)
           n == Len(t)
<1>1. m \in Nat /\ n \in Nat /\ u \in Seq(S) /\ Len(u) = m + n
      /\ \A i \in 1..m + n : u[i] = IF i <= m THEN s[i] ELSE t[i - m]
  BY LenNat, ConcatProperties
<1> HIDE DEF u
<1> DEFINE a == Reverse(t)
           b == Reverse(u)
<1>2. a = [i \in 1..n |-> t[(n - i) + 1]] /\ b = [i \in 1..m + n |-> u[((m + n) - i) + 1]]
  BY <1>1 DEF Reverse
<1>3. \A i \in 1..n : (n - i) + 1 \in 1..n /\ t[(n - i) + 1] \in S
  BY <1>1, ElementOfSeq
<1>4. \A i \in 1..m + n : ((m + n) - i) + 1 \in 1..Len(u) /\ u[((m + n) - i) + 1] \in S
  BY <1>1, ElementOfSeq
<1> HIDE DEF m, n
<1>5. a \in Seq(S) /\ Len(a) = n
  <2>1. a \in [1..n -> S]
    BY <1>2, <1>3
  <2> HIDE DEF a
  <2> QED
    BY <1>1, <1>2, <2>1
<1>6. b \in Seq(S) /\ Len(b) = m + n
  <2>1. b \in [1..m + n -> S] /\ m + n \in Nat
    BY <1>1, <1>2, <1>4
  <2> HIDE DEF b
  <2> QED
    BY <1>1, <1>2, <2>1
<1>7. ASSUME NEW i \in 1..n PROVE a[i] = b[i]
  <2>1. /\ i \in 1..m + n /\ ((m + n) - i) + 1 \in 1..m + n
        /\ ~(((m + n) - i) + 1 <= m) /\ (((m + n) - i) + 1) - m = (n - i) + 1
    BY <1>1
  <2>2. a[i] = t[(n - i) + 1] /\ b[i] = u[((m + n) - i) + 1]
    BY <1>2, <2>1
  <2> HIDE DEF a, b
  <2> QED
    BY <1>1, <2>1, <2>2
<1> HIDE DEF a, b
<1>8. n <= Len(b) /\ n <= Len(a)
  BY <1>1, <1>5, <1>6
<1>9. SubSeq(a, 1, n) = SubSeq(b, 1, n)
  BY <1>1, <1>5, <1>6, <1>7, <1>8, PrefixSame
<1> QED
  BY <1>5, <1>8, <1>9 DEF IsSuffix, IsPrefix, a, b, u

-----------------------------------------------------------------------------
(* The rows of a call, block by block.                                     *)

PassState == [fl : {fl \in FlatState : FlatOK(fl)}, out : Seq(Row)]

(* One row more for the output: it is dropped, flattened or passed on.     *)
PassStep(j, at, row) ==
  IF Empty(row) THEN at
  ELSE IF j.flatten THEN [fl  |-> Push(at.fl, Rekeyed(row)).fl,
                          out |-> at.out \o Push(at.fl, Rekeyed(row)).out]
  ELSE [fl |-> at.fl, out |-> Append(at.out, Rekeyed(row))]

LEMMA PassStateFields ==
  ASSUME NEW at \in PassState
  PROVE  FlatOK(at.fl) /\ at.fl \in FlatState /\ at.out \in Seq(Row)
BY DEF PassState

LEMMA PassStart == [fl |-> NewFlattener, out |-> <<>>] \in PassState
<1>1. FlatOK(NewFlattener) /\ NewFlattener \in FlatState /\ <<>> \in Seq(Row)
  BY NewFlattenerOK, EmptySeq DEF FlatOK
<1> QED
  BY <1>1 DEF PassState

LEMMA PushOut ==
  ASSUME NEW fl, FlatOK(fl), NEW row \in Row
  PROVE  Push(fl, row).out \in Seq(Row) /\ FlatOK(Push(fl, row).fl) /\ Push(fl, row).fl \in FlatState
<1>1. fl \in FlatState
  BY DEF FlatOK
<1>2. Before(fl, row) \in Seq(Row) /\ Passing(fl, row) \in Seq(Row)
  BY <1>1, BeforeType, PassingRuns
<1>3. FlatOK(Push(fl, row).fl)
  BY PushIs
<1>4. Push(fl, row).out = Before(fl, row) \/ Push(fl, row).out = Before(fl, row) \o Passing(fl, row)
  BY PushIs
<1> DEFINE a == Before(fl, row)
           b == Passing(fl, row)
<1> HIDE DEF a, b
<1>5. a \o b \in Seq(Row)
  BY <1>2, ConcatProperties DEF a, b
<1> QED
  BY <1>2, <1>3, <1>4, <1>5 DEF FlatOK, a, b

LEMMA PassStepType ==
  ASSUME NEW j, NEW at \in PassState, NEW row \in Row
  PROVE  PassStep(j, at, row) \in PassState
<1> DEFINE r == Rekeyed(row)
           p == Push(at.fl, r)
<1>1. FlatOK(at.fl) /\ at.fl \in FlatState /\ at.out \in Seq(Row) /\ r \in Row
  BY PassStateFields, RekeyedType
<1>2. p.out \in Seq(Row) /\ FlatOK(p.fl) /\ p.fl \in FlatState
  BY <1>1, PushOut
<1>3. at.out \o p.out \in Seq(Row) /\ Append(at.out, r) \in Seq(Row)
  <2> HIDE DEF p, r
  <2> QED
    BY <1>1, <1>2, ConcatProperties, AppendProperties
<1> HIDE DEF p, r
<1>4. [fl |-> p.fl, out |-> at.out \o p.out] \in PassState
  BY <1>2, <1>3 DEF PassState
<1>5. [fl |-> at.fl, out |-> Append(at.out, r)] \in PassState
  BY <1>1, <1>3 DEF PassState
<1> QED
  BY <1>4, <1>5 DEF PassStep, p, r

LEMMA PassedWalk ==
  ASSUME NEW j, IsJob(j)
  PROVE  /\ Len(j.blocks) \in Nat
         /\ \A k \in 0..Len(j.blocks) : Passed(j)[k] \in PassState
         /\ Passed(j)[0] = [fl |-> NewFlattener, out |-> <<>>]
         /\ \A k \in 1..Len(j.blocks) : Passed(j)[k] = PassStep(j, Passed(j)[k - 1], BlockRow(j, k))
<1> DEFINE n == Len(j.blocks)
           V == PassState
           base == [fl |-> NewFlattener, out |-> <<>>]
           step(k, v) == PassStep(j, v, BlockRow(j, k))
           G == [kv \in (1..n) \X V |-> step(kv[1], kv[2])]
           body(k, before) ==
             LET row    == Rekeyed(BlockRow(j, k))
                 pushed == Push(before.fl, row)
             IN  CASE Empty(row) -> before
                   [] ~Empty(row) /\ j.flatten -> [fl |-> pushed.fl, out |-> before.out \o pushed.out]
                   [] OTHER -> [fl |-> before.fl, out |-> Append(before.out, row)]
           c == CHOOSE f : f = [k \in 0..n |-> IF k = 0 THEN base ELSE body(k, f[k - 1])]
<1>1. n \in Nat /\ \A k \in 1..n : BlockRow(j, k) \in Row
  <2>1. j.blocks \in Seq(Row)
    BY DEF IsJob, Job
  <2> QED
    BY <2>1, LenNat, BlockRowType
<1>2. base \in V
  BY PassStart
<1>3. \A k \in 1..n : \A v \in V : step(k, v) \in V
  BY <1>1, PassStepType
<1>4. Passed(j) = c
  BY DEF Passed
<1>5. \A k \in 1..n : \A v : body(k, v) = step(k, v)
  <2> SUFFICES ASSUME NEW k \in 1..n, NEW v PROVE body(k, v) = step(k, v)
    OBVIOUS
  <2>1. Empty(Rekeyed(BlockRow(j, k))) <=> Empty(BlockRow(j, k))
    BY <1>1, RekeyedKeeps
  <2> QED
    BY <2>1 DEF PassStep
<1> HIDE DEF step, body, V, base
<1>6. IsStep(G, n, V)
  <2>1. \A kv \in (1..n) \X V : G[kv] \in V
    BY <1>3
  <2> QED
    BY <2>1 DEF IsStep
<1>7. \A k \in 1..n : \A v \in V : G[<<k, v>>] = step(k, v)
  OBVIOUS
<1> HIDE DEF G
<1>8. PICK f \in [0..n -> V] : f[0] = base /\ \A k \in 1..n : f[k] = G[<<k, f[k - 1]>>]
  <2> HIDE DEF n, c
  <2>1. \E f : IsWalk(f, n, V, base, G)
    BY <1>1, <1>2, <1>6, Recursion
  <2> QED
    BY <2>1 DEF IsWalk
<1>9. \A k \in 1..n : f[k] = body(k, f[k - 1])
  <2> SUFFICES ASSUME NEW k \in 1..n PROVE f[k] = body(k, f[k - 1])
    OBVIOUS
  <2>1. k - 1 \in 0..n
    BY <1>1
  <2>2. f[k - 1] \in V
    BY <1>8, <2>1
  <2> QED
    BY <1>5, <1>7, <1>8, <2>2
<1>10. f = [k \in 0..n |-> IF k = 0 THEN base ELSE body(k, f[k - 1])]
  <2>1. \A k \in 0..n : f[k] = IF k = 0 THEN base ELSE body(k, f[k - 1])
    <3> SUFFICES ASSUME NEW k \in 0..n, k # 0 PROVE f[k] = body(k, f[k - 1])
      BY <1>8
    <3>1. k \in 1..n
      BY <1>1
    <3> QED
      BY <1>9, <3>1
  <2> QED
    BY <1>8, <2>1
<1>11. c = [k \in 0..n |-> IF k = 0 THEN base ELSE body(k, c[k - 1])]
  BY <1>10
<1> HIDE DEF c
<1>12. c[0] = base /\ \A k \in 1..n : c[k] = step(k, c[k - 1])
  <2> HIDE DEF n
  <2>1. \A k \in 0..n : c[k] = IF k = 0 THEN base ELSE body(k, c[k - 1])
    BY <1>11
  <2>2. 0 \in 0..n /\ \A k \in 1..n : k \in 0..n /\ k # 0
    BY <1>1
  <2> QED
    BY <1>5, <2>1, <2>2
<1> DEFINE M == {k \in Nat : k <= n => c[k] \in V}
<1>13. 0 \in M
  BY <1>2, <1>12
<1>14. ASSUME NEW k \in Nat, k \in M PROVE k + 1 \in M
  <2>1. k + 1 <= n => k + 1 \in 1..n /\ (k + 1) - 1 = k /\ c[k] \in V
    BY <1>1, <1>14
  <2> QED
    BY <1>3, <1>12, <2>1
<1> HIDE DEF M
<1>15. Nat \subseteq M
  BY <1>13, <1>14, SetInduction
<1>16. \A k \in 0..n : c[k] \in V
  BY <1>1, <1>15 DEF M
<1> QED
  BY <1>1, <1>4, <1>12, <1>16 DEF V, base, step

-----------------------------------------------------------------------------
(* The rows let out after some blocks start the rows of the call.          *)

Starts(s, t) == \E more \in Seq(Row) : t = s \o more

LEMMA StartsSame ==
  ASSUME NEW s \in Seq(Row)
  PROVE  Starts(s, s)
<1>1. <<>> \in Seq(Row) /\ s = s \o <<>>
  BY EmptySeq, ConcatEmptySeq
<1> QED
  BY <1>1 DEF Starts

LEMMA StartsMore ==
  ASSUME NEW s \in Seq(Row), NEW more \in Seq(Row), NEW t, Starts(s \o more, t)
  PROVE  Starts(s, t)
<1>1. PICK rest \in Seq(Row) : t = (s \o more) \o rest
  BY DEF Starts
<1>2. \A a, b, c \in Seq(Row) : (a \o b) \o c = a \o (b \o c) /\ b \o c \in Seq(Row)
  BY ConcatAssociative, ConcatProperties, SMTT(20)
<1>3. t = s \o (more \o rest) /\ more \o rest \in Seq(Row)
  BY <1>1, <1>2
<1> QED
  BY <1>3 DEF Starts

LEMMA StartsThrough ==
  ASSUME NEW s \in Seq(Row), NEW t, Starts(s, t), NEW u, Starts(t, u)
  PROVE  Starts(s, u)
<1>1. PICK more \in Seq(Row) : t = s \o more
  BY DEF Starts
<1> QED
  BY <1>1, StartsMore

LEMMA StartsIs ==
  ASSUME NEW s \in Seq(Row), NEW t, Starts(s, t)
  PROVE  /\ t \in Seq(Row) /\ Len(s) <= Len(t) /\ \A i \in 1..Len(s) : t[i] = s[i]
         /\ \A i \in 0..Len(s) : SubSeq(t, 1, i) = SubSeq(s, 1, i)
<1>1. PICK more \in Seq(Row) : t = s \o more
  BY DEF Starts
<1>2. /\ t \in Seq(Row) /\ Len(t) = Len(s) + Len(more)
      /\ \A i \in 1..Len(s) + Len(more) : t[i] = IF i <= Len(s) THEN s[i] ELSE more[i - Len(s)]
  BY <1>1, ConcatProperties
<1>3. Len(s) \in Nat /\ Len(more) \in Nat /\ Len(s) <= Len(t) /\ \A i \in 1..Len(s) : t[i] = s[i]
  BY <1>2, LenNat
<1>4. \A i \in 0..Len(s) : SubSeq(t, 1, i) = SubSeq(s, 1, i)
  <2> SUFFICES ASSUME NEW i \in 0..Len(s) PROVE SubSeq(t, 1, i) = SubSeq(s, 1, i)
    OBVIOUS
  <2>1. i \in Nat /\ i <= Len(s) /\ i <= Len(t) /\ \A k \in 1..i : t[k] = s[k]
    BY <1>2, <1>3
  <2> QED
    BY <1>2, <2>1, PrefixSame
<1> QED
  BY <1>2, <1>3, <1>4

LEMMA StepStarts ==
  ASSUME NEW j, NEW at \in PassState, NEW row \in Row
  PROVE  Starts(at.out, PassStep(j, at, row).out)
<1> DEFINE r == Rekeyed(row)
           p == Push(at.fl, r)
           o == at.out
<1>1. o \in Seq(Row) /\ r \in Row /\ p.out \in Seq(Row)
  BY PassStateFields, RekeyedType, PushOut
<1>2. PassStep(j, at, row).out \in {o, o \o p.out, Append(o, r)}
  BY DEF PassStep
<1> HIDE DEF p, r, o
<1>3. Append(o, r) = o \o <<r>> /\ <<r>> \in Seq(Row)
  BY <1>1, AppendIsConcat
<1>4. Starts(o, o) /\ Starts(o, o \o p.out) /\ Starts(o, Append(o, r))
  BY <1>1, <1>3, StartsSame DEF Starts
<1> QED
  BY <1>2, <1>4 DEF o

LEMMA LeftIs ==
  ASSUME NEW j, IsJob(j)
  PROVE  /\ j.blocks \in Seq(Row) /\ Len(j.blocks) \in Nat
         /\ Left(j) \in 0..Len(j.blocks) /\ Len(j.blocks) <= Left(j) + 1
         /\ j.ending = "done" => Left(j) = Len(j.blocks)
         /\ j.ending = "panic" => Left(j) = 0 /\ Len(j.blocks) = 0
<1>1. j.blocks \in Seq(Row) /\ j.ending \in {"done", "error", "panic"}
  BY DEF IsJob, Job
<1>2. Len(j.blocks) \in Nat /\ (j.ending = "error" => Len(j.blocks) # 0)
      /\ (j.ending = "panic" => Len(j.blocks) = 0)
  BY <1>1, LenNat DEF IsJob
<1> QED
  BY <1>1, <1>2 DEF Left

LEMMA PassedStarts ==
  ASSUME NEW j, IsJob(j), NEW m \in 0..Len(j.blocks), NEW k \in 0..m
  PROVE  Starts(Passed(j)[k].out, Passed(j)[m].out)
<1> DEFINE n == Len(j.blocks)
           M == {i \in Nat : k <= i /\ i <= n => Starts(Passed(j)[k].out, Passed(j)[i].out)}
<1>1. /\ n \in Nat /\ \A i \in 0..n : Passed(j)[i] \in PassState
      /\ \A i \in 1..n : Passed(j)[i] = PassStep(j, Passed(j)[i - 1], BlockRow(j, i))
  BY PassedWalk
<1>2. k \in 0..n /\ Passed(j)[k].out \in Seq(Row)
  <2>1. k \in 0..n
    BY <1>1
  <2> QED
    BY <1>1, <2>1, PassStateFields
<1>3. 0 \in M
  BY <1>2, StartsSame
<1>4. ASSUME NEW i \in Nat, i \in M PROVE i + 1 \in M
  <2>1. SUFFICES ASSUME k <= i + 1, i + 1 <= n PROVE Starts(Passed(j)[k].out, Passed(j)[i + 1].out)
    OBVIOUS
  <2>2. CASE k = i + 1
    BY <1>2, <2>2, StartsSame
  <2>3. CASE k # i + 1
    <3>1. k <= i /\ i <= n /\ i \in 0..n /\ i + 1 \in 1..n /\ (i + 1) - 1 = i
      BY <1>1, <1>2, <2>1, <2>3
    <3>2. Starts(Passed(j)[k].out, Passed(j)[i].out)
      BY <1>4, <3>1
    <3>3. Passed(j)[i + 1] = PassStep(j, Passed(j)[i], BlockRow(j, i + 1))
      BY <1>1, <3>1
    <3>4. Starts(Passed(j)[i].out, PassStep(j, Passed(j)[i], BlockRow(j, i + 1)).out)
      BY <1>1, <3>1, BlockRowType, StepStarts
    <3> QED
      BY <1>2, <3>2, <3>3, <3>4, StartsThrough
  <2> QED
    BY <2>2, <2>3
<1> HIDE DEF M
<1>5. m \in M
  BY <1>1, <1>3, <1>4, SetInduction
<1> QED
  BY <1>1, <1>5 DEF M

LEMMA RowsStart ==
  ASSUME NEW j, IsJob(j)
  PROVE  /\ Rows(j) \in Seq(Row)
         /\ \A k \in 0..Left(j) : Starts(Passed(j)[k].out, Rows(j))
<1> DEFINE n == Left(j)
           o == Passed(j)[n].out
           e == Rest(Passed(j)[n].fl)
<1>1. n \in 0..Len(j.blocks)
  BY LeftIs
<1>2. Passed(j)[n] \in PassState
  BY <1>1, PassedWalk
<1>3. o \in Seq(Row) /\ e \in Seq(Row)
  BY <1>2, PassStateFields, BeforeType DEF Rest
<1>4. Rows(j) = IF j.flatten THEN o \o e ELSE o
  BY DEF Rows
<1> HIDE DEF o, e
<1>5. Starts(o, Rows(j))
  BY <1>3, <1>4, StartsSame DEF Starts
<1>6. Rows(j) \in Seq(Row)
  BY <1>3, <1>4, ConcatProperties
<1>7. ASSUME NEW k \in 0..n PROVE Starts(Passed(j)[k].out, Rows(j))
  <2>1. Starts(Passed(j)[k].out, o)
    BY <1>1, PassedStarts DEF o
  <2>2. Passed(j)[k].out \in Seq(Row)
    <3>1. k \in 0..Len(j.blocks)
      BY <1>1, LeftIs
    <3> QED
      BY <3>1, PassedWalk, PassStateFields
  <2> QED
    BY <1>5, <2>1, <2>2, StartsThrough
<1> QED
  BY <1>6, <1>7

-----------------------------------------------------------------------------
(* What the output owes the sink, and has: the rows handed over or about   *)
(* to be (due), wherever the worker is in its program, k being the number  *)
(* of blocks that have written their row.                                  *)

Settled(j, due) == Starts(due, Rows(j)) /\ (j.ending # "error" => due = Rows(j))

Owes(j, pc, k, current, fl, due) ==
  /\ due \in Seq(Row) /\ k \in 0..Len(j.blocks)
  /\ pc = "block" /\ k = 0 => Empty(current) /\ [fl |-> fl, out |-> due] = Passed(j)[0]
  /\ pc = "block" /\ k # 0 => current = BlockRow(j, k) /\ [fl |-> fl, out |-> due] = Passed(j)[k - 1]
  /\ pc = "fill" => k < Len(j.blocks) /\ Empty(current) /\ [fl |-> fl, out |-> due] = Passed(j)[k]
  /\ pc = "flush" => /\ j.ending = "done" /\ k = Len(j.blocks)
                     /\ [fl |-> fl, out |-> due] = Passed(j)[k]
  /\ pc \notin {"block", "fill", "flush"} => Settled(j, due)

LEMMA OwesStart ==
  ASSUME NEW j, IsJob(j), NEW current, NEW fl
  PROVE  Empty(current) /\ fl = NewFlattener => Owes(j, "block", 0, current, fl, <<>>)
BY EmptySeq, PassedWalk DEF Owes

(* Flushing the row of the last block is one step of the program.          *)
LEMMA OwesFlush ==
  ASSUME NEW j, IsJob(j), NEW k, NEW current \in Row, NEW fl, NEW due, Owes(j, "block", k, current, fl, due)
  PROVE  /\ [fl |-> fl, out |-> due] \in PassState
         /\ PassStep(j, [fl |-> fl, out |-> due], current) = Passed(j)[k]
         /\ PassStep(j, [fl |-> fl, out |-> due], current).out \in Seq(Row)
<1> DEFINE at == [fl |-> fl, out |-> due]
<1>1. /\ Len(j.blocks) \in Nat /\ \A i \in 0..Len(j.blocks) : Passed(j)[i] \in PassState
      /\ \A i \in 1..Len(j.blocks) : Passed(j)[i] = PassStep(j, Passed(j)[i - 1], BlockRow(j, i))
  BY PassedWalk
<1>2. k \in 0..Len(j.blocks)
  BY DEF Owes
<1>3. CASE k = 0
  <2>1. Empty(current) /\ at = Passed(j)[0]
    BY <1>3 DEF Owes
  <2> QED
    BY <1>1, <1>2, <1>3, <2>1, PassStateFields DEF PassStep
<1>4. CASE k # 0
  <2>1. current = BlockRow(j, k) /\ at = Passed(j)[k - 1] /\ k \in 1..Len(j.blocks) /\ k - 1 \in 0..Len(j.blocks)
    BY <1>1, <1>2, <1>4 DEF Owes
  <2>2. Passed(j)[k] = PassStep(j, at, current) /\ at \in PassState /\ Passed(j)[k] \in PassState
    BY <1>1, <1>2, <2>1
  <2> QED
    BY <2>2, PassStateFields
<1> QED
  BY <1>3, <1>4

LEMMA OwesFail ==
  ASSUME NEW j, IsJob(j), NEW k, NEW current, NEW fl, NEW due, Owes(j, "block", k, current, fl, due),
         k = Len(j.blocks), j.ending # "done"
  PROVE  Settled(j, due)
<1>1. Len(j.blocks) \in Nat /\ j.ending \in {"error", "panic"}
  BY LeftIs DEF IsJob, Job
<1>2. CASE j.ending = "error"
  <2>1. k # 0 /\ k - 1 = Left(j) /\ Left(j) \in 0..Left(j)
    BY <1>1, <1>2, LeftIs DEF Left
  <2>2. [fl |-> fl, out |-> due] = Passed(j)[k - 1]
    BY <2>1 DEF Owes
  <2>3. due = Passed(j)[k - 1].out
    BY <2>2
  <2> QED
    BY <1>2, <2>1, <2>3, RowsStart DEF Settled
<1>3. CASE j.ending = "panic"
  <2>1. k = 0 /\ Left(j) = 0
    BY <1>3, LeftIs
  <2>2. Passed(j)[0] = [fl |-> NewFlattener, out |-> <<>>]
    BY PassedWalk
  <2>3. [fl |-> fl, out |-> due] = Passed(j)[0]
    BY <2>1 DEF Owes
  <2>4. due = <<>>
    BY <2>2, <2>3
  <2>5. FlushedSpline(NewFlattener) = <<>>
    <3>1. <<>> \in Seq(Row) /\ NewFlattener.buffer = <<>> /\ Len(<<>>) = 0
      BY EmptySeq DEF NewFlattener
    <3>2. PICK f : FlushesAlong(f, NewFlattener) /\ FlushedSpline(NewFlattener) = f[Len(NewFlattener.buffer)].out
      BY <3>1, FlushWalk
    <3>3. f[0] = [points |-> 0, out |-> <<>>]
      BY <3>2 DEF FlushesAlong
    <3> QED
      BY <3>1, <3>2, <3>3
  <2>6. Rows(j) = <<>>
    <3>1. <<>> \o <<>> = <<>>
      BY ConcatEmptySeq, EmptySeq
    <3> QED
      BY <2>1, <2>2, <2>5, <3>1 DEF Rows, Rest
  <2> QED
    BY <2>4, <2>6, RowsStart, StartsSame DEF Settled
<1> QED
  BY <1>1, <1>2, <1>3

LEMMA OwesRest ==
  ASSUME NEW j, IsJob(j), NEW k, NEW current, NEW fl, NEW due, Owes(j, "flush", k, current, fl, due)
  PROVE  /\ FlatOK(fl) /\ Rest(fl) \in Seq(Row)
         /\ Settled(j, due \o (IF j.flatten THEN Rest(fl) ELSE <<>>))
<1> DEFINE all == due \o (IF j.flatten THEN Rest(fl) ELSE <<>>)
<1>1. [fl |-> fl, out |-> due] = Passed(j)[k] /\ k = Left(j) /\ k \in 0..Len(j.blocks) /\ due \in Seq(Row)
  BY LeftIs DEF Owes
<1>2. Passed(j)[k].fl = fl /\ Passed(j)[k].out = due
  <2>1. [fl |-> fl, out |-> due].fl = fl /\ [fl |-> fl, out |-> due].out = due
    OBVIOUS
  <2> QED
    BY <1>1, <2>1
<1>3. FlatOK(fl) /\ fl \in FlatState
  BY <1>1, <1>2, PassedWalk, PassStateFields
<1>4. Rest(fl) \in Seq(Row)
  BY <1>3, BeforeType DEF Rest
<1>5. due \o <<>> = due
  BY <1>1, ConcatEmptySeq
<1>6. all = Rows(j)
  BY <1>1, <1>2, <1>5 DEF Rows
<1>7. Settled(j, Rows(j))
  BY RowsStart, StartsSame DEF Settled
<1> QED
  BY <1>3, <1>4, <1>6, <1>7

(* Whatever is due starts the rows of the call.                            *)
LEMMA OwesStarts ==
  ASSUME NEW j, IsJob(j), NEW pc, NEW k, NEW current, NEW fl, NEW due, Owes(j, pc, k, current, fl, due)
  PROVE  Starts(due, Rows(j))
<1>1. /\ Len(j.blocks) \in Nat /\ Left(j) \in Nat /\ k \in 0..Len(j.blocks)
      /\ Len(j.blocks) <= Left(j) + 1 /\ (j.ending = "done" => Left(j) = Len(j.blocks))
  BY LeftIs DEF Owes
<1>2. CASE pc \notin {"block", "fill", "flush"}
  BY <1>2 DEF Owes, Settled
<1>3. CASE pc \in {"block", "fill", "flush"}
  <2>1. PICK m \in 0..Left(j) : [fl |-> fl, out |-> due] = Passed(j)[m]
    <3>1. CASE pc = "block" /\ k = 0
      <4>1. 0 \in 0..Left(j)
        BY <1>1
      <4> QED
        BY <3>1, <4>1 DEF Owes
    <3>2. CASE pc = "block" /\ k # 0
      <4>1. k - 1 \in 0..Left(j)
        BY <1>1, <3>2
      <4> QED
        BY <3>2, <4>1 DEF Owes
    <3>3. CASE pc = "fill"
      <4>1. k < Len(j.blocks)
        BY <3>3 DEF Owes
      <4>2. k \in 0..Left(j)
        BY <1>1, <4>1
      <4> QED
        BY <3>3, <4>2 DEF Owes
    <3>4. CASE pc = "flush"
      <4>1. k \in 0..Left(j)
        BY <1>1, <3>4 DEF Owes
      <4> QED
        BY <3>4, <4>1 DEF Owes
    <3> QED
      BY <1>3, <3>1, <3>2, <3>3, <3>4
  <2>2. due = Passed(j)[m].out
    BY <2>1
  <2> QED
    BY <2>2, RowsStart
<1> QED
  BY <1>2, <1>3

-----------------------------------------------------------------------------
(* The changes the rows of a call carry.                                   *)

(* What the output has been given after k blocks: up to each of its rows,  *)
(* the changes of the blocks up to that row's.                             *)
Pushes(j, k, pushed) ==
  /\ pushed \in Seq(Row) /\ Ascending(pushed)
  /\ ChangesOf(pushed) = ChangesOf(SubSeq(j.blocks, 1, k))
  /\ \A i \in 1..Len(pushed) :
       /\ pushed[i].line \in 1..k
       /\ ChangesOf(SubSeq(pushed, 1, i)) = ChangesOf(SubSeq(j.blocks, 1, pushed[i].line))

LEMMA PushesEmpty ==
  ASSUME NEW j, IsJob(j), j.record, NEW k \in 1..Len(j.blocks), NEW pushed, Pushes(j, k - 1, pushed),
         BlockRow(j, k).changes = <<>>
  PROVE  Pushes(j, k, pushed)
<1>1. j.blocks \in Seq(Row) /\ j.blocks[k].changes = <<>> /\ j.blocks[k] \in Row
  BY BlockRowType, ElementOfSeq
<1>2. SubSeq(j.blocks, 1, k) = Append(SubSeq(j.blocks, 1, k - 1), j.blocks[k])
  BY <1>1, PrefixNext
<1>3. SubSeq(j.blocks, 1, k - 1) \in Seq(Row) /\ k - 1 \in 0..Len(j.blocks) /\ k \in Nat
  <2>1. k - 1 \in 0..Len(j.blocks) /\ k \in Nat
    BY <1>1, LenNat
  <2> QED
    BY <1>1, <2>1, PrefixType
<1>4. ChangesOf(SubSeq(j.blocks, 1, k)) = ChangesOf(SubSeq(j.blocks, 1, k - 1))
  <2> DEFINE before == SubSeq(j.blocks, 1, k - 1)
             row    == j.blocks[k]
  <2> HIDE DEF before, row
  <2>1. ChangesOf(Append(before, row)) = ChangesOf(before) \o row.changes /\ ChangesOf(before) \in Seq(Names \X Values)
    BY <1>1, <1>3, RowsRecord, ChangesAppend, ChangesType DEF before, row
  <2>2. \A s \in Seq(Names \X Values) : s \o <<>> = s
    BY ConcatEmptySeq
  <2> QED
    BY <1>1, <1>2, <2>1, <2>2 DEF before, row
<1>5. \A i \in 1..k - 1 : i \in 1..k
  BY <1>3
<1> QED
  BY <1>4, <1>5 DEF Pushes

LEMMA PushesRow ==
  ASSUME NEW j, IsJob(j), NEW k \in 1..Len(j.blocks), NEW pushed, Pushes(j, k - 1, pushed),
         NEW row \in Row, row.line = k, row.changes = j.blocks[k].changes
  PROVE  Pushes(j, k, Append(pushed, row))
<1> DEFINE t == Append(pushed, row)
           n == Len(pushed)
<1>1. j.blocks \in Seq(Row) /\ j.blocks[k] \in Row /\ pushed \in Seq(Row)
  BY BlockRowType, ElementOfSeq DEF Pushes
<1>2. SubSeq(j.blocks, 1, k) = Append(SubSeq(j.blocks, 1, k - 1), j.blocks[k])
  BY <1>1, PrefixNext
<1>3. SubSeq(j.blocks, 1, k - 1) \in Seq(Row) /\ k - 1 \in 0..Len(j.blocks) /\ k \in Nat /\ k # 0
  <2>1. k - 1 \in 0..Len(j.blocks) /\ k \in Nat /\ k # 0
    BY <1>1, LenNat
  <2> QED
    BY <1>1, <2>1, PrefixType
<1>4. /\ n \in Nat /\ t \in Seq(Row) /\ Len(t) = n + 1 /\ t[n + 1] = row
      /\ \A i \in 1..n : t[i] = pushed[i]
  BY <1>1, Grown
<1>5. ChangesOf(t) = ChangesOf(SubSeq(j.blocks, 1, k))
  <2> DEFINE before == SubSeq(j.blocks, 1, k - 1)
             last   == j.blocks[k]
  <2> HIDE DEF before, last
  <2>1. ChangesOf(Append(before, last)) = ChangesOf(before) \o last.changes
    BY <1>1, <1>3, RowsRecord, ChangesAppend DEF before, last
  <2>2. ChangesOf(Append(pushed, row)) = ChangesOf(pushed) \o row.changes
    BY <1>1, RowsRecord, ChangesAppend
  <2> QED
    BY <1>2, <2>1, <2>2 DEF before, last, Pushes
<1>6. Ascending(t)
  <2>1. \A i \in 1..n : pushed[i].line \in 1..k - 1
    BY DEF Pushes
  <2>2. UpToLine(pushed, row.line)
    BY <1>3, <2>1 DEF UpToLine
  <2> QED
    BY <1>1, <2>2, AscendingAppend DEF Pushes
<1>7. SubSeq(t, 1, n + 1) = t
  BY <1>4, SubSeqFull
<1>8. \A i \in 1..n : SubSeq(t, 1, i) = SubSeq(pushed, 1, i)
  <2> SUFFICES ASSUME NEW i \in 1..n PROVE SubSeq(t, 1, i) = SubSeq(pushed, 1, i)
    OBVIOUS
  <2>1. i \in Nat /\ i <= Len(t) /\ i <= Len(pushed) /\ \A m \in 1..i : t[m] = pushed[m]
    BY <1>4
  <2> HIDE DEF t
  <2> QED
    BY <1>1, <1>4, <2>1, PrefixSame
<1> HIDE DEF t
<1>9. \A i \in 1..Len(t) : i = n + 1 \/ i \in 1..n
  BY <1>4
<1>10. \A i \in 1..k - 1 : i \in 1..k
  BY <1>3
<1>11. \A i \in 1..Len(t) : /\ t[i].line \in 1..k
                            /\ ChangesOf(SubSeq(t, 1, i)) = ChangesOf(SubSeq(j.blocks, 1, t[i].line))
  <2> SUFFICES ASSUME NEW i \in 1..Len(t)
               PROVE  /\ t[i].line \in 1..k
                      /\ ChangesOf(SubSeq(t, 1, i)) = ChangesOf(SubSeq(j.blocks, 1, t[i].line))
    OBVIOUS
  <2>1. CASE i = n + 1
    <3>1. t[i] = row /\ SubSeq(t, 1, i) = t
      BY <1>4, <1>7, <2>1
    <3>2. t[i].line = k /\ k \in 1..k
      BY <1>3, <3>1
    <3> QED
      BY <1>5, <3>1, <3>2
  <2>2. CASE i \in 1..n
    BY <1>4, <1>8, <1>10, <2>2 DEF Pushes
  <2> QED
    BY <1>9, <2>1, <2>2
<1> QED
  BY <1>4, <1>5, <1>6, <1>11 DEF Pushes, t

(* The rows let out after k blocks, with those held back, follow them.     *)
Accounts(j, k, at) ==
  /\ ~j.flatten => at.fl = NewFlattener
  /\ \E done \in Seq(Row) : Follows(at.out, done) /\ Pushes(j, k, done \o at.fl.buffer)

LEMMA AccountsStep ==
  ASSUME NEW j, IsJob(j), j.record, NEW k \in 1..Len(j.blocks), NEW at \in PassState, Accounts(j, k - 1, at)
  PROVE  Accounts(j, k, PassStep(j, at, BlockRow(j, k)))
<1> DEFINE row == BlockRow(j, k)
           r   == Rekeyed(row)
           p   == Push(at.fl, r)
<1>1. row \in Row /\ row.line = k /\ row.changes = j.blocks[k].changes
  BY BlockRowType
<1>2. r \in Row /\ r.line = k /\ r.changes = j.blocks[k].changes
  BY <1>1, RekeyedType, RekeyedKeeps
<1>3. PICK done \in Seq(Row) : Follows(at.out, done) /\ Pushes(j, k - 1, done \o at.fl.buffer)
  BY DEF Accounts
<1>4. at.out \in Seq(Row) /\ FlatOK(at.fl) /\ at.fl.buffer \in Seq(Row)
  BY PassStateFields, FlatFields
<1> DEFINE pushed == done \o at.fl.buffer
<1>5. Empty(row) => Pushes(j, k, pushed)
  BY <1>1, <1>3, PushesEmpty DEF Empty
<1>6. Pushes(j, k, Append(pushed, r))
  BY <1>2, <1>3, PushesRow
<1>7. Ascending(Append(pushed, r))
  BY <1>6 DEF Pushes
<1> HIDE DEF r, p, row
<1>8. CASE Empty(row)
  <2>1. PassStep(j, at, row) = at
    BY <1>8 DEF PassStep
  <2> QED
    BY <1>3, <1>5, <1>8, <2>1 DEF Accounts, row
<1>9. CASE ~Empty(row) /\ j.flatten
  <2>1. PassStep(j, at, row) = [fl |-> p.fl, out |-> at.out \o p.out]
    BY <1>9 DEF PassStep, p, r
  <2>2. PassStep(j, at, row).fl = p.fl /\ PassStep(j, at, row).out = at.out \o p.out
    <3> DEFINE f == p.fl
               o == at.out \o p.out
    <3> HIDE DEF f, o
    <3>1. PassStep(j, at, row) = [fl |-> f, out |-> o]
      BY <2>1 DEF f, o
    <3>2. PassStep(j, at, row).fl = f /\ PassStep(j, at, row).out = o
      BY <3>1
    <3> QED
      BY <3>2 DEF f, o
  <2>3. \E more \in Seq(Row) : Follows(at.out \o p.out, more) /\ more \o p.fl.buffer = Append(pushed, r)
    <3> DEFINE f == at.fl
               o == at.out
    <3>1. FlatOK(f) /\ Follows(o, done) /\ Ascending(Append(done \o f.buffer, r))
      BY <1>3, <1>4, <1>7
    <3> DEFINE q == Push(f, r)
               held == Append(done \o f.buffer, r)
    <3>2. \E more \in Seq(Row) : /\ Follows(o \o Push(f, r).out, more)
                                /\ more \o Push(f, r).fl.buffer = Append(done \o f.buffer, r)
      <4> HIDE DEF f, o, q, held
      <4>1. r \in Row
        BY <1>2
      <4> QED
        BY <3>1, <4>1, PushFollows
    <3> HIDE DEF f, o
    <3> QED
      BY <3>2 DEF f, o, p
  <2> QED
    BY <1>6, <1>9, <2>2, <2>3 DEF Accounts, row
<1>10. CASE ~Empty(row) /\ ~j.flatten
  <2>1. PassStep(j, at, row) = [fl |-> at.fl, out |-> Append(at.out, r)]
    BY <1>10 DEF PassStep, r
  <2>2. PassStep(j, at, row).fl = at.fl /\ PassStep(j, at, row).out = Append(at.out, r)
    <3>1. \A f, o : [fl |-> f, out |-> o].fl = f /\ [fl |-> f, out |-> o].out = o
      OBVIOUS
    <3> QED
      BY <2>1, <3>1
  <2>3. at.fl = NewFlattener /\ at.fl.buffer = <<>>
    BY <1>10 DEF Accounts, NewFlattener
  <2>4. done \o <<>> = done /\ Append(done, r) \o <<>> = Append(done, r) /\ Append(done, r) \in Seq(Row)
    BY <1>2, <1>3, ConcatEmptySeq, AppendProperties
  <2>5. Ascending(Append(done, r))
    BY <1>7, <2>3, <2>4
  <2>6. Follows(Append(at.out, r), Append(done, r))
    BY <1>2, <1>3, <2>5, AscendingPrefix, FollowsSame
  <2>7. Pushes(j, k, Append(done, r) \o at.fl.buffer)
    BY <1>6, <2>3, <2>4
  <2> QED
    BY <1>10, <2>2, <2>3, <2>4, <2>6, <2>7 DEF Accounts, row
<1> QED
  BY <1>8, <1>9, <1>10

(* Up to any of its rows, a call that records variables has carried the    *)
(* changes of the blocks up to the one that row is of.                     *)
Reporting(j, rows) ==
  \A i \in 1..Len(rows) :
    /\ rows[i].line \in 1..Len(j.blocks)
    /\ ChangesOf(SubSeq(rows, 1, i)) = ChangesOf(SubSeq(j.blocks, 1, rows[i].line))

LEMMA RowsReport ==
  ASSUME NEW j, IsJob(j), j.record
  PROVE  Reporting(j, Rows(j))
<1> DEFINE n == Len(j.blocks)
           m == Left(j)
           M == {k \in Nat : k <= n => Accounts(j, k, Passed(j)[k])}
<1>1. /\ n \in Nat /\ \A i \in 0..n : Passed(j)[i] \in PassState
      /\ Passed(j)[0] = [fl |-> NewFlattener, out |-> <<>>]
      /\ \A i \in 1..n : Passed(j)[i] = PassStep(j, Passed(j)[i - 1], BlockRow(j, i))
  BY PassedWalk
<1>2. m \in 0..n /\ m \in Nat
  BY LeftIs
<1>3. 0 \in M
  <2>1. Passed(j)[0].fl = NewFlattener /\ Passed(j)[0].out = <<>> /\ NewFlattener.buffer = <<>>
    BY <1>1 DEF NewFlattener
  <2>2. <<>> \in Seq(Row) /\ <<>> \o <<>> = <<>> /\ Len(<<>>) = 0 /\ Follows(<<>>, <<>>)
    BY EmptySeq, FollowsNone
  <2>3. Pushes(j, 0, <<>>)
    <3>1. SubSeq(j.blocks, 1, 0) = <<>>
      BY SubSeqEmpty
    <3>2. \A i \in 1..Len(<<>>) : FALSE
      BY <2>2
    <3>3. <<>> \in Seq(Row) /\ ChangesOf(<<>>) = ChangesOf(SubSeq(j.blocks, 1, 0))
      BY <2>2, <3>1
    <3>4. Ascending(<<>>)
      BY <3>2 DEF Ascending
    <3> QED
      BY <3>2, <3>3, <3>4 DEF Pushes
  <2> QED
    BY <2>1, <2>2, <2>3 DEF Accounts
<1>4. ASSUME NEW k \in Nat, k \in M PROVE k + 1 \in M
  <2>1. SUFFICES ASSUME k + 1 <= n PROVE Accounts(j, k + 1, Passed(j)[k + 1])
    OBVIOUS
  <2>2. k + 1 \in 1..n /\ (k + 1) - 1 = k /\ k \in 0..n /\ Accounts(j, k, Passed(j)[k])
    BY <1>1, <1>4, <2>1
  <2>3. Passed(j)[k + 1] = PassStep(j, Passed(j)[k], BlockRow(j, k + 1))
    BY <1>1, <2>2
  <2>4. Accounts(j, k + 1, PassStep(j, Passed(j)[k], BlockRow(j, k + 1)))
    BY <1>1, <2>2, AccountsStep
  <2> QED
    BY <2>3, <2>4
<1> HIDE DEF M
<1>5. m \in M
  BY <1>2, <1>3, <1>4, SetInduction
<1>6. Accounts(j, m, Passed(j)[m])
  BY <1>2, <1>5 DEF M
<1> DEFINE o  == Passed(j)[m].out
           fl == Passed(j)[m].fl
<1>7. PICK done \in Seq(Row) : Follows(o, done) /\ Pushes(j, m, done \o fl.buffer)
  BY <1>6 DEF Accounts
<1>8. FlatOK(fl) /\ fl.buffer \in Seq(Row)
  BY <1>1, <1>2, PassStateFields, FlatFields
<1>9. Follows(Rows(j), done \o fl.buffer)
  <2>1. CASE j.flatten
    <3>1. Rows(j) = o \o FlushedSpline(fl)
      BY <2>1 DEF Rows, Rest
    <3>2. Ascending(done \o fl.buffer)
      BY <1>7 DEF Pushes
    <3> QED
      BY <1>7, <1>8, <3>1, <3>2, FlushFollows
  <2>2. CASE ~j.flatten
    <3>1. Rows(j) = o
      BY <2>2 DEF Rows
    <3>2. fl.buffer = <<>>
      BY <1>6, <2>2 DEF Accounts, NewFlattener
    <3>3. done \o <<>> = done
      BY <1>7, ConcatEmptySeq
    <3> QED
      BY <1>7, <3>1, <3>2, <3>3
  <2> QED
    BY <2>1, <2>2
<1> DEFINE pushed == done \o fl.buffer
<1>10. ASSUME NEW i \in 1..Len(Rows(j))
       PROVE  /\ Rows(j)[i].line \in 1..n
              /\ ChangesOf(SubSeq(Rows(j), 1, i)) = ChangesOf(SubSeq(j.blocks, 1, Rows(j)[i].line))
  <2>1. PICK l \in 1..Len(pushed) : Reads(Rows(j), i, pushed, l)
    BY <1>9 DEF Follows
  <2>2. /\ pushed[l].line \in 1..m
        /\ ChangesOf(SubSeq(pushed, 1, l)) = ChangesOf(SubSeq(j.blocks, 1, pushed[l].line))
    BY <1>7 DEF Pushes
  <2>3. pushed[l].line \in 1..n
    BY <1>1, <1>2, <2>2, SMTT(20)
  <2> QED
    BY <2>1, <2>2, <2>3 DEF Reads
<1> QED
  BY <1>10 DEF Reporting

LEMMA ReportingStart ==
  ASSUME NEW j, NEW rows \in Seq(Row), NEW all, Starts(rows, all), Reporting(j, all)
  PROVE  Reporting(j, rows)
<1>1. /\ Len(rows) \in Nat /\ Len(all) \in Nat /\ Len(rows) <= Len(all)
      /\ \A i \in 1..Len(rows) : all[i] = rows[i]
      /\ \A i \in 0..Len(rows) : SubSeq(all, 1, i) = SubSeq(rows, 1, i)
  BY StartsIs, LenNat
<1>2. \A i \in 1..Len(rows) : i \in 1..Len(all) /\ i \in 0..Len(rows)
  BY <1>1
<1> QED
  BY <1>1, <1>2 DEF Reporting

-----------------------------------------------------------------------------
(* The table of some of the rows of a call starts its whole table.         *)

LEMMA TabledConcat ==
  ASSUME NEW rows \in Seq(Row), NEW more \in Seq(Row)
  PROVE  \E rest \in Seq(TableRow) : Tabled(rows \o more) = Tabled(rows) \o rest
<1> DEFINE T == {t \in Seq(Row) : \E rest \in Seq(TableRow) : Tabled(rows \o t) = Tabled(rows) \o rest}
<1>1. <<>> \in T
  <2>1. <<>> \in Seq(Row) /\ <<>> \in Seq(TableRow) /\ rows \o <<>> = rows
    BY EmptySeq, ConcatEmptySeq
  <2>2. Tabled(rows) = Tabled(rows) \o <<>>
    BY TabledType, ConcatEmptySeq
  <2> QED
    BY <2>1, <2>2
<1>2. ASSUME NEW t \in Seq(Row), NEW x \in Row, t \in T PROVE Append(t, x) \in T
  <2>1. PICK rest \in Seq(TableRow) : Tabled(rows \o t) = Tabled(rows) \o rest
    BY <1>2
  <2>2. rows \o Append(t, x) = Append(rows \o t, x) /\ rows \o t \in Seq(Row) /\ Append(t, x) \in Seq(Row)
    BY ConcatAppend, AppendProperties
  <2> DEFINE s == rows \o t
             y == MeantRow(s, x)
             a == Tabled(rows)
             b == Append(rest, y)
  <2>3. y \in TableRow /\ a \in Seq(TableRow)
    BY <2>2, MeantRowType, TabledType
  <2>4. Tabled(Append(s, x)) = IF Bare(x) THEN Tabled(s) ELSE Append(Tabled(s), y)
    BY <2>2, TabledAppend
  <2> HIDE DEF s, y, a
  <2>5. b \in Seq(TableRow) /\ a \o b = Append(a \o rest, y)
    BY <2>3, ConcatAppend, AppendProperties
  <2> HIDE DEF b
  <2>6. \E more2 \in Seq(TableRow) : Tabled(Append(s, x)) = a \o more2
    BY <2>1, <2>4, <2>5 DEF s, a
  <2> QED
    BY <2>2, <2>6 DEF s, a
<1> HIDE DEF T
<1>3. more \in T
  BY <1>1, <1>2, SeqInduction
<1> QED
  BY <1>3 DEF T

LEMMA PrefixOf ==
  ASSUME NEW S, NEW s \in Seq(S), NEW t \in Seq(S)
  PROVE  SubSeq(s \o t, 1, Len(s)) = s /\ Len(s) \in 0..Len(s \o t) /\ s \o t \in Seq(S)
<1> DEFINE u == s \o t
<1>1. /\ u \in Seq(S) /\ Len(u) = Len(s) + Len(t)
      /\ \A i \in 1..Len(s) + Len(t) : u[i] = IF i <= Len(s) THEN s[i] ELSE t[i - Len(s)]
  BY ConcatProperties
<1>2. Len(s) \in Nat /\ Len(t) \in Nat
  BY LenNat
<1> HIDE DEF u
<1>3. Len(s) \in 0..Len(u) /\ \A i \in 1..Len(s) : u[i] = s[i]
  BY <1>1, <1>2
<1>4. SubSeq(u, 1, Len(s)) = SubSeq(s, 1, Len(s))
  BY <1>1, <1>2, <1>3, PrefixSame
<1>5. SubSeq(s, 1, Len(s)) = s
  BY SubSeqFull
<1> QED
  BY <1>1, <1>3, <1>4, <1>5 DEF u

LEMMA TabledStarts ==
  ASSUME NEW rows \in Seq(Row), NEW all, Starts(rows, all)
  PROVE  /\ Len(Tabled(rows)) \in 0..Len(Tabled(all))
         /\ Tabled(rows) = SubSeq(Tabled(all), 1, Len(Tabled(rows)))
<1>1. PICK more \in Seq(Row) : all = rows \o more
  BY DEF Starts
<1>2. PICK rest \in Seq(TableRow) : Tabled(all) = Tabled(rows) \o rest
  BY <1>1, TabledConcat
<1>3. Tabled(rows) \in Seq(TableRow)
  BY TabledType
<1> QED
  BY <1>2, <1>3, PrefixOf

-----------------------------------------------------------------------------
(* What the rows some records stand for are, once those without cells are  *)
(* left out.                                                               *)
Shown(records) ==
  [i \in DOMAIN WithCells(records) |->
     [line |-> WithCells(records)[i].line, cells |-> WithCells(records)[i].cells]]

ShownRecord == [line : Nat, cells : Cells, changes : Seq(Names \X Values)]

LEMMA ShownType ==
  ASSUME NEW records \in Seq(ShownRecord)
  PROVE  Shown(records) \in Seq(TableRow)
<1>1. WithCells(records) \in Seq(ShownRecord)
  BY WithCellsType
<1> DEFINE kept == WithCells(records)
<1> HIDE DEF kept
<1>2. kept \in Seq(ShownRecord) /\ Len(kept) \in Nat /\ DOMAIN kept = 1..Len(kept)
  BY <1>1, LenProperties DEF kept
<1>3. \A i \in 1..Len(kept) : [line |-> kept[i].line, cells |-> kept[i].cells] \in TableRow
  <2>1. \A i \in 1..Len(kept) : kept[i] \in ShownRecord
    BY <1>2, ElementOfSeq
  <2> QED
    BY <2>1 DEF ShownRecord, TableRow
<1>4. Shown(records) = [i \in 1..Len(kept) |-> [line |-> kept[i].line, cells |-> kept[i].cells]]
  BY <1>2 DEF Shown, kept
<1> QED
  BY <1>2, <1>3, <1>4, IsASeq

LEMMA ShownEmpty == Shown(<<>>) = <<>>
<1>1. WithCells(<<>>) = <<>>
  BY WithCellsType, EmptySeq
<1> QED
  BY <1>1 DEF Shown

LEMMA ShownAppend ==
  ASSUME NEW records \in Seq(ShownRecord), NEW record \in ShownRecord
  PROVE  Shown(Append(records, record)) =
           IF Bare(record) THEN Shown(records)
           ELSE Append(Shown(records), [line |-> record.line, cells |-> record.cells])
<1> DEFINE kept == WithCells(records)
           more == WithCells(Append(records, record))
           n    == Len(kept)
           new  == [line |-> record.line, cells |-> record.cells]
<1>1. more = IF Bare(record) THEN kept ELSE Append(kept, record)
  BY WithCellsAppend
<1>2. Shown(records) = [i \in DOMAIN kept |-> [line |-> kept[i].line, cells |-> kept[i].cells]]
      /\ Shown(Append(records, record)) = [i \in DOMAIN more |-> [line |-> more[i].line, cells |-> more[i].cells]]
  BY DEF Shown
<1>3. kept \in Seq(ShownRecord) /\ Shown(records) \in Seq(TableRow)
  BY WithCellsType, ShownType
<1>4. new \in TableRow
  BY DEF TableRow, ShownRecord
<1> HIDE DEF kept, more, new
<1>5. CASE Bare(record)
  BY <1>1, <1>2, <1>5
<1>6. CASE ~Bare(record)
  <2>1. more = Append(kept, record)
    BY <1>1, <1>6
  <2>2. /\ n \in Nat /\ more \in Seq(ShownRecord) /\ Len(more) = n + 1 /\ more[n + 1] = record
        /\ \A i \in 1..n : more[i] = kept[i]
    BY <1>3, <2>1, Grown
  <2>3. DOMAIN more = 1..n + 1 /\ DOMAIN kept = 1..n
    BY <1>3, <2>2, LenProperties
  <2> DEFINE s == Shown(records)
             t == Append(s, new)
             u == Shown(Append(records, record))
  <2>4. s \in Seq(TableRow) /\ Len(s) = n
    <3>1. DOMAIN s = 1..n
      BY <1>2, <2>3
    <3> QED
      BY <1>3, <2>2, <3>1, LenProperties
  <2> HIDE DEF s, u
  <2>5. /\ t \in Seq(TableRow) /\ Len(t) = n + 1 /\ t[n + 1] = new
        /\ \A i \in 1..n : t[i] = s[i]
    BY <1>4, <2>4, Grown
  <2> HIDE DEF t
  <2>6. u = [i \in 1..n + 1 |-> [line |-> more[i].line, cells |-> more[i].cells]]
    BY <1>2, <2>3 DEF u
  <2>7. \A i \in 1..n + 1 : u[i] = t[i]
    <3> SUFFICES ASSUME NEW i \in 1..n + 1 PROVE u[i] = t[i]
      OBVIOUS
    <3>1. u[i] = [line |-> more[i].line, cells |-> more[i].cells]
      BY <2>6
    <3>2. CASE i = n + 1
      BY <2>2, <2>5, <3>1, <3>2 DEF new
    <3>3. CASE i # n + 1
      <4>1. i \in 1..n
        BY <2>2, <3>3
      <4>2. s[i] = [line |-> kept[i].line, cells |-> kept[i].cells]
        BY <1>2, <2>3, <4>1 DEF s
      <4> QED
        BY <2>2, <2>5, <3>1, <4>1, <4>2
    <3> QED
      BY <3>2, <3>3
  <2>8. u \in Seq(TableRow) /\ Len(u) = n + 1
    <3>1. \A i \in 1..n + 1 : t[i] \in TableRow
      BY <2>5, ElementOfSeq
    <3>2. \A i \in 1..n + 1 : u[i] \in TableRow
      BY <2>7, <3>1
    <3>3. n + 1 \in Nat
      BY <2>2
    <3>4. u = [i \in 1..n + 1 |-> u[i]]
      BY <2>6
    <3> QED
      BY <3>2, <3>3, <3>4, IsASeq
  <2>9. u = t
    BY <2>5, <2>7, <2>8, SeqEqual
  <2> QED
    BY <1>6, <2>9 DEF u, t, s, new
<1> QED
  BY <1>5, <1>6

-----------------------------------------------------------------------------
(* The worker's steps, as steps of what it owes.                           *)

LEMMA OwesNextRow ==
  ASSUME NEW j, IsJob(j), NEW k, NEW current \in Row, NEW fl, NEW due, Owes(j, "block", k, current, fl, due),
         k < Len(j.blocks), NEW new, Empty(new), NEW fl2, NEW due2,
         [fl |-> fl2, out |-> due2] = PassStep(j, [fl |-> fl, out |-> due], current)
  PROVE  Owes(j, "fill", k, new, fl2, due2) /\ FlatOK(fl2)
<1>1. /\ [fl |-> fl, out |-> due] \in PassState
      /\ PassStep(j, [fl |-> fl, out |-> due], current) = Passed(j)[k]
  BY OwesFlush, ZenonT(30)
<1>2. [fl |-> fl2, out |-> due2] \in PassState
  BY <1>1, PassStepType
<1>3. FlatOK(fl2) /\ due2 \in Seq(Row)
  BY <1>2, PassStateFields
<1> QED
  BY <1>1, <1>3 DEF Owes

LEMMA OwesLastRow ==
  ASSUME NEW j, IsJob(j), NEW k, NEW current \in Row, NEW fl, NEW due, Owes(j, "block", k, current, fl, due),
         k = Len(j.blocks), j.ending = "done", NEW new, NEW fl2, NEW due2,
         [fl |-> fl2, out |-> due2] = PassStep(j, [fl |-> fl, out |-> due], current)
  PROVE  Owes(j, "flush", k, new, fl2, due2) /\ FlatOK(fl2)
<1>1. /\ [fl |-> fl, out |-> due] \in PassState
      /\ PassStep(j, [fl |-> fl, out |-> due], current) = Passed(j)[k]
  BY OwesFlush
<1>2. [fl |-> fl2, out |-> due2] \in PassState
  BY <1>1, PassStepType
<1>3. FlatOK(fl2) /\ due2 \in Seq(Row)
  BY <1>2, PassStateFields
<1> QED
  BY <1>1, <1>3 DEF Owes

LEMMA OwesBlock ==
  ASSUME NEW j, IsJob(j), NEW k, NEW current, NEW fl, NEW due, Owes(j, "fill", k, current, fl, due),
         NEW base \in Row, Empty(base)
  PROVE  Owes(j, "block", k + 1, Written(base, BlockRow(j, k + 1)), fl, due)
<1>1. k \in 0..Len(j.blocks) /\ k < Len(j.blocks) /\ Len(j.blocks) \in Nat
      /\ [fl |-> fl, out |-> due] = Passed(j)[k] /\ due \in Seq(Row)
  BY PassedWalk DEF Owes
<1>2. k + 1 \in 1..Len(j.blocks) /\ k + 1 \in 0..Len(j.blocks) /\ k + 1 # 0 /\ (k + 1) - 1 = k
  BY <1>1
<1>3. Written(base, BlockRow(j, k + 1)) = BlockRow(j, k + 1)
  BY <1>2, BlockRowType, WrittenFresh
<1> DEFINE n == k + 1
<1> HIDE DEF n
<1>4. Owes(j, "block", n, BlockRow(j, n), fl, due)
  BY <1>1, <1>2 DEF Owes, n
<1> QED
  BY <1>3, <1>4 DEF n

LEMMA OwesOn ==
  ASSUME NEW j, NEW pc, NEW k, NEW current, NEW fl, NEW due, Owes(j, pc, k, current, fl, due),
         pc \notin {"block", "fill", "flush"},
         NEW pc2, pc2 \notin {"block", "fill", "flush"}, NEW current2, NEW fl2
  PROVE  Owes(j, pc2, k, current2, fl2, due)
BY DEF Owes

(* Handing the first of some rows over leaves the rows handed over and     *)
(* those not yet together the same.                                        *)
LEMMA HandOver ==
  ASSUME NEW S, NEW s \in Seq(S), NEW t \in Seq(S), t # <<>>
  PROVE  /\ Head(t) \in S /\ Tail(t) \in Seq(S) /\ Append(s, Head(t)) \in Seq(S)
         /\ Append(s, Head(t)) \o Tail(t) = s \o t
<1> DEFINE h == Head(t)
           r == Tail(t)
<1>1. h \in S /\ r \in Seq(S) /\ Len(t) \in Nat /\ Len(t) # 0
      /\ Len(r) = Len(t) - 1 /\ h = t[1] /\ \A i \in 1..Len(r) : r[i] = t[i + 1]
  BY HeadTailProperties, LenNat
<1> HIDE DEF h, r
<1> DEFINE a == Append(s, h)
           u == a \o r
           v == s \o t
<1>2. /\ Len(s) \in Nat /\ a \in Seq(S) /\ Len(a) = Len(s) + 1 /\ a[Len(s) + 1] = h
      /\ \A i \in 1..Len(s) : a[i] = s[i]
  BY <1>1, Grown
<1> HIDE DEF a
<1>3. /\ u \in Seq(S) /\ Len(u) = Len(a) + Len(r)
      /\ \A i \in 1..Len(a) + Len(r) : u[i] = IF i <= Len(a) THEN a[i] ELSE r[i - Len(a)]
  BY <1>1, <1>2, ConcatProperties
<1>4. /\ v \in Seq(S) /\ Len(v) = Len(s) + Len(t)
      /\ \A i \in 1..Len(s) + Len(t) : v[i] = IF i <= Len(s) THEN s[i] ELSE t[i - Len(s)]
  BY ConcatProperties
<1> HIDE DEF u, v
<1>5. \A i \in 1..Len(u) : u[i] = v[i]
  <2> SUFFICES ASSUME NEW i \in 1..Len(u) PROVE u[i] = v[i]
    OBVIOUS
  <2>1. i \in 1..Len(s) + Len(t) /\ i \in 1..Len(a) + Len(r)
    BY <1>1, <1>2, <1>3
  <2>2. CASE i <= Len(s)
    BY <1>2, <1>3, <1>4, <2>1, <2>2
  <2>3. CASE i = Len(s) + 1
    <3>1. i - Len(s) = 1 /\ ~(i <= Len(s)) /\ i <= Len(a)
      BY <1>2, <2>3
    <3> QED
      BY <1>1, <1>2, <1>3, <1>4, <2>1, <2>3, <3>1
  <2>4. CASE i > Len(s) + 1
    <3>1. i - Len(a) \in 1..Len(r) /\ (i - Len(a)) + 1 = i - Len(s) /\ ~(i <= Len(s)) /\ ~(i <= Len(a))
      BY <1>1, <1>2, <2>1, <2>4
    <3>2. r[i - Len(a)] = t[i - Len(s)]
      BY <1>1, <3>1
    <3> QED
      BY <1>3, <1>4, <2>1, <3>1, <3>2
  <2> QED
    BY <1>2, <2>1, <2>2, <2>3, <2>4
<1>6. Len(u) = Len(v)
  BY <1>1, <1>2, <1>3, <1>4
<1>7. u = v
  BY <1>3, <1>4, <1>5, <1>6, SeqEqual
<1> QED
  BY <1>1, <1>2, <1>7 DEF u, v, a, h, r

-----------------------------------------------------------------------------
(* What a reader of rows carries into the next one: the last value of each *)
(* filled column.                                                          *)
Carry(rows) == [c \in Columns |-> IF c \in ForwardFilled THEN LastIn(rows, Len(rows), c) ELSE Null]

LEMMA CarryEmpty == Carry(<<>>) = NoCells
<1>1. Len(<<>>) = 0
  BY EmptySeq
<1>2. \A c \in Columns : LastIn(<<>>, Len(<<>>), c) = Null
  BY <1>1, LastInNone
<1> QED
  BY <1>2 DEF Carry, NoCells

LEMMA CarryType ==
  ASSUME NEW rows \in Seq(Row)
  PROVE  Carry(rows) \in Cells
<1>1. Len(rows) \in 0..Len(rows)
  BY LenNat
<1>2. \A c \in Columns : LastIn(rows, Len(rows), c) \in Values \cup Words \cup {Null}
  BY <1>1, LastInType
<1> QED
  BY <1>2 DEF Carry, Cells

LEMMA CarryAppend ==
  ASSUME NEW rows \in Seq(Row), NEW row \in Row
  PROVE  /\ Carry(Append(rows, row)) =
              [c \in Columns |-> IF c \in ForwardFilled /\ row.cells[c] # Null THEN row.cells[c]
                                 ELSE Carry(rows)[c]]
         /\ Bare(row) => Carry(Append(rows, row)) = Carry(rows)
<1> DEFINE n   == Len(rows)
           all == Append(rows, row)
           new == Carry(all)
           old == Carry(rows)
<1>1. n \in Nat /\ Len(all) = n + 1 /\ all[n + 1] = row /\ \A i \in 1..n : all[i] = rows[i]
  BY Grown
<1> HIDE DEF all
<1>2. \A c : LastIn(all, n + 1, c) = IF row.cells[c] # Null THEN row.cells[c] ELSE LastIn(rows, n, c)
  <2> SUFFICES ASSUME NEW c
               PROVE  LastIn(all, n + 1, c) = IF row.cells[c] # Null THEN row.cells[c] ELSE LastIn(rows, n, c)
    OBVIOUS
  <2>1. LastIn(all, n, c) = LastIn(rows, n, c)
    BY <1>1, LastInBefore
  <2> QED
    BY <1>1, <2>1, LastInNext
<1>3. new = [c \in Columns |-> IF c \in ForwardFilled THEN LastIn(all, n + 1, c) ELSE Null]
      /\ old = [c \in Columns |-> IF c \in ForwardFilled THEN LastIn(rows, n, c) ELSE Null]
  BY <1>1 DEF Carry
<1> HIDE DEF new, old
<1>4. \A c \in Columns :
        new[c] = IF c \in ForwardFilled /\ row.cells[c] # Null THEN row.cells[c] ELSE old[c]
  <2> SUFFICES ASSUME NEW c \in Columns
               PROVE  new[c] = IF c \in ForwardFilled /\ row.cells[c] # Null THEN row.cells[c] ELSE old[c]
    OBVIOUS
  <2>1. new[c] = IF c \in ForwardFilled THEN LastIn(all, n + 1, c) ELSE Null
    BY <1>3
  <2>2. old[c] = IF c \in ForwardFilled THEN LastIn(rows, n, c) ELSE Null
    BY <1>3
  <2> QED
    BY <1>2, <2>1, <2>2
<1>5. new = [c \in Columns |-> IF c \in ForwardFilled /\ row.cells[c] # Null THEN row.cells[c] ELSE old[c]]
  <2>1. new = [c \in Columns |-> new[c]]
    BY <1>3
  <2> QED
    BY <1>4, <2>1
<1>6. Bare(row) => new = old
  <2> SUFFICES ASSUME Bare(row) PROVE new = old
    OBVIOUS
  <2>1. \A c \in Columns : row.cells[c] = Null
    BY RowFields, BareCells
  <2>2. old = [c \in Columns |-> old[c]]
    BY <1>3
  <2>3. new = [c \in Columns |-> old[c]]
    BY <1>5, <2>1
  <2> QED
    BY <2>2, <2>3
<1> QED
  BY <1>5, <1>6 DEF new, old, all

-----------------------------------------------------------------------------
(* Rows with cells: a table forgets the others.                            *)

Solid == {row \in Row : ~Bare(row)}

LEMMA SolidRows ==
  ASSUME NEW rows \in Seq(Solid)
  PROVE  rows \in Seq(Row) /\ \A i \in 1..Len(rows) : rows[i] \in Row /\ ~Bare(rows[i])
<1>1. Len(rows) \in Nat /\ rows \in [1..Len(rows) -> Solid]
  BY LenProperties
<1>2. \A i \in 1..Len(rows) : rows[i] \in Row /\ ~Bare(rows[i])
  BY <1>1 DEF Solid
<1>3. rows \in [1..Len(rows) -> Row]
  BY <1>1, <1>2
<1> QED
  BY <1>1, <1>2, <1>3

LEMMA KeptSolid ==
  ASSUME NEW rows \in Seq(Row)
  PROVE  WithCells(rows) \in Seq(Solid)
<1> DEFINE T == {s \in Seq(Row) : WithCells(s) \in Seq(Solid)}
<1>1. <<>> \in T
  BY EmptySeq, WithCellsType
<1>2. ASSUME NEW s \in Seq(Row), NEW x \in Row, s \in T PROVE Append(s, x) \in T
  <2> DEFINE k == WithCells(s)
  <2>1. Append(s, x) \in Seq(Row) /\ k \in Seq(Solid)
    BY <1>2, AppendProperties
  <2>2. WithCells(Append(s, x)) = IF Bare(x) THEN k ELSE Append(k, x)
    BY WithCellsAppend
  <2> HIDE DEF k
  <2>3. ~Bare(x) => Append(k, x) \in Seq(Solid)
    BY <2>1, AppendProperties DEF Solid
  <2> QED
    BY <2>1, <2>2, <2>3
<1> HIDE DEF T
<1>3. rows \in T
  BY <1>1, <1>2, SeqInduction
<1> QED
  BY <1>3 DEF T

LEMMA SolidKept ==
  ASSUME NEW rows \in Seq(Solid)
  PROVE  WithCells(rows) = rows
<1> DEFINE T == {s \in Seq(Solid) : WithCells(s) = s}
<1>1. <<>> \in T
  BY EmptySeq, WithCellsType
<1>2. ASSUME NEW s \in Seq(Solid), NEW x \in Solid, s \in T PROVE Append(s, x) \in T
  <2>1. WithCells(Append(s, x)) = Append(WithCells(s), x) /\ Append(s, x) \in Seq(Solid)
    BY WithCellsAppend, AppendProperties DEF Solid
  <2> QED
    BY <1>2, <2>1
<1> HIDE DEF T
<1>3. rows \in T
  BY <1>1, <1>2, SeqInduction
<1> QED
  BY <1>3 DEF T

LEMMA MeantCarry ==
  ASSUME NEW rows, NEW more, Carry(rows) = Carry(more), NEW row
  PROVE  MeantRow(rows, row) = MeantRow(more, row)
<1>1. \A c \in ForwardFilled : c \in Columns
  BY DEF ForwardFilled, Columns
<1>2. \A c \in ForwardFilled :
        Carry(rows)[c] = LastIn(rows, Len(rows), c) /\ Carry(more)[c] = LastIn(more, Len(more), c)
  BY <1>1 DEF Carry
<1>3. \A c \in ForwardFilled : LastIn(rows, Len(rows), c) = LastIn(more, Len(more), c)
  BY <1>2
<1> QED
  BY <1>3 DEF MeantRow

LEMMA KeptMeans ==
  ASSUME NEW rows \in Seq(Row)
  PROVE  Carry(WithCells(rows)) = Carry(rows) /\ Tabled(WithCells(rows)) = Tabled(rows)
<1> DEFINE T == {s \in Seq(Row) : /\ Carry(WithCells(s)) = Carry(s)
                                  /\ Tabled(WithCells(s)) = Tabled(s)}
<1>1. <<>> \in T
  BY EmptySeq, WithCellsType
<1>2. ASSUME NEW s \in Seq(Row), NEW x \in Row, s \in T PROVE Append(s, x) \in T
  <2> DEFINE k == WithCells(s)
  <2>1. Append(s, x) \in Seq(Row) /\ k \in Seq(Row) /\ Carry(k) = Carry(s) /\ Tabled(k) = Tabled(s)
    BY <1>2, AppendProperties, WithCellsType
  <2>2. WithCells(Append(s, x)) = IF Bare(x) THEN k ELSE Append(k, x)
    BY WithCellsAppend
  <2>3. Tabled(Append(s, x)) = IF Bare(x) THEN Tabled(s) ELSE Append(Tabled(s), MeantRow(s, x))
    BY TabledAppend
  <2> HIDE DEF k
  <2>4. Tabled(Append(k, x)) = IF Bare(x) THEN Tabled(k) ELSE Append(Tabled(k), MeantRow(k, x))
    BY <2>1, TabledAppend
  <2>5. MeantRow(k, x) = MeantRow(s, x)
    BY <2>1, MeantCarry
  <2>6. Carry(Append(k, x)) = Carry(Append(s, x)) /\ (Bare(x) => Carry(Append(s, x)) = Carry(s))
    BY <2>1, CarryAppend
  <2>7. Carry(WithCells(Append(s, x))) = Carry(Append(s, x))
    BY <2>1, <2>2, <2>6
  <2>8. Tabled(WithCells(Append(s, x))) = Tabled(Append(s, x))
    BY <2>1, <2>2, <2>3, <2>4, <2>5
  <2> QED
    BY <2>1, <2>7, <2>8
<1> HIDE DEF T
<1>3. rows \in T
  BY <1>1, <1>2, SeqInduction
<1> QED
  BY <1>3 DEF T

(* Every row with cells is a row of the table.                             *)
LEMMA SolidTabled ==
  ASSUME NEW rows \in Seq(Solid)
  PROVE  Tabled(rows) = Meant(rows)
<1> DEFINE T == {s \in Seq(Solid) : Tabled(s) = Meant(s)}
<1>1. <<>> \in T
  <2>1. <<>> \in Seq(Row) /\ Len(<<>>) = 0 /\ <<>> \in Seq(Solid)
    BY EmptySeq
  <2>2. Meant(<<>>) \in Seq(TableRow) /\ Len(Meant(<<>>)) = 0
    BY <2>1, MeantType
  <2>3. Meant(<<>>) = <<>>
    BY <2>2, LenNat
  <2> QED
    BY <2>1, <2>3, TabledEmpty
<1>2. ASSUME NEW s \in Seq(Solid), NEW x \in Solid, s \in T PROVE Append(s, x) \in T
  <2>1. s \in Seq(Row) /\ x \in Row /\ ~Bare(x) /\ Append(s, x) \in Seq(Solid)
    BY SolidRows, AppendProperties DEF Solid
  <2> QED
    BY <1>2, <2>1, TabledAppend, MeantAppend
<1> HIDE DEF T
<1>3. rows \in T
  BY <1>1, <1>2, SeqInduction
<1> QED
  BY <1>3 DEF T

(* The columns of some rows are those of their table.                      *)
LEMMA PresentAppend ==
  ASSUME NEW S, NEW rows \in Seq(S), NEW row \in S
  PROVE  Present(Append(rows, row)) = Present(rows) \cup {c \in Columns : row.cells[c] # Null}
<1> DEFINE n   == Len(rows)
           all == Append(rows, row)
<1>1. n \in Nat /\ all \in Seq(S) /\ Len(all) = n + 1 /\ all[n + 1] = row /\ \A i \in 1..n : all[i] = rows[i]
  BY Grown
<1>2. DOMAIN all = 1..n + 1 /\ DOMAIN rows = 1..n
  BY <1>1, LenProperties
<1> HIDE DEF all
<1>3. \A i \in 1..n + 1 : i = n + 1 \/ i \in 1..n
  BY <1>1
<1>4. n + 1 \in 1..n + 1 /\ \A i \in 1..n : i \in 1..n + 1
  BY <1>1
<1>5. \A c \in Columns : (\E i \in DOMAIN all : all[i].cells[c] # Null) <=>
                         (\E i \in DOMAIN rows : rows[i].cells[c] # Null) \/ row.cells[c] # Null
  <2> SUFFICES ASSUME NEW c \in Columns
               PROVE  (\E i \in 1..n + 1 : all[i].cells[c] # Null) <=>
                         (\E i \in 1..n : rows[i].cells[c] # Null) \/ row.cells[c] # Null
    BY <1>2
  <2>1. ASSUME NEW i \in 1..n + 1, all[i].cells[c] # Null
        PROVE  (\E k \in 1..n : rows[k].cells[c] # Null) \/ row.cells[c] # Null
    BY <1>1, <1>3, <2>1
  <2>2. ASSUME NEW i \in 1..n, rows[i].cells[c] # Null
        PROVE  \E k \in 1..n + 1 : all[k].cells[c] # Null
    BY <1>1, <1>4, <2>2
  <2>3. row.cells[c] # Null => \E k \in 1..n + 1 : all[k].cells[c] # Null
    BY <1>1, <1>4
  <2> QED
    BY <2>1, <2>2, <2>3
<1> QED
  BY <1>5 DEF Present, all

LEMMA PresentEmpty == Present(<<>>) = {}
BY DEF Present

LEMMA PresentConcat ==
  ASSUME NEW S, NEW rows \in Seq(S), NEW more \in Seq(S)
  PROVE  Present(rows \o more) = Present(rows) \cup Present(more)
<1> DEFINE T == {t \in Seq(S) : Present(rows \o t) = Present(rows) \cup Present(t)}
<1>1. <<>> \in T
  <2>1. <<>> \in Seq(S) /\ rows \o <<>> = rows
    BY EmptySeq, ConcatEmptySeq
  <2> QED
    BY <2>1, PresentEmpty
<1>2. ASSUME NEW t \in Seq(S), NEW x \in S, t \in T PROVE Append(t, x) \in T
  <2>1. rows \o Append(t, x) = Append(rows \o t, x) /\ rows \o t \in Seq(S) /\ Append(t, x) \in Seq(S)
    BY ConcatAppend, AppendProperties
  <2>2. Present(Append(rows \o t, x)) = Present(rows \o t) \cup {c \in Columns : x.cells[c] # Null}
    <3>1. \A s \in Seq(S) : Present(Append(s, x)) = Present(s) \cup {c \in Columns : x.cells[c] # Null}
      BY PresentAppend
    <3> QED
      BY <2>1, <3>1
  <2>3. Present(Append(t, x)) = Present(t) \cup {c \in Columns : x.cells[c] # Null}
    BY PresentAppend
  <2> QED
    BY <1>2, <2>1, <2>2, <2>3
<1> HIDE DEF T
<1>3. more \in T
  BY <1>1, <1>2, SeqInduction
<1> QED
  BY <1>3 DEF T

LEMMA PresentTabled ==
  ASSUME NEW rows \in Seq(Row)
  PROVE  /\ Present(Tabled(rows)) = Present(rows)
         /\ \A c \in Columns : Carry(rows)[c] # Null => c \in Present(rows)
<1> DEFINE T == {s \in Seq(Row) : /\ Present(Tabled(s)) = Present(s)
                                  /\ \A c \in Columns : Carry(s)[c] # Null => c \in Present(s)}
<1>1. <<>> \in T
  BY EmptySeq, TabledEmpty, PresentEmpty, CarryEmpty DEF NoCells
<1>2. ASSUME NEW s \in Seq(Row), NEW x \in Row, s \in T PROVE Append(s, x) \in T
  <2> DEFINE m   == MeantRow(s, x)
             own == {c \in Columns : x.cells[c] # Null}
  <2>1. /\ Append(s, x) \in Seq(Row) /\ Present(Tabled(s)) = Present(s)
        /\ \A c \in Columns : Carry(s)[c] # Null => c \in Present(s)
    BY <1>2, AppendProperties
  <2>2. Present(Append(s, x)) = Present(s) \cup own
    BY PresentAppend
  <2>3. Tabled(Append(s, x)) = IF Bare(x) THEN Tabled(s) ELSE Append(Tabled(s), m)
    BY TabledAppend
  <2>4. Present(Append(Tabled(s), m)) = Present(Tabled(s)) \cup {c \in Columns : m.cells[c] # Null}
    <3>1. m \in TableRow /\ Tabled(s) \in Seq(TableRow)
      BY MeantRowType, TabledType
    <3> HIDE DEF m
    <3> QED
      BY <3>1, PresentAppend
  <2>5. \A c \in Columns : m.cells[c] = x.cells[c] \/ m.cells[c] = Carry(s)[c]
    BY DEF MeantRow, Carry
  <2>6. \A c \in Columns : x.cells[c] # Null => m.cells[c] # Null
    BY DEF MeantRow
  <2>7. Bare(x) => own = {}
    BY RowFields, BareCells
  <2>8. /\ Carry(Append(s, x)) =
              [c \in Columns |-> IF c \in ForwardFilled /\ x.cells[c] # Null THEN x.cells[c] ELSE Carry(s)[c]]
    BY CarryAppend
  <2>9. \A c \in Columns : Carry(Append(s, x))[c] # Null => c \in Present(Append(s, x))
    <3> SUFFICES ASSUME NEW c \in Columns, Carry(Append(s, x))[c] # Null
                 PROVE  x.cells[c] # Null \/ Carry(s)[c] # Null
      BY <2>1, <2>2
    <3> QED
      BY <2>8
  <2> HIDE DEF m
  <2>10. Present(Tabled(Append(s, x))) = Present(Append(s, x))
    <3>1. CASE Bare(x)
      BY <2>1, <2>2, <2>3, <2>7, <3>1
    <3>2. CASE ~Bare(x)
      <4>1. {c \in Columns : m.cells[c] # Null} \subseteq Present(s) \cup own
        BY <2>1, <2>5
      <4>2. own \subseteq {c \in Columns : m.cells[c] # Null}
        BY <2>6
      <4> HIDE DEF own
      <4> QED
        BY <2>1, <2>2, <2>3, <2>4, <3>2, <4>1, <4>2
    <3> QED
      BY <3>1, <3>2
  <2> QED
    BY <2>1, <2>9, <2>10
<1> HIDE DEF T
<1>3. rows \in T
  BY <1>1, <1>2, SeqInduction
<1> QED
  BY <1>3 DEF T

-----------------------------------------------------------------------------
(* A column of a batch, filled from what the batches before left in it.    *)

LEMMA FilledWalk ==
  ASSUME NEW rows \in Seq(Row), NEW c \in Columns, NEW seed \in Values \cup Words \cup {Null}
  PROVE  /\ FilledColumn(rows, c, seed)[0] = seed
         /\ \A i \in 1..Len(rows) :
              FilledColumn(rows, c, seed)[i] =
                IF rows[i].cells[c] # Null THEN rows[i].cells[c] ELSE FilledColumn(rows, c, seed)[i - 1]
<1> DEFINE n == Len(rows)
           V == Values \cup Words \cup {Null}
           G == [iv \in (1..n) \X V |-> IF rows[iv[1]].cells[c] # Null THEN rows[iv[1]].cells[c] ELSE iv[2]]
           d == CHOOSE f : f = [i \in 0..n |->
                  IF i = 0 THEN seed ELSE IF rows[i].cells[c] # Null THEN rows[i].cells[c] ELSE f[i - 1]]
<1>1. n \in Nat /\ \A i \in 1..n : rows[i].cells[c] \in V
  <2>1. n \in Nat /\ \A i \in 1..n : rows[i] \in Row
    BY LenNat, ElementOfSeq
  <2> QED
    BY <2>1, RowFields DEF Cells
<1>2. \A iv \in (1..n) \X V : G[iv] \in V
  BY <1>1
<1>3. IsStep(G, n, V)
  BY <1>2 DEF IsStep
<1>4. \A i \in 1..n : \A v \in V : G[<<i, v>>] = IF rows[i].cells[c] # Null THEN rows[i].cells[c] ELSE v
  OBVIOUS
<1>5. seed \in V
  OBVIOUS
<1> HIDE DEF G, V
<1>6. PICK f \in [0..n -> V] : f[0] = seed /\ \A i \in 1..n : f[i] = G[<<i, f[i - 1]>>]
  <2> HIDE DEF n, d
  <2>1. n \in Nat
    BY <1>1
  <2> QED
    BY <2>1, <1>3, <1>5, Recursion DEF IsWalk
<1>7. \A i \in 1..n : f[i] = IF rows[i].cells[c] # Null THEN rows[i].cells[c] ELSE f[i - 1]
  <2> SUFFICES ASSUME NEW i \in 1..n
               PROVE  f[i] = IF rows[i].cells[c] # Null THEN rows[i].cells[c] ELSE f[i - 1]
    OBVIOUS
  <2>1. i - 1 \in 0..n
    BY <1>1
  <2>2. f[i - 1] \in V
    BY <1>6, <2>1
  <2> QED
    BY <1>4, <1>6, <2>2
<1>8. f = [i \in 0..n |-> IF i = 0 THEN seed
                          ELSE IF rows[i].cells[c] # Null THEN rows[i].cells[c] ELSE f[i - 1]]
  <2>1. \A i \in 0..n : f[i] = IF i = 0 THEN seed
                          ELSE IF rows[i].cells[c] # Null THEN rows[i].cells[c] ELSE f[i - 1]
    <3> SUFFICES ASSUME NEW i \in 0..n, i # 0
                 PROVE  f[i] = IF rows[i].cells[c] # Null THEN rows[i].cells[c] ELSE f[i - 1]
      BY <1>6
    <3>1. i \in 1..n
      BY <1>1
    <3> QED
      BY <1>7, <3>1
  <2> QED
    BY <1>6, <2>1
<1>9. d = [i \in 0..n |-> IF i = 0 THEN seed
                          ELSE IF rows[i].cells[c] # Null THEN rows[i].cells[c] ELSE d[i - 1]]
  BY <1>8
<1>10. FilledColumn(rows, c, seed) = d
  BY DEF FilledColumn
<1> HIDE DEF d
<1>11. d[0] = seed /\ \A i \in 1..n : d[i] = IF rows[i].cells[c] # Null THEN rows[i].cells[c] ELSE d[i - 1]
  <2> HIDE DEF n
  <2>1. \A i \in 0..n : d[i] = IF i = 0 THEN seed
                          ELSE IF rows[i].cells[c] # Null THEN rows[i].cells[c] ELSE d[i - 1]
    BY <1>9
  <2>2. 0 \in 0..n /\ \A i \in 1..n : i \in 0..n /\ i # 0
    BY <1>1
  <2> QED
    BY <2>1, <2>2
<1> QED
  BY <1>10, <1>11

LEMMA FilledIs ==
  ASSUME NEW before \in Seq(Row), NEW rows \in Seq(Row), NEW c \in Columns
  PROVE  \A i \in 0..Len(rows) :
           FilledColumn(rows, c, LastIn(before, Len(before), c))[i] = LastIn(before \o rows, Len(before) + i, c)
<1> DEFINE m    == Len(before)
           n    == Len(rows)
           all  == before \o rows
           seed == LastIn(before, m, c)
           f    == FilledColumn(rows, c, seed)
           M    == {i \in Nat : i <= n => f[i] = LastIn(all, m + i, c)}
<1>1. m \in Nat /\ n \in Nat /\ all \in Seq(Row)
      /\ \A i \in 1..m + n : all[i] = IF i <= m THEN before[i] ELSE rows[i - m]
  BY LenNat, ConcatProperties
<1>2. /\ f[0] = seed
      /\ \A i \in 1..n : f[i] = IF rows[i].cells[c] # Null THEN rows[i].cells[c] ELSE f[i - 1]
  <2>1. m \in 0..m
    BY <1>1
  <2>2. seed \in Values \cup Words \cup {Null}
    BY <2>1, LastInType
  <2> HIDE DEF seed
  <2> QED
    BY <2>2, FilledWalk
<1> HIDE DEF f, all, n
<1>3. 0 \in M
  <2>1. \A i \in 1..m : all[i] = before[i]
    BY <1>1
  <2>2. LastIn(all, m, c) = seed
    BY <1>1, <2>1, LastInBefore
  <2>3. m + 0 = m
    BY <1>1
  <2> QED
    BY <1>2, <2>2, <2>3
<1>4. ASSUME NEW i \in Nat, i \in M PROVE i + 1 \in M
  <2>1. SUFFICES ASSUME i + 1 <= n PROVE f[i + 1] = LastIn(all, m + (i + 1), c)
    OBVIOUS
  <2>2. i + 1 \in 1..n /\ (i + 1) - 1 = i /\ i <= n /\ f[i] = LastIn(all, m + i, c)
    BY <1>1, <1>4, <2>1
  <2>3. f[i + 1] = IF rows[i + 1].cells[c] # Null THEN rows[i + 1].cells[c] ELSE f[i]
    BY <1>2, <2>2
  <2> DEFINE k == m + i
  <2>4. k \in Nat /\ k + 1 \in 1..m + n /\ ~(k + 1 <= m) /\ (k + 1) - m = i + 1 /\ m + (i + 1) = k + 1
    BY <1>1, <2>2
  <2>5. all[k + 1] = rows[i + 1]
    BY <1>1, <2>4
  <2> HIDE DEF k
  <2>6. LastIn(all, k + 1, c) = IF all[k + 1].cells[c] # Null THEN all[k + 1].cells[c] ELSE LastIn(all, k, c)
    BY <2>4, LastInNext
  <2>7. f[i] = LastIn(all, k, c)
    BY <2>2 DEF k
  <2> QED
    BY <2>3, <2>4, <2>5, <2>6, <2>7
<1> HIDE DEF M
<1>5. Nat \subseteq M
  BY <1>3, <1>4, SetInduction
<1>6. \A i \in 0..n : i \in M /\ i <= n
  BY <1>1, <1>5
<1>7. \A i \in 0..n : f[i] = LastIn(all, m + i, c)
  BY <1>6 DEF M
<1> QED
  BY <1>7 DEF f, all, n

Batch == [columns : SUBSET Columns, rows : Seq(TableRow)]

(* The builder as it is after the rows before.                             *)
BuilderAt(builder, before) ==
  builder = [columns |-> Present(before), fill |-> Carry(before)]

LEMMA BuilderStart == BuilderAt(NewBuilder, <<>>)
BY PresentEmpty, CarryEmpty DEF BuilderAt, NewBuilder

(* A batch goes on where the batches before ended.                         *)
LEMMA BatchTable ==
  ASSUME NEW before \in Seq(Solid), NEW rows \in Seq(Solid), NEW builder, BuilderAt(builder, before)
  PROVE  /\ TableOf(builder, rows) \in Batch
         /\ Tabled(before \o rows) = Tabled(before) \o TableOf(builder, rows).rows
         /\ TableOf(builder, rows).columns = Present(before \o rows)
         /\ BuilderAt(Built(builder, rows), before \o rows)
         /\ before \o rows \in Seq(Solid)
<1> DEFINE m   == Len(before)
           n   == Len(rows)
           all == before \o rows
           old == Meant(before)
           new == Meant(all)
           fill == [c \in ForwardFilled |-> FilledColumn(rows, c, Carry(before)[c])]
           t   == [i \in 1..n |->
                     [line  |-> rows[i].line,
                      cells |-> [c \in Columns |-> IF c \in ForwardFilled THEN fill[c][i] ELSE rows[i].cells[c]]]]
<1>1. /\ before \in Seq(Row) /\ rows \in Seq(Row) /\ m \in Nat /\ n \in Nat
      /\ WithCells(rows) = rows /\ DOMAIN rows = 1..n
  BY SolidRows, SolidKept, LenNat, LenProperties
<1>2. /\ all \in Seq(Row) /\ all \in Seq(Solid) /\ Len(all) = m + n
      /\ \A i \in 1..m + n : all[i] = IF i <= m THEN before[i] ELSE rows[i - m]
  BY <1>1, ConcatProperties
<1>3. builder.columns = Present(before) /\ builder.fill = Carry(before)
  BY DEF BuilderAt
<1>4. Present(all) = Present(before) \cup Present(rows)
  BY <1>1, PresentConcat
<1>5. TableOf(builder, rows) = [columns |-> Present(before) \cup Present(rows), rows |-> t]
  BY <1>1, <1>3 DEF TableOf
<1>6. \A c \in ForwardFilled : c \in Columns /\ Carry(before)[c] = LastIn(before, m, c)
  BY DEF Carry, ForwardFilled, Columns
<1>7. \A c \in ForwardFilled : \A i \in 0..n : FilledColumn(rows, c, Carry(before)[c])[i] = LastIn(all, m + i, c)
  BY <1>1, <1>6, FilledIs
<1>8. old \in Seq(TableRow) /\ Len(old) = m /\ new \in Seq(TableRow) /\ Len(new) = m + n
      /\ Tabled(before) = old /\ Tabled(all) = new
  BY <1>1, <1>2, MeantType, SolidTabled
<1>9. \A i \in 1..n : t[i] = new[m + i]
  <2> SUFFICES ASSUME NEW i \in 1..n PROVE t[i] = new[m + i]
    OBVIOUS
  <2>1. i \in 0..n /\ m + i \in 1..m + n /\ ~(m + i <= m) /\ (m + i) - m = i
    BY <1>1
  <2>2. all[m + i] = rows[i] /\ m + i \in DOMAIN all
    BY <1>2, <2>1, LenProperties
  <2>3. new[m + i] = [line  |-> rows[i].line,
                      cells |-> [c \in Columns |-> IF c \in ForwardFilled THEN LastIn(all, m + i, c)
                                                   ELSE rows[i].cells[c]]]
    <3> HIDE DEF all
    <3> QED
      BY <2>2 DEF Meant
  <2>4. \A c \in ForwardFilled : fill[c][i] = LastIn(all, m + i, c)
    BY <1>7, <2>1
  <2> HIDE DEF new, fill, all
  <2>5. t[i] = [line  |-> rows[i].line,
                cells |-> [c \in Columns |-> IF c \in ForwardFilled THEN fill[c][i] ELSE rows[i].cells[c]]]
    OBVIOUS
  <2>6. [c \in Columns |-> IF c \in ForwardFilled THEN fill[c][i] ELSE rows[i].cells[c]]
         = [c \in Columns |-> IF c \in ForwardFilled THEN LastIn(all, m + i, c) ELSE rows[i].cells[c]]
    BY <2>4
  <2> QED
    BY <2>3, <2>5, <2>6
<1>10. t \in Seq(TableRow) /\ Len(t) = n
  <2>1. \A i \in 1..n : t[i] \in TableRow
    <3> SUFFICES ASSUME NEW i \in 1..n PROVE t[i] \in TableRow
      OBVIOUS
    <3>1. m + i \in 1..m + n
      BY <1>1
    <3>2. new[m + i] \in TableRow
      BY <1>8, <3>1, ElementOfSeq
    <3> QED
      BY <1>9, <3>2
  <2>2. t = [i \in 1..n |-> t[i]]
    OBVIOUS
  <2> HIDE DEF t, n
  <2> QED
    BY <1>1, <2>1, <2>2, IsASeq
<1>11. \A i \in 1..m : old[i] = new[i]
  <2> SUFFICES ASSUME NEW i \in 1..m PROVE old[i] = new[i]
    OBVIOUS
  <2>1. i \in 1..m + n /\ i <= m /\ i \in Nat /\ \A k \in 1..i : k \in 1..m + n /\ k <= m
    BY <1>1
  <2>2. all[i] = before[i] /\ i \in DOMAIN all /\ i \in DOMAIN before /\ \A k \in 1..i : all[k] = before[k]
    BY <1>1, <1>2, <2>1, LenProperties
  <2> HIDE DEF all
  <2>3. \A c : LastIn(all, i, c) = LastIn(before, i, c)
    BY <2>1, <2>2, LastInBefore
  <2>4. [c \in Columns |-> IF c \in ForwardFilled THEN LastIn(all, i, c) ELSE all[i].cells[c]]
         = [c \in Columns |-> IF c \in ForwardFilled THEN LastIn(before, i, c) ELSE before[i].cells[c]]
    BY <2>2, <2>3
  <2> QED
    BY <2>2, <2>4 DEF Meant
<1>12. new = old \o t
  <2> HIDE DEF new, old, t
  <2> DEFINE u == old \o t
  <2>1. /\ u \in Seq(TableRow) /\ Len(u) = m + n
        /\ \A i \in 1..m + n : u[i] = IF i <= m THEN old[i] ELSE t[i - m]
    <3> HIDE DEF m, n
    <3>1. old \in Seq(TableRow) /\ t \in Seq(TableRow) /\ Len(old) = m /\ Len(t) = n
      BY <1>8, <1>10
    <3>2. /\ u \in Seq(TableRow) /\ Len(u) = Len(old) + Len(t)
          /\ \A i \in 1..Len(old) + Len(t) : u[i] = IF i <= Len(old) THEN old[i] ELSE t[i - Len(old)]
      BY <3>1, ConcatProperties
    <3> QED
      BY <3>1, <3>2
  <2> HIDE DEF u
  <2>2. \A i \in 1..m + n : u[i] = new[i]
    <3> SUFFICES ASSUME NEW i \in 1..m + n PROVE u[i] = new[i]
      OBVIOUS
    <3>1. CASE i <= m
      <4>1. i \in 1..m
        BY <1>1, <3>1
      <4> QED
        BY <1>11, <2>1, <3>1, <4>1
    <3>2. CASE ~(i <= m)
      <4>1. i - m \in 1..n /\ m + (i - m) = i
        BY <1>1, <3>2
      <4> QED
        BY <1>9, <2>1, <3>2, <4>1
    <3> QED
      BY <3>1, <3>2
  <2>3. u = new
    BY <1>8, <2>1, <2>2, SeqEqual
  <2> QED
    BY <2>3 DEF u
<1>13. Built(builder, rows).fill = Carry(all)
  <2>1. n \in 0..n
    BY <1>1
  <2>2. \A c \in ForwardFilled : FilledColumn(rows, c, Carry(before)[c])[n] = LastIn(all, Len(all), c)
    BY <1>2, <1>7, <2>1
  <2>3. Built(builder, rows).fill =
          [c \in Columns |-> IF c \in ForwardFilled THEN FilledColumn(rows, c, Carry(before)[c])[n] ELSE Null]
    BY <1>1, <1>3 DEF Built
  <2> HIDE DEF all, n
  <2> QED
    BY <2>2, <2>3 DEF Carry
<1>14. BuilderAt(Built(builder, rows), all)
  <2>1. Built(builder, rows) = [columns |-> Built(builder, rows).columns, fill |-> Built(builder, rows).fill]
        /\ Built(builder, rows).columns = Present(before) \cup Present(rows)
    BY <1>1, <1>3 DEF Built
  <2> QED
    BY <1>4, <1>13, <2>1 DEF BuilderAt
<1> HIDE DEF t, new, old
<1>15. TableOf(builder, rows) \in Batch /\ TableOf(builder, rows).rows = t
       /\ TableOf(builder, rows).columns = Present(all)
  <2>1. Present(all) \subseteq Columns
    BY DEF Present
  <2> QED
    BY <1>4, <1>5, <1>10, <2>1 DEF Batch
<1> QED
  BY <1>2, <1>8, <1>12, <1>14, <1>15

-----------------------------------------------------------------------------
(* Batches, one after the other.                                           *)

Joined(batches) == FlattenSeq([k \in DOMAIN batches |-> batches[k].rows])

LEMMA JoinedSeq ==
  ASSUME NEW batches \in Seq(Batch)
  PROVE  [k \in DOMAIN batches |-> batches[k].rows] \in Seq(Seq(TableRow))
<1>1. Len(batches) \in Nat /\ DOMAIN batches = 1..Len(batches) /\ \A i \in 1..Len(batches) : batches[i] \in Batch
  BY LenProperties, ElementOfSeq
<1>2. [k \in DOMAIN batches |-> batches[k].rows] \in [1..Len(batches) -> Seq(TableRow)]
  BY <1>1 DEF Batch
<1> QED
  BY <1>1, <1>2

LEMMA JoinedEmpty == Joined(<<>>) = <<>>
<1>1. [k \in DOMAIN <<>> |-> <<>>[k].rows] = <<>>
  OBVIOUS
<1> QED
  BY <1>1, FlattenEmpty DEF Joined

LEMMA JoinedType ==
  ASSUME NEW batches \in Seq(Batch)
  PROVE  Joined(batches) \in Seq(TableRow)
BY JoinedSeq, FlattenType DEF Joined

LEMMA JoinedAppend ==
  ASSUME NEW batches \in Seq(Batch), NEW batch \in Batch
  PROVE  Joined(Append(batches, batch)) = Joined(batches) \o batch.rows
<1> DEFINE n    == Len(batches)
           some == [k \in DOMAIN batches |-> batches[k].rows]
           more == Append(batches, batch)
           all  == [k \in DOMAIN more |-> more[k].rows]
           u    == Append(some, batch.rows)
<1>1. n \in Nat /\ more \in Seq(Batch) /\ Len(more) = n + 1 /\ more[n + 1] = batch
      /\ \A i \in 1..n : more[i] = batches[i]
  BY Grown
<1>2. DOMAIN batches = 1..n /\ DOMAIN more = 1..n + 1
  BY <1>1, LenProperties
<1>3. some \in Seq(Seq(TableRow)) /\ batch.rows \in Seq(TableRow)
  BY JoinedSeq DEF Batch
<1>4. all \in Seq(Seq(TableRow))
  <2> HIDE DEF more
  <2> QED
    BY <1>1, JoinedSeq
<1> HIDE DEF more
<1>5. Len(some) = n /\ Len(all) = n + 1
  BY <1>1, <1>2
<1>6. all[n + 1] = batch.rows /\ \A i \in 1..n : all[i] = some[i]
  BY <1>1, <1>2
<1> HIDE DEF some, all
<1>7. /\ u \in Seq(Seq(TableRow)) /\ Len(u) = n + 1 /\ u[n + 1] = batch.rows
      /\ \A i \in 1..n : u[i] = some[i]
  <2> DEFINE b == batch.rows
  <2> HIDE DEF b
  <2>1. b \in Seq(TableRow)
    BY <1>3 DEF b
  <2>2. /\ Append(some, b) \in Seq(Seq(TableRow)) /\ Len(Append(some, b)) = n + 1
        /\ Append(some, b)[n + 1] = b /\ \A i \in 1..n : Append(some, b)[i] = some[i]
    BY <1>3, <1>5, <2>1, AppendProperties
  <2> QED
    BY <2>2 DEF b
<1>8. \A i \in 1..n + 1 : all[i] = u[i]
  BY <1>1, <1>6, <1>7
<1>9. all = u
  BY <1>4, <1>5, <1>7, <1>8, SeqEqual
<1>10. FlattenSeq(u) = FlattenSeq(some) \o batch.rows
  BY <1>3, FlattenAppend
<1> QED
  BY <1>9, <1>10 DEF Joined, all, some, more

(* t goes on where s ends.                                                 *)
Begins(s, t) == \E more \in Seq(TableRow) : t = s \o more

LEMMA BeginsSame ==
  ASSUME NEW s \in Seq(TableRow)
  PROVE  Begins(s, s)
<1>1. <<>> \in Seq(TableRow) /\ s = s \o <<>>
  BY EmptySeq, ConcatEmptySeq
<1> QED
  BY <1>1 DEF Begins

LEMMA BeginsThrough ==
  ASSUME NEW s \in Seq(TableRow), NEW t, NEW u, Begins(s, t), Begins(t, u)
  PROVE  Begins(s, u)
<1>1. PICK more \in Seq(TableRow) : t = s \o more
  BY DEF Begins
<1>2. PICK rest \in Seq(TableRow) : u = t \o rest
  BY DEF Begins
<1>3. \A a, b, c \in Seq(TableRow) : (a \o b) \o c = a \o (b \o c) /\ b \o c \in Seq(TableRow)
  BY ConcatAssociative, ConcatProperties, SMTT(20)
<1>4. u = s \o (more \o rest) /\ more \o rest \in Seq(TableRow)
  BY <1>1, <1>2, <1>3
<1> QED
  BY <1>4 DEF Begins

LEMMA TabledBegins ==
  ASSUME NEW rows \in Seq(Row), NEW all, Starts(rows, all)
  PROVE  Begins(Tabled(rows), Tabled(all))
BY TabledConcat DEF Starts, Begins

LEMMA JoinedBegins ==
  ASSUME NEW batches \in Seq(Batch), NEW more \in Seq(Batch)
  PROVE  Begins(Joined(batches), Joined(batches \o more))
<1> DEFINE T == {t \in Seq(Batch) : Begins(Joined(batches), Joined(batches \o t))}
<1>1. <<>> \in T
  <2>1. <<>> \in Seq(Batch) /\ batches \o <<>> = batches
    BY EmptySeq, ConcatEmptySeq
  <2> QED
    BY <2>1, JoinedType, BeginsSame
<1>2. ASSUME NEW t \in Seq(Batch), NEW x \in Batch, t \in T PROVE Append(t, x) \in T
  <2>1. batches \o Append(t, x) = Append(batches \o t, x) /\ batches \o t \in Seq(Batch) /\ Append(t, x) \in Seq(Batch)
    BY ConcatAppend, AppendProperties
  <2>2. Joined(Append(batches \o t, x)) = Joined(batches \o t) \o x.rows
    <3>1. \A s \in Seq(Batch) : Joined(Append(s, x)) = Joined(s) \o x.rows
      BY JoinedAppend
    <3> QED
      BY <2>1, <3>1
  <2>3. Begins(Joined(batches), Joined(batches \o t))
    BY <1>2
  <2>4. Begins(Joined(batches \o t), Joined(batches \o t) \o x.rows)
    BY DEF Begins, Batch
  <2>5. Begins(Joined(batches), Joined(batches \o Append(t, x)))
    <3>1. Joined(batches) \in Seq(TableRow)
      BY JoinedType
    <3> QED
      BY <2>1, <2>2, <2>3, <2>4, <3>1, BeginsThrough
  <2> QED
    BY <2>1, <2>5
<1> HIDE DEF T
<1>3. more \in T
  BY <1>1, <1>2, SeqInduction
<1> QED
  BY <1>3 DEF T

(* The columns of each batch are those of the rows up to its last.         *)
Sound(batches) ==
  /\ batches \in Seq(Batch)
  /\ \A k \in 1..Len(batches) : batches[k].columns = Present(Joined(SubSeq(batches, 1, k)))

LEMMA SoundEmpty == Sound(<<>>)
<1>1. <<>> \in Seq(Batch) /\ Len(<<>>) = 0
  BY EmptySeq
<1>2. \A k \in 1..Len(<<>>) : FALSE
  BY <1>1
<1> QED
  BY <1>1, <1>2 DEF Sound

LEMMA SoundAppend ==
  ASSUME NEW batches, Sound(batches), NEW batch \in Batch,
         batch.columns = Present(Joined(batches) \o batch.rows)
  PROVE  Sound(Append(batches, batch))
<1> DEFINE n   == Len(batches)
           all == Append(batches, batch)
<1>1. batches \in Seq(Batch)
  BY DEF Sound
<1>2. n \in Nat /\ all \in Seq(Batch) /\ Len(all) = n + 1 /\ all[n + 1] = batch
      /\ \A i \in 1..n : all[i] = batches[i]
  BY <1>1, Grown
<1>3. Joined(all) = Joined(batches) \o batch.rows
  BY <1>1, JoinedAppend
<1> HIDE DEF all
<1>4. SubSeq(all, 1, n + 1) = all
  BY <1>2, SubSeqFull
<1>5. \A k \in 1..n : SubSeq(all, 1, k) = SubSeq(batches, 1, k)
  <2> SUFFICES ASSUME NEW k \in 1..n PROVE SubSeq(all, 1, k) = SubSeq(batches, 1, k)
    OBVIOUS
  <2>1. k \in Nat /\ k <= Len(all) /\ k <= Len(batches) /\ \A i \in 1..k : all[i] = batches[i]
    BY <1>2
  <2> QED
    BY <1>1, <1>2, <2>1, PrefixSame
<1>6. ASSUME NEW k \in 1..Len(all) PROVE all[k].columns = Present(Joined(SubSeq(all, 1, k)))
  <2>1. CASE k = n + 1
    BY <1>2, <1>3, <1>4, <2>1
  <2>2. CASE k # n + 1
    <3>1. k \in 1..n
      BY <1>2, <2>2
    <3> QED
      BY <1>2, <1>5, <3>1 DEF Sound
  <2> QED
    BY <2>1, <2>2
<1> QED
  BY <1>2, <1>6 DEF Sound, all

LEMMA SoundPrefix ==
  ASSUME NEW batches \in Seq(Batch), NEW more \in Seq(Batch), Sound(batches \o more)
  PROVE  Sound(batches)
<1> DEFINE all == batches \o more
           n   == Len(batches)
<1>1. /\ all \in Seq(Batch) /\ Len(all) = n + Len(more)
      /\ \A i \in 1..n + Len(more) : all[i] = IF i <= n THEN batches[i] ELSE more[i - n]
  BY ConcatProperties
<1>2. n \in Nat /\ Len(more) \in Nat
  BY LenNat
<1>3. \A k \in 1..Len(all) : all[k].columns = Present(Joined(SubSeq(all, 1, k)))
  BY DEF Sound
<1> HIDE DEF all
<1>4. ASSUME NEW k \in 1..n PROVE batches[k].columns = Present(Joined(SubSeq(batches, 1, k)))
  <2>1. /\ k \in Nat /\ k <= Len(all) /\ k <= n /\ k \in 1..Len(all) /\ all[k] = batches[k]
        /\ \A i \in 1..k : all[i] = batches[i]
    BY <1>1, <1>2
  <2>2. SubSeq(all, 1, k) = SubSeq(batches, 1, k)
    BY <1>1, <2>1, PrefixSame
  <2> QED
    BY <1>3, <2>1, <2>2
<1> QED
  BY <1>4 DEF Sound

-----------------------------------------------------------------------------
(* The log of variable events.                                             *)

Event == [row : Nat, change : Names \X Values]

Stamped(count, changes) == [i \in DOMAIN changes |-> [row |-> count, change |-> changes[i]]]

(* The changes at or before a row.                                         *)
UpTo(log, n)    == Picked(log, {i \in DOMAIN log : log[i].row <= n})
Changed(log, n) == [i \in DOMAIN UpTo(log, n) |-> UpTo(log, n)[i].change]

LEMMA ChangedType ==
  ASSUME NEW log \in Seq(Event), NEW n
  PROVE  UpTo(log, n) \in Seq(Event) /\ Changed(log, n) \in Seq(Names \X Values)
         /\ Len(Changed(log, n)) = Len(UpTo(log, n))
<1> DEFINE u == UpTo(log, n)
           m == Len(u)
<1>1. u \in Seq(Event)
  BY PickedType DEF UpTo
<1> HIDE DEF u
<1>2. m \in Nat /\ DOMAIN u = 1..m /\ \A i \in 1..m : u[i] \in Event
  BY <1>1, LenProperties, ElementOfSeq
<1>3. \A i \in 1..m : u[i].change \in Names \X Values
  BY <1>2 DEF Event
<1>4. [i \in DOMAIN u |-> u[i].change] = [i \in 1..m |-> u[i].change]
  BY <1>2
<1> HIDE DEF m
<1>5. [i \in 1..m |-> u[i].change] \in Seq(Names \X Values) /\ Len([i \in 1..m |-> u[i].change]) = m
  BY <1>2, <1>3, IsASeq
<1> QED
  BY <1>1, <1>4, <1>5 DEF Changed, u, m

LEMMA ChangedEmpty == \A n : Changed(<<>>, n) = <<>>
<1>1. \A n : UpTo(<<>>, n) = <<>>
  BY PickedEmpty DEF UpTo
<1> QED
  BY <1>1 DEF Changed

LEMMA ChangedAppend ==
  ASSUME NEW log \in Seq(Event), NEW e \in Event, NEW n
  PROVE  Changed(Append(log, e), n) = IF e.row <= n THEN Append(Changed(log, n), e.change) ELSE Changed(log, n)
<1> DEFINE m    == Len(log)
           all  == Append(log, e)
           some == {i \in DOMAIN log : log[i].row <= n}
           more == {i \in DOMAIN all : all[i].row <= n}
           u    == UpTo(log, n)
           v    == UpTo(all, n)
<1>1. m \in Nat /\ all \in Seq(Event) /\ Len(all) = m + 1 /\ all[m + 1] = e /\ \A i \in 1..m : all[i] = log[i]
  BY Grown
<1>2. DOMAIN all = 1..m + 1 /\ DOMAIN log = 1..m
  BY <1>1, LenProperties
<1>3. (\A i \in 1..m : i \in more <=> i \in some) /\ (m + 1 \in more <=> e.row <= n)
  <2> HIDE DEF all
  <2>1. \A i \in 1..m : i \in 1..m + 1
    BY <1>1
  <2>2. m + 1 \in 1..m + 1
    BY <1>1
  <2> QED
    BY <1>1, <1>2, <2>1, <2>2
<1>4. v = IF e.row <= n THEN Append(u, e) ELSE u
  <2>1. Picked(Append(log, e), more) = IF m + 1 \in more THEN Append(Picked(log, some), e) ELSE Picked(log, some)
    <3> HIDE DEF more, some
    <3> QED
      BY <1>3, PickedAppend
  <2> QED
    BY <1>3, <2>1 DEF UpTo
<1> HIDE DEF all, some, more
<1> DEFINE c == Changed(log, n)
           d == Append(c, e.change)
           f == [i \in DOMAIN v |-> v[i].change]
<1>5. u \in Seq(Event) /\ c \in Seq(Names \X Values) /\ Len(c) = Len(u) /\ Len(u) \in Nat
      /\ c = [i \in DOMAIN u |-> u[i].change]
  BY ChangedType, LenNat DEF Changed
<1> HIDE DEF u, v, c
<1>6. CASE e.row <= n
  <2>1. v = Append(u, e)
    BY <1>4, <1>6
  <2>2. /\ v \in Seq(Event) /\ Len(v) = Len(u) + 1 /\ v[Len(u) + 1] = e /\ \A i \in 1..Len(u) : v[i] = u[i]
    BY <1>5, <2>1, Grown
  <2>3. DOMAIN v = 1..Len(u) + 1 /\ DOMAIN u = 1..Len(u)
    BY <1>5, <2>2, LenProperties
  <2>4. e.change \in Names \X Values
    BY DEF Event
  <2>5. d \in Seq(Names \X Values) /\ Len(d) = Len(u) + 1 /\ d[Len(u) + 1] = e.change
        /\ \A i \in 1..Len(u) : d[i] = c[i]
    <3> DEFINE x == e.change
    <3> HIDE DEF x
    <3>1. x \in Names \X Values
      BY <2>4 DEF x
    <3>2. Append(c, x) \in Seq(Names \X Values) /\ Len(Append(c, x)) = Len(u) + 1 /\ Append(c, x)[Len(u) + 1] = x
          /\ \A i \in 1..Len(u) : Append(c, x)[i] = c[i]
      BY <1>5, <3>1, Grown
    <3> QED
      BY <3>2 DEF x
  <2> HIDE DEF d
  <2>6. DOMAIN d = 1..Len(u) + 1
    BY <2>5, LenProperties
  <2>7. \A i \in 1..Len(u) + 1 : d[i] = v[i].change
    <3> SUFFICES ASSUME NEW i \in 1..Len(u) + 1 PROVE d[i] = v[i].change
      OBVIOUS
    <3>1. CASE i = Len(u) + 1
      BY <2>2, <2>5, <3>1
    <3>2. CASE i # Len(u) + 1
      <4>1. i \in 1..Len(u)
        BY <1>5, <3>2
      <4>2. d[i] = c[i] /\ v[i] = u[i] /\ c[i] = u[i].change
        BY <1>5, <2>2, <2>3, <2>5, <4>1
      <4> QED
        BY <4>2
    <3> QED
      BY <3>1, <3>2
  <2>8. d = [i \in DOMAIN d |-> d[i]]
    BY <2>5, LenProperties
  <2>9. f = d
    BY <2>3, <2>6, <2>7, <2>8
  <2> QED
    BY <1>6, <2>9 DEF Changed, v, d, c, all
<1>7. CASE ~(e.row <= n)
  BY <1>4, <1>5, <1>7 DEF Changed, v, c, u, all
<1> QED
  BY <1>6, <1>7

LEMMA StampedAppend ==
  ASSUME NEW count \in Nat, NEW changes \in Seq(Names \X Values), NEW x \in Names \X Values
  PROVE  /\ Stamped(count, changes) \in Seq(Event)
         /\ Stamped(count, Append(changes, x)) = Append(Stamped(count, changes), [row |-> count, change |-> x])
<1> DEFINE n   == Len(changes)
           all == Append(changes, x)
           s   == Stamped(count, changes)
           e   == [row |-> count, change |-> x]
           t   == Stamped(count, all)
           u   == Append(s, e)
<1>1. n \in Nat /\ all \in Seq(Names \X Values) /\ Len(all) = n + 1 /\ all[n + 1] = x
      /\ \A i \in 1..n : all[i] = changes[i]
  BY Grown
<1>2. DOMAIN changes = 1..n /\ DOMAIN all = 1..n + 1 /\ \A i \in 1..n : changes[i] \in Names \X Values
  BY <1>1, LenProperties, ElementOfSeq
<1>3. s = [i \in 1..n |-> [row |-> count, change |-> changes[i]]]
  BY <1>2 DEF Stamped
<1>4. t = [i \in 1..n + 1 |-> [row |-> count, change |-> all[i]]]
  BY <1>2 DEF Stamped
<1>5. \A i \in 1..n : [row |-> count, change |-> changes[i]] \in Event
  BY <1>2 DEF Event
<1>6. e \in Event
  BY DEF Event
<1> HIDE DEF all, n, e, t
<1>7. s \in Seq(Event) /\ Len(s) = n
  BY <1>1, <1>3, <1>5, IsASeq, SMTT(20)
<1> HIDE DEF s
<1>8. /\ u \in Seq(Event) /\ Len(u) = n + 1 /\ u[n + 1] = e /\ \A i \in 1..n : u[i] = s[i]
  BY <1>6, <1>7, Grown
<1> HIDE DEF u
<1>9. DOMAIN u = 1..n + 1 /\ u = [i \in DOMAIN u |-> u[i]]
  BY <1>8, LenProperties
<1>10. \A i \in 1..n + 1 : u[i] = [row |-> count, change |-> all[i]]
  <2> SUFFICES ASSUME NEW i \in 1..n + 1 PROVE u[i] = [row |-> count, change |-> all[i]]
    OBVIOUS
  <2>1. CASE i = n + 1
    BY <1>1, <1>8, <2>1 DEF e
  <2>2. CASE i # n + 1
    <3>1. i \in 1..n
      BY <1>1, <2>2
    <3> QED
      BY <1>1, <1>3, <1>8, <3>1
  <2> QED
    BY <2>1, <2>2
<1>11. u = t
  BY <1>4, <1>9, <1>10
<1> QED
  BY <1>7, <1>11 DEF u, t, s, e, all

LEMMA ChangedConcat ==
  ASSUME NEW log \in Seq(Event), NEW count \in Nat, NEW changes \in Seq(Names \X Values)
  PROVE  /\ log \o Stamped(count, changes) \in Seq(Event)
         /\ \A n : Changed(log \o Stamped(count, changes), n) =
                     IF count <= n THEN Changed(log, n) \o changes ELSE Changed(log, n)
<1> DEFINE T == {t \in Seq(Names \X Values) :
                   /\ log \o Stamped(count, t) \in Seq(Event)
                   /\ \A n : Changed(log \o Stamped(count, t), n) =
                               IF count <= n THEN Changed(log, n) \o t ELSE Changed(log, n)}
<1>1. <<>> \in T
  <2>1. Stamped(count, <<>>) = <<>> /\ log \o <<>> = log /\ <<>> \in Seq(Names \X Values)
    BY EmptySeq, ConcatEmptySeq DEF Stamped
  <2>2. \A n : Changed(log, n) \o <<>> = Changed(log, n)
    BY ChangedType, ConcatEmptySeq
  <2> QED
    BY <2>1, <2>2
<1>2. ASSUME NEW t \in Seq(Names \X Values), NEW x \in Names \X Values, t \in T PROVE Append(t, x) \in T
  <2> DEFINE e == [row |-> count, change |-> x]
             s == Stamped(count, t)
             l == log \o s
  <2>1. /\ l \in Seq(Event)
        /\ \A n : Changed(l, n) = IF count <= n THEN Changed(log, n) \o t ELSE Changed(log, n)
    BY <1>2
  <2>2. s \in Seq(Event) /\ Stamped(count, Append(t, x)) = Append(s, e) /\ e \in Event
        /\ Append(t, x) \in Seq(Names \X Values)
    BY StampedAppend, AppendProperties DEF Event
  <2>3. e.row = count /\ e.change = x
    OBVIOUS
  <2> HIDE DEF e, s, T
  <2>4. log \o Append(s, e) = Append(l, e)
    BY <2>2, ConcatAppend
  <2> HIDE DEF l
  <2>5. Append(l, e) \in Seq(Event)
    BY <2>1, <2>2, AppendProperties
  <2>6. \A n : Changed(Append(l, e), n) = IF count <= n THEN Append(Changed(l, n), x) ELSE Changed(l, n)
    BY <2>1, <2>2, <2>3, ChangedAppend
  <2>7. \A n : Append(Changed(log, n) \o t, x) = Changed(log, n) \o Append(t, x)
    <3>1. \A a \in Seq(Names \X Values) : Append(a \o t, x) = a \o Append(t, x)
      BY ConcatAppend
    <3> QED
      BY <3>1, ChangedType
  <2>8. \A n : Changed(Append(l, e), n) =
                 IF count <= n THEN Changed(log, n) \o Append(t, x) ELSE Changed(log, n)
    BY <2>1, <2>6, <2>7
  <2>9. log \o Stamped(count, Append(t, x)) = Append(l, e)
    BY <2>2, <2>4
  <2> QED
    BY <2>2, <2>5, <2>8, <2>9 DEF T
<1> HIDE DEF T
<1>3. changes \in T
  BY <1>1, <1>2, SeqInduction
<1> QED
  BY <1>3 DEF T

(* The log after some rows, of which those with cells were kept: up to a   *)
(* row that was kept, it has the changes of the rows up to that one.       *)
Logs(accepted, kept, log, count) ==
  /\ log \in Seq(Event) /\ count \in Nat /\ count = Len(kept)
  /\ \A n \in Nat : n >= count => Changed(log, n) = ChangesOf(accepted)
  /\ \A k \in 1..count :
       \E i \in 1..Len(accepted) : /\ accepted[i].line = kept[k].line
                                   /\ Changed(log, k - 1) = ChangesOf(SubSeq(accepted, 1, i))

LEMMA LogsStart == Logs(<<>>, <<>>, <<>>, 0)
<1>1. <<>> \in Seq(Event) /\ Len(<<>>) = 0 /\ 0 \in Nat
  BY EmptySeq
<1>2. \A k \in 1..0 : FALSE
  OBVIOUS
<1>3. \A n : Changed(<<>>, n) = ChangesOf(<<>>)
  BY ChangedEmpty, ChangesEmpty
<1> QED
  BY <1>1, <1>2, <1>3 DEF Logs

LEMMA LogsRow ==
  ASSUME NEW accepted \in Seq(Row), NEW kept \in Seq(Row), NEW log, NEW count, Logs(accepted, kept, log, count),
         NEW row \in Row
  PROVE  /\ Bare(row) => Logs(Append(accepted, row), kept, log \o Stamped(count, row.changes), count)
         /\ Logs(Append(accepted, row), Append(kept, row), log \o Stamped(count, row.changes), count + 1)
<1> DEFINE m    == Len(accepted)
           all  == Append(accepted, row)
           more == log \o Stamped(count, row.changes)
           held == Append(kept, row)
<1>1. m \in Nat /\ all \in Seq(Row) /\ Len(all) = m + 1 /\ all[m + 1] = row /\ \A i \in 1..m : all[i] = accepted[i]
  BY Grown
<1>2. log \in Seq(Event) /\ count \in Nat /\ count = Len(kept) /\ row.changes \in Seq(Names \X Values)
  BY RowFields DEF Logs
<1>3. /\ more \in Seq(Event)
      /\ \A n : Changed(more, n) = IF count <= n THEN Changed(log, n) \o row.changes ELSE Changed(log, n)
  <2> DEFINE c == row.changes
  <2> HIDE DEF c
  <2>1. c \in Seq(Names \X Values)
    BY <1>2 DEF c
  <2>2. /\ log \o Stamped(count, c) \in Seq(Event)
        /\ \A n : Changed(log \o Stamped(count, c), n) = IF count <= n THEN Changed(log, n) \o c ELSE Changed(log, n)
    BY <1>2, <2>1, ChangedConcat
  <2> QED
    BY <2>2 DEF c
<1>4. ChangesOf(all) = ChangesOf(accepted) \o row.changes
  BY RowsRecord, ChangesAppend
<1> HIDE DEF all, more
<1>5. \A n \in Nat : n >= count => Changed(more, n) = ChangesOf(all)
  BY <1>2, <1>3, <1>4 DEF Logs
<1>6. \A n \in Nat : n >= count + 1 => n >= count
  BY <1>2
<1>7. ASSUME NEW k \in 1..count
      PROVE  \E i \in 1..m + 1 : all[i].line = kept[k].line /\ Changed(more, k - 1) = ChangesOf(SubSeq(all, 1, i))
  <2>1. PICK i \in 1..m : /\ accepted[i].line = kept[k].line
                          /\ Changed(log, k - 1) = ChangesOf(SubSeq(accepted, 1, i))
    BY DEF Logs
  <2>2. ~(count <= k - 1)
    BY <1>2
  <2>3. i \in 1..m + 1 /\ i \in Nat /\ i <= Len(all) /\ i <= Len(accepted) /\ \A j \in 1..i : all[j] = accepted[j]
    BY <1>1, SMTT(20)
  <2>4. SubSeq(all, 1, i) = SubSeq(accepted, 1, i)
    BY <1>1, <2>3, PrefixSame
  <2>5. Changed(more, k - 1) = Changed(log, k - 1)
    BY <1>3, <2>2
  <2> QED
    BY <1>1, <2>1, <2>3, <2>4, <2>5
<1>8. \E i \in 1..m + 1 : all[i].line = row.line /\ Changed(more, count) = ChangesOf(SubSeq(all, 1, i))
  <2>1. m + 1 \in 1..m + 1 /\ SubSeq(all, 1, m + 1) = all
    BY <1>1, SubSeqFull
  <2>2. Changed(more, count) = ChangesOf(all)
    BY <1>2, <1>5
  <2> QED
    BY <1>1, <2>1, <2>2
<1>9. Len(held) = count + 1 /\ held[count + 1] = row /\ \A i \in 1..count : held[i] = kept[i]
  BY <1>2, Grown
<1> HIDE DEF held
<1>10. Bare(row) => Logs(all, kept, more, count)
  BY <1>1, <1>2, <1>3, <1>5, <1>7 DEF Logs
<1>11. ASSUME NEW k \in 1..count + 1
       PROVE  \E i \in 1..Len(all) : all[i].line = held[k].line /\ Changed(more, k - 1) = ChangesOf(SubSeq(all, 1, i))
  <2>1. CASE k = count + 1
    <3>1. k - 1 = count
      BY <1>2, <2>1
    <3> QED
      BY <1>1, <1>8, <1>9, <2>1, <3>1
  <2>2. CASE k # count + 1
    <3>1. k \in 1..count
      BY <1>2, <2>2
    <3> QED
      BY <1>1, <1>7, <1>9, <3>1
  <2> QED
    BY <2>1, <2>2
<1>12. count + 1 \in Nat
  BY <1>2
<1>13. Logs(all, held, more, count + 1)
  BY <1>3, <1>5, <1>6, <1>9, <1>11, <1>12 DEF Logs
<1> QED
  BY <1>10, <1>13 DEF all, more, held
=============================================================================
