------------------------- MODULE LineParity_proofs -------------------------
(***************************************************************************)
(* Proofs, for all inputs, vocabularies and limits: that the line driver   *)
(* replicates the grammar path until a line is met that the two read       *)
(* differently; that in both front ends no axis moves without its machine  *)
(* coordinate in the row of the block that moves it, and no name comes to  *)
(* have two types but by a DEF; and that the scan of block structures      *)
(* accepts what the grammar does and second ELSE lines.                    *)
(***************************************************************************)
EXTENDS LineParity, SequenceTheorems, FiniteSetTheorems, TLAPS

-----------------------------------------------------------------------------
(* The shape of a state: no word adds a field or takes one away.           *)
StateFields == {"axes", "translation", "symbols", "strings", "row", "flow", "fault"}
RowFields   == {"line", "n", "cells", "changes"}
IsState(s)  == DOMAIN s = StateFields /\ DOMAIN s.row = RowFields

LEMMA RowUpdatesKeepShape ==
  ASSUME NEW s, IsState(s), NEW c, NEW v
  PROVE  /\ IsState(Put(s, c, v)) /\ IsState(Recorded(s, c, v))
         /\ IsState(Numbered(s, v)) /\ IsState(Commented(s, v))
         /\ IsState(StartRow(s, v))
  BY DEF IsState, StateFields, RowFields, Put, Recorded, Numbered, Commented, StartRow, NoRow

LEMMA UpdatesKeepShape ==
  ASSUME NEW s, IsState(s), NEW c, NEW v
  PROVE  /\ IsState(Fails(s, v)) /\ IsState(UpdateAxis(s, c, v)) /\ IsState(WithZero(s, c))
         /\ IsState([s EXCEPT !.flow = v]) /\ IsState([s EXCEPT !.strings = v])
         /\ IsState([s EXCEPT !.symbols = v]) /\ IsState([s EXCEPT !.translation = v])
         /\ IsState([s EXCEPT !.symbols[c] = v]) /\ IsState([s EXCEPT !.strings[c] = v])
  BY DEF IsState, StateFields, RowFields, Fails, UpdateAxis, WithZero

LEMMA ReadingKeepsShape ==
  ASSUME NEW s, IsState(s), NEW terms
  PROVE  IsState(Reading(s, terms)) /\ IsState(Evaluate(s, terms).s)
<1>1. IsState(Reading(s, terms))
  BY UpdatesKeepShape DEF Reading
<1> QED
  BY <1>1 DEF Evaluate

LEMMA TextOfKeepsShape ==
  ASSUME NEW s, IsState(s), NEW texts
  PROVE  IsState(TextOf(s, texts).s)
  BY ReadingKeepsShape DEF TextOf

LEMMA MCodeKeepsShape ==
  ASSUME NEW s, IsState(s), NEW code
  PROVE  IsState(WithMCode(s, code))
<1>1. IsState(InsertM(s, code))
  BY RowUpdatesKeepShape, UpdatesKeepShape DEF InsertM
<1> QED
  BY <1>1, UpdatesKeepShape DEF WithMCode

LEMMA AssignmentKeepsShape ==
  ASSUME NEW s, IsState(s), NEW w
  PROVE  IsState(Assignment(s, w).s) /\ IsState(Assign(s, w))
<1>1. ASSUME NEW t, IsState(t), NEW key, NEW v
      PROVE  IsState(StoredText(t, key, v)) /\ IsState(StoredNumber(t, key, v)) /\ IsState(Emitted(t, key, v))
  BY <1>1, UpdatesKeepShape, RowUpdatesKeepShape DEF StoredText, StoredNumber, Emitted
<1>2. IsState(AssignedText(s, w))
  BY <1>1, TextOfKeepsShape DEF AssignedText, After
<1>3. IsState(NumberOf(s, w).s)
  BY ReadingKeepsShape DEF NumberOf
<1>4. IsState(Stored(NumberOf(s, w), w.key).s)
  BY <1>1, <1>3 DEF Stored
<1> QED
  BY <1>1, <1>2, <1>4 DEF Assignment, Assign, After

LEMMA CharWriteKeepsShape ==
  ASSUME NEW s, IsState(s), NEW w
  PROVE  IsState(CharWrite(s, w))
<1>1. IsState(TextOf(s, w.texts).s)
  BY TextOfKeepsShape
<1>2. ASSUME NEW t, IsState(t), NEW v
      PROVE  IsState([t EXCEPT !.strings[w.key][w.num + 1] = v])
  BY <1>2 DEF IsState, StateFields
<1> QED
  BY <1>1, <1>2, UpdatesKeepShape DEF CharWrite, After

LEMMA DefineKeepsShape ==
  ASSUME NEW s, IsState(s), NEW w
  PROVE  IsState(Define(s, w))
<1> DEFINE item == w.items[1]
<1>1. ASSUME NEW t, IsState(t), NEW keys, NEW values
      PROVE  IsState(SetAll(t, keys, values))
  BY <1>1 DEF SetAll, IsState, StateFields, RowFields
<1>2. IsState(ValueArray(s, item.items).s)
  BY ReadingKeepsShape DEF ValueArray
<1>3. IsState(DefineMulti(s, item))
  BY <1>1, <1>2, UpdatesKeepShape DEF DefineMulti, After
<1>4. IsState(DefineInitialised(s, w.kw, item))
  BY AssignmentKeepsShape, UpdatesKeepShape, RowUpdatesKeepShape DEF DefineInitialised, After
<1>5. IsState(DefineItem(s, w.kw, item))
  BY <1>1, <1>3, <1>4, UpdatesKeepShape, RowUpdatesKeepShape DEF DefineItem
<1> QED
  BY <1>5 DEF Define

LEMMA FrameKeepsShape ==
  ASSUME NEW s, IsState(s), NEW w
  PROVE  IsState(Frame(s, w))
<1>1. IsState(ResetTranslations(s))
  BY UpdatesKeepShape DEF ResetTranslations
<1>2. ASSUME NEW t, IsState(t), NEW items
      PROVE  IsState(FrameAssignments(t, items).s)
  BY <1>2 DEF FrameAssignments, IsState, StateFields
<1>3. IsState(Translate(s, w))
  BY <1>1, <1>2, UpdatesKeepShape DEF Translate, After
<1> QED
  BY <1>1, <1>3, UpdatesKeepShape DEF Frame

LEMMA StatementKeepsShape ==
  ASSUME NEW s, IsState(s), NEW w, NEW visible
  PROVE  IsState(Statement(s, w, visible))
<1>1. IsState(Jump(s, w, visible))
  BY ReadingKeepsShape, UpdatesKeepShape DEF Jump, After
<1>2. IsState(GCommand(s, w.key)) /\ IsState(BareWord(s, w.key))
  BY UpdatesKeepShape, RowUpdatesKeepShape DEF GCommand, BareWord
<1> QED
  BY <1>1, <1>2, AssignmentKeepsShape, CharWriteKeepsShape, MCodeKeepsShape, DefineKeepsShape,
     FrameKeepsShape, UpdatesKeepShape, RowUpdatesKeepShape DEF Statement

-----------------------------------------------------------------------------
(* A word the driver claims and reads as the grammar does has the same     *)
(* effect in both.                                                         *)

(* interpret_assignment and interpret_statement on a value, against the    *)
(* driver's assignment.                                                    *)
LEMMA StoredThenEmitted ==
  ASSUME NEW s, IsState(s), s.fault = Null, NEW key, NEW v
  PROVE  After(Stored([s |-> s, v |-> v], key), LAMBDA t, x : Emitted(t, key, x)) = DriverAssign(s, key, v)
<1> DEFINE t == StoredNumber(s, key, v)
<1>1. Stored([s |-> s, v |-> v], key) = [s |-> t, v |-> v]
  BY DEF Stored
<1>2. After([s |-> t, v |-> v], LAMBDA u, x : Emitted(u, key, x)) = IF t.fault # Null THEN t ELSE Emitted(t, key, v)
  BY DEF After
<1>3. CASE key \in Axes \cup Blocks \/ s.strings[key] = Null
  <2>1. t.fault = Null
    BY <1>3, LinesAssumption DEF StoredNumber, UpdateAxis, IsState, StateFields
  <2>2. Emitted(t, key, v) = DriverAssign(s, key, v)
    BY <1>3, LinesAssumption
    DEF StoredNumber, Emitted, DriverAssign, UpdateAxis, Put, Recorded, IsState, StateFields
  <2> QED
    BY <1>1, <1>2, <2>1, <2>2
<1>4. CASE key \notin Axes \cup Blocks /\ s.strings[key] # Null
  <2>1. t = Fails(s, "StringVariable") /\ DriverAssign(s, key, v) = Fails(s, "StringVariable")
    BY <1>4 DEF StoredNumber, DriverAssign
  <2>2. t.fault = "StringVariable" /\ "StringVariable" # Null
    BY <2>1, LinesAssumption DEF Faults, Fails, IsState, StateFields
  <2> QED
    BY <1>1, <1>2, <2>1, <2>2
<1> QED
  BY <1>3, <1>4

LEMMA AssignNumber ==
  ASSUME NEW s, IsState(s), NEW w, ~IsText(s, w), NEW r, r = NumberOf(s, w), r = [s |-> r.s, v |-> r.v]
  PROVE  /\ r.s.fault # Null => Assign(s, w) = r.s
         /\ r.s.fault = Null /\ IsState(r.s) => Assign(s, w) = DriverAssign(r.s, w.key, r.v)
<1>1. Assign(s, w) = After(Stored(r, w.key), LAMBDA t, v : Emitted(t, w.key, v))
  BY DEF Assign
<1>2. CASE r.s.fault # Null
  <2>1. Stored(r, w.key) = r
    BY <1>2 DEF Stored
  <2> QED
    BY <1>1, <1>2, <2>1 DEF After
<1>3. CASE r.s.fault = Null /\ IsState(r.s)
  <2>1. r = [s |-> r.s, v |-> r.v]
    OBVIOUS
  <2>2. After(Stored([s |-> r.s, v |-> r.v], w.key), LAMBDA t, v : Emitted(t, w.key, v)) = DriverAssign(r.s, w.key, r.v)
    BY <1>3, StoredThenEmitted
  <2> QED
    BY <1>1, <1>3, <2>1, <2>2
<1> QED
  BY <1>2, <1>3

LEMMA AddressAgrees ==
  ASSUME NEW s, IsState(s), s.fault = Null, NEW w, w.tag = "address", NEW visible
  PROVE  Statement(s, w, visible) = Execute(s, w)
<1>1. Statement(s, w, visible) = DriverAssign(s, w.key, w.num)
  <2>1. ~IsText(s, w) /\ NumberOf(s, w) = [s |-> s, v |-> w.num]
    BY DEF IsText, NumberOf
  <2> QED
    BY <2>1, AssignNumber DEF Statement
<1>2. Driven(s, Decoded(w)) = DriverAssign(s, w.key, w.num)
  BY DEF Driven, Decoded, Simple
<1> QED
  BY <1>1, <1>2 DEF Execute, CallBehind

LEMMA CommandAgrees ==
  ASSUME NEW s, IsState(s), NEW w, w.tag \in {"m", "g", "bare"}, ClaimsWord(w), NEW visible
  PROVE  Statement(s, w, visible) = Execute(s, w)
<1>1. CallBehind(w) = Null
  BY DEF CallBehind
<1>2. CASE w.tag = "m"
  BY <1>1, <1>2 DEF Statement, Execute, Driven, Decoded, Simple
<1>3. CASE w.tag = "g"
  BY <1>1, <1>3 DEF Statement, Execute, Driven, Decoded, Simple, GCommand, ClaimsWord
<1>4. CASE w.tag = "bare"
  BY <1>1, <1>4 DEF Statement, Execute, Driven, Decoded, Simple, BareWord, ClaimsWord, Unclaimed
<1> QED
  BY <1>2, <1>3, <1>4

-----------------------------------------------------------------------------
(* Induction over Nat, with a set in the place of a predicate.             *)
LEMMA SetInduction ==
  ASSUME NEW S, 0 \in S, \A n \in Nat : n \in S => n + 1 \in S
  PROVE  Nat \subseteq S
<1>1. SUFFICES ASSUME NEW n \in Nat, n \notin S PROVE FALSE
  OBVIOUS
<1> DEFINE T == {x \in 0..n : x \in S}
           U == T \ {0}
           f == [x \in T |-> x + 1]
<1>2. IsFiniteSet(0..n) /\ T \subseteq 0..n
  BY <1>1, FS_Interval
<1>3. IsFiniteSet(T)
  BY <1>2, FS_Subset
<1>4. 0 \in T
  BY <1>1
<1>5. IsFiniteSet(U) /\ Cardinality(U) = Cardinality(T) - 1 /\ Cardinality(T) \in Nat
  BY <1>3, <1>4, FS_RemoveElement, FS_CardinalityType
<1>6. f \in [T -> U]
  BY <1>1
<1>7. \A x, y \in T : x # y => f[x] # f[y]
  BY <1>1
<1> HIDE DEF T, U, f
<1> QED
  BY <1>3, <1>5, <1>6, <1>7, FS_PigeonHole

LEMMA LeastExists ==
  ASSUME NEW S, S \subseteq Nat, S # {}
  PROVE  \E k \in S : \A m \in S : k <= m
<1> SUFFICES ASSUME \A k \in S : \E m \in S : m < k
             PROVE  FALSE
  OBVIOUS
<1> DEFINE M == {n \in Nat : \A m \in 0..n : m \notin S}
<1>1. 0 \in M
  OBVIOUS
<1>2. ASSUME NEW n \in Nat, n \in M PROVE n + 1 \in M
  BY <1>2
<1> HIDE DEF M
<1>3. Nat \subseteq M
  BY <1>1, <1>2, SetInduction
<1>4. PICK k \in S : TRUE
  OBVIOUS
<1>5. k \in M /\ k \in 0..k
  BY <1>3, <1>4
<1> QED
  BY <1>4, <1>5 DEF M

-----------------------------------------------------------------------------
(* Expressions: an operator is applied to the values of shorter spans.     *)
LEMMA TruncatedInt ==
  ASSUME NEW a \in Int, NEW b \in Int, b # 0
  PROVE  Truncated(a, b) \in Int
  BY DEF Truncated, Size

LEMMA ApplyInt ==
  ASSUME NEW op \in UNION Range(Tiers), NEW a \in Int, NEW b \in Int, op \in {"/", "DIV", "MOD"} => b # 0
  PROVE  Apply(op, a, b) \in Int
  BY TruncatedInt DEF Apply, Tiers, Truth, Range

LEMMA TierFacts ==
  ASSUME NEW op \in UNION Range(Tiers)
  PROVE  /\ TierOf(op) \in 1..6 /\ op \in Tiers[TierOf(op)]
         /\ op \in {"/", "DIV", "MOD"} => TierOf(op) = 6
<1>1. DOMAIN Tiers = 1..6
  BY DEF Tiers
<1>2. \E k \in DOMAIN Tiers : op \in Tiers[k]
  BY DEF Range
<1>3. TierOf(op) \in 1..6 /\ op \in Tiers[TierOf(op)]
  BY <1>1, <1>2 DEF TierOf
<1>4. \A k \in 1..5 : {"/", "DIV", "MOD"} \cap Tiers[k] = {}
  BY DEF Tiers
<1> QED
  BY <1>3, <1>4

(* Operators of an expression, all of them known.                          *)
Operators(terms) ==
  /\ Len(terms) \in Nat /\ DOMAIN terms = 1..Len(terms) /\ terms # <<>>
  /\ \A i \in DOMAIN terms : terms[i].op \in UNION Range(Tiers)

LEMMA ExpressionOperators ==
  ASSUME NEW terms, ExpressionOK(terms)
  PROVE  Operators(terms)
  BY DEF ExpressionOK, IsSequence, OperandOK, Operators

LEMMA LastApplied ==
  ASSUME NEW terms, Operators(terms), NEW i \in DOMAIN terms, NEW j \in DOMAIN terms, i <= j
  PROVE  LET m == AppliedLast(terms, i, j)
         IN  /\ m \in i..j
             /\ \A l \in i..j : TierOf(terms[m].op) <= TierOf(terms[l].op)
             /\ \A l \in i..j : TierOf(terms[m].op) = TierOf(terms[l].op) => l <= m
<1> DEFINE Tier(l) == TierOf(terms[l].op)
           T == {Tier(l) : l \in i..j}
<1>1. i \in Nat /\ j \in Nat /\ i..j \subseteq DOMAIN terms /\ i \in i..j
  BY DEF Operators
<1>2. \A l \in i..j : Tier(l) \in Nat
  BY <1>1, TierFacts DEF Operators
<1>3. T \subseteq Nat /\ T # {}
  BY <1>1, <1>2
<1>4. PICK k \in T : \A t \in T : k <= t
  <2> HIDE DEF T
  <2> QED
    BY <1>3, LeastExists
<1> DEFINE D == {j - l : l \in {x \in i..j : Tier(x) = k}}
<1>5. D \subseteq Nat /\ D # {}
  BY <1>1, <1>4
<1>6. PICK d \in D : \A e \in D : d <= e
  <2> HIDE DEF D
  <2> QED
    BY <1>5, LeastExists
<1>7. PICK m \in i..j : Tier(m) = k /\ d = j - m
  BY <1>6
<1>8. \A l \in i..j : k <= Tier(l)
  BY <1>4
<1>9. \A l \in i..j : Tier(l) = k => l <= m
  BY <1>1, <1>6, <1>7
<1>10. \A l \in i..j : Tier(m) < Tier(l) \/ (Tier(m) = Tier(l) /\ l <= m)
  <2> HIDE DEF Tier, T, D
  <2> QED
    BY <1>1, <1>2, <1>7, <1>8, <1>9
<1> DEFINE a == AppliedLast(terms, i, j)
<1>11. a \in i..j /\ \A l \in i..j : Tier(a) < Tier(l) \/ (Tier(a) = Tier(l) /\ l <= a)
  BY <1>10 DEF AppliedLast
<1> QED
  <2> HIDE DEF Tier, T, D, a
  <2>1. /\ \A l \in i..j : Tier(a) <= Tier(l)
        /\ \A l \in i..j : Tier(a) = Tier(l) => l <= a
    BY <1>1, <1>2, <1>11
  <2> QED
    BY <1>11, <2>1 DEF a, Tier

(* The value of a span, in terms of those of shorter ones.                 *)
OfSpan(terms, values, value, i, j) ==
  LET m == AppliedLast(terms, i + 1, j)
  IN  IF i >= j THEN values[i] ELSE Apply(terms[m].op, value[<<i, m - 1>>], value[<<m, j>>])

LEMMA ValuesExist ==
  ASSUME NEW terms, Operators(terms), NEW values
  PROVE  \E f : f = [span \in (DOMAIN terms) \X (DOMAIN terms) |-> OfSpan(terms, values, f, span[1], span[2])]
<1> DEFINE N == Len(terms)
           D == (DOMAIN terms) \X (DOMAIN terms)
           Of(f, span) == OfSpan(terms, values, f, span[1], span[2])
           Known(f, m) == f = [span \in D |-> f[span]] /\ \A span \in D : span[2] - span[1] < m => f[span] = Of(f, span)
           M == {m \in Nat : \E f : Known(f, m)}
<1>1. /\ N \in Nat
      /\ \A span \in D : span[1] \in 1..N /\ span[2] \in 1..N /\ span = <<span[1], span[2]>> /\ span[2] - span[1] < N
  BY DEF Operators
<1>2. \A a, b \in 1..N : <<a, b>> \in D
  BY DEF Operators
<1> HIDE DEF D
<1>3. ASSUME NEW f, NEW g, NEW span \in D, \A e \in D : e[2] - e[1] < span[2] - span[1] => f[e] = g[e]
      PROVE  Of(f, span) = Of(g, span)
  <2> DEFINE i == span[1]
             j == span[2]
             m == AppliedLast(terms, i + 1, j)
  <2>1. i \in 1..N /\ j \in 1..N
    BY <1>1
  <2>2. CASE i >= j
    BY <2>2 DEF OfSpan
  <2>3. CASE i < j
    <3>1. m \in (i + 1)..j
      <4>1. i + 1 \in DOMAIN terms /\ j \in DOMAIN terms /\ i + 1 <= j
        BY <2>1, <2>3 DEF Operators
      <4> QED
        BY <4>1, LastApplied
    <3> HIDE DEF i, j, m
    <3>2. <<i, m - 1>> \in D /\ <<m, j>> \in D
      BY <1>1, <1>2, <2>1, <3>1
    <3>3. (m - 1) - i < j - i /\ j - m < j - i
      BY <1>1, <2>1, <3>1
    <3>4. f[<<i, m - 1>>] = g[<<i, m - 1>>] /\ f[<<m, j>>] = g[<<m, j>>]
      BY <1>3, <3>2, <3>3 DEF i, j
    <3> QED
      BY <3>4 DEF OfSpan, i, j, m
  <2> QED
    BY <2>1, <2>2, <2>3
<1>4. 0 \in M
  <2> DEFINE f == [span \in D |-> values[span[1]]]
  <2>1. f = [span \in D |-> f[span]]
    OBVIOUS
  <2>2. \A span \in D : span[2] - span[1] < 0 => f[span] = Of(f, span)
    BY <1>1 DEF OfSpan
  <2> HIDE DEF f
  <2> QED
    BY <2>1, <2>2
<1>5. ASSUME NEW m \in Nat, m \in M PROVE m + 1 \in M
  <2>1. PICK f : Known(f, m)
    BY <1>5
  <2> DEFINE g == [span \in D |-> IF span[2] - span[1] < m THEN f[span] ELSE Of(f, span)]
  <2>2. g = [span \in D |-> g[span]] /\ \A span \in D : span[2] - span[1] < m => g[span] = f[span]
    <3> HIDE DEF Of
    <3> QED
      OBVIOUS
  <2>3. \A span \in D : span[2] - span[1] < m + 1 => g[span] = Of(f, span)
    <3> HIDE DEF Of
    <3> QED
      BY <1>1, <2>1
  <2> HIDE DEF g
  <2>4. ASSUME NEW span \in D, span[2] - span[1] < m + 1
        PROVE  Of(f, span) = Of(g, span)
    <3>1. ASSUME NEW e \in D, e[2] - e[1] < span[2] - span[1]
          PROVE  f[e] = g[e]
      <4>1. e[2] - e[1] < m
        BY <1>1, <2>4, <3>1
      <4> QED
        BY <2>2, <4>1
    <3> HIDE DEF Of
    <3> QED
      BY <1>3, <3>1
  <2>5. Known(g, m + 1)
    <3> HIDE DEF Of
    <3> QED
      BY <2>2, <2>3, <2>4
  <2> HIDE DEF Known
  <2> QED
    BY <2>5
<1>6. N \in M
  <2> HIDE DEF M, N
  <2> QED
    BY <1>1, <1>4, <1>5, SetInduction
<1>7. PICK f : Known(f, N)
  BY <1>6
<1>8. \A span \in D : f[span] = Of(f, span)
  <2> HIDE DEF Of
  <2> QED
    BY <1>1, <1>7
<1>9. f = [span \in D |-> Of(f, span)]
  <2> HIDE DEF Of
  <2> QED
    BY <1>7, <1>8
<1> QED
  BY <1>9 DEF D

LEMMA ValuesAre ==
  ASSUME NEW terms, Operators(terms), NEW values
  PROVE  \E f : /\ Tiered(terms, values) = f[<<1, Len(terms)>>]
               /\ \A i, j \in DOMAIN terms : f[<<i, j>>] = OfSpan(terms, values, f, i, j)
<1> DEFINE D == (DOMAIN terms) \X (DOMAIN terms)
           c == CHOOSE f : f = [span \in D |-> OfSpan(terms, values, f, span[1], span[2])]
<1>1. Tiered(terms, values) = c[<<1, Len(terms)>>]
  BY DEF Tiered, OfSpan
<1>2. c = [span \in D |-> OfSpan(terms, values, c, span[1], span[2])]
  BY ValuesExist
<1>3. ASSUME NEW i \in DOMAIN terms, NEW j \in DOMAIN terms
      PROVE  c[<<i, j>>] = OfSpan(terms, values, c, i, j)
  <2>1. <<i, j>> \in D
    OBVIOUS
  <2> HIDE DEF c, D
  <2> QED
    BY <1>2, <2>1
<1> HIDE DEF c
<1> QED
  BY <1>1, <1>3

LEMMA TieredOne ==
  ASSUME NEW terms, Operators(terms), Len(terms) = 1, NEW values
  PROVE  Tiered(terms, values) = values[1]
<1>1. PICK f : /\ Tiered(terms, values) = f[<<1, Len(terms)>>]
               /\ \A i, j \in DOMAIN terms : f[<<i, j>>] = OfSpan(terms, values, f, i, j)
  BY ValuesAre
<1>2. 1 \in DOMAIN terms
  BY DEF Operators
<1>3. f[<<1, 1>>] = OfSpan(terms, values, f, 1, 1) /\ Tiered(terms, values) = f[<<1, 1>>]
  BY <1>1, <1>2
<1>4. OfSpan(terms, values, f, 1, 1) = values[1]
  BY DEF OfSpan
<1> QED
  BY <1>3, <1>4

(* The last operator of a span is an operator of the strongest tier only   *)
(* if all of them are; it is a division, then, by the last operand.        *)
LEMMA TieredInt ==
  ASSUME NEW terms, Operators(terms), NEW values, \A i \in DOMAIN terms : values[i] \in Int,
         \A i \in DOMAIN terms : i > 1 /\ terms[i].op \in {"/", "DIV", "MOD"} => values[i] # 0
  PROVE  Tiered(terms, values) \in Int
<1> DEFINE N == Len(terms)
<1>1. PICK f : /\ Tiered(terms, values) = f[<<1, N>>]
               /\ \A i, j \in DOMAIN terms : f[<<i, j>>] = OfSpan(terms, values, f, i, j)
  BY ValuesAre
<1>2. N \in Nat /\ DOMAIN terms = 1..N /\ 1 \in 1..N /\ N \in 1..N
  BY DEF Operators
<1>6. ASSUME NEW i \in 1..N, NEW j \in 1..N, i >= j
      PROVE  f[<<i, j>>] = values[i]
  <2>1. f[<<i, j>>] = OfSpan(terms, values, f, i, j)
    BY <1>1, <1>2
  <2> QED
    BY <1>6, <2>1 DEF OfSpan
<1> DEFINE M == {m \in Nat : \A i, j \in 1..N : j - i < m => f[<<i, j>>] \in Int}
<1>3. 0 \in M
  <2>1. \A i, j \in 1..N : j - i < 0 => i >= j
    BY <1>2
  <2> QED
    BY <1>2, <1>6, <2>1
<1>4. ASSUME NEW m \in Nat, m \in M PROVE m + 1 \in M
  <2> SUFFICES ASSUME NEW i \in 1..N, NEW j \in 1..N, j - i < m + 1 PROVE f[<<i, j>>] \in Int
    OBVIOUS
  <2>1. f[<<i, j>>] = OfSpan(terms, values, f, i, j)
    BY <1>1, <1>2
  <2>2. CASE i >= j
    BY <1>2, <1>6, <2>2
  <2>3. CASE i < j
    <3> DEFINE l == AppliedLast(terms, i + 1, j)
    <3>1. /\ l \in (i + 1)..j
          /\ \A x \in (i + 1)..j : TierOf(terms[l].op) <= TierOf(terms[x].op)
          /\ \A x \in (i + 1)..j : TierOf(terms[l].op) = TierOf(terms[x].op) => x <= l
      <4>1. i + 1 \in DOMAIN terms /\ j \in DOMAIN terms /\ i + 1 <= j
        BY <1>2, <2>3
      <4> QED
        BY <4>1, LastApplied
    <3>2. OfSpan(terms, values, f, i, j) = Apply(terms[l].op, f[<<i, l - 1>>], f[<<l, j>>])
      BY <2>3 DEF OfSpan
    <3> HIDE DEF l
    <3>3. f[<<i, l - 1>>] \in Int /\ f[<<l, j>>] \in Int
      <4>1. l - 1 \in 1..N /\ l \in 1..N /\ (l - 1) - i < m /\ j - l < m
        BY <1>2, <3>1
      <4> QED
        BY <1>4, <4>1
    <3>4. terms[l].op \in UNION Range(Tiers)
      BY <1>2, <3>1 DEF Operators
    <3>5. ASSUME terms[l].op \in {"/", "DIV", "MOD"}
          PROVE  f[<<l, j>>] # 0
      <4>1. TierOf(terms[l].op) = 6
        BY <3>4, <3>5, TierFacts
      <4>2. j \in (i + 1)..j /\ terms[j].op \in UNION Range(Tiers)
        BY <1>2, <2>3 DEF Operators
      <4>3. TierOf(terms[j].op) = 6
        <5>1. TierOf(terms[j].op) \in 1..6
          BY <4>2, TierFacts
        <5> QED
          BY <3>1, <4>1, <4>2, <5>1
      <4>4. j = l
        BY <3>1, <4>1, <4>2, <4>3
      <4>5. f[<<l, j>>] = values[l]
        BY <1>2, <1>6, <4>4
      <4> QED
        BY <1>2, <3>1, <3>5, <4>5
    <3> QED
      BY <2>1, <3>2, <3>3, <3>4, <3>5, ApplyInt
  <2> QED
    BY <1>2, <2>2, <2>3
<1>5. N + 1 \in M
  <2> HIDE DEF M, N
  <2> QED
    BY <1>2, <1>3, <1>4, SetInduction
<1> QED
  BY <1>1, <1>2, <1>5

-----------------------------------------------------------------------------
(* A constant: the grammar reads nothing, and folds to the same value.     *)
LEMMA ConstantRead ==
  ASSUME NEW s, s.fault = Null, NEW terms, ExpressionOK(terms), IsConstant(terms)
  PROVE  Evaluate(s, terms) = [s |-> s, v |-> Tiered(terms, Operands(NewState, terms))]
<1>1. \A i \in DOMAIN terms : Unreadable(s, terms[i]) = Null /\ FaultOf(s, terms[i]) = Null
  <2>1. \A i \in DOMAIN terms : terms[i].op # "DIV"
    <3>1. DOMAIN terms = 1..Len(terms) /\ terms[1].op = "+"
      BY DEF ExpressionOK, IsSequence
    <3> QED
      BY <3>1 DEF IsConstant, Arithmetic
  <2> QED
    BY <2>1 DEF IsConstant, FaultOf, Unreadable
<1>2. Reading(s, terms) = s
  <2> DEFINE stops  == {i \in DOMAIN terms : FaultOf(s, terms[i]) # Null}
             passed == {i \in DOMAIN terms : Unreadable(s, terms[i]) = Null /\ \A j \in stops : i <= j}
             zeroed == {terms[i].name : i \in {k \in passed : /\ terms[k].read = "variable"
                                                               /\ s.symbols[terms[k].name] = Null}}
  <2>1. stops = {}
    BY <1>1
  <2>2. zeroed = {}
    BY DEF IsConstant
  <2>3. WithZero(s, zeroed) = s
    BY <2>2 DEF WithZero
  <2>4. Reading(s, terms) = IF stops = {} THEN WithZero(s, zeroed)
                            ELSE Fails(WithZero(s, zeroed), FaultOf(s, terms[Min(stops)]))
    BY DEF Reading
  <2> QED
    BY <2>1, <2>3, <2>4
<1>3. Operands(s, terms) = Operands(NewState, terms)
  BY DEF Operands, Operand, IsConstant
<1> QED
  BY <1>2, <1>3 DEF Evaluate

LEMMA ConstantDecoded ==
  ASSUME NEW w, w.tag = "set", IsSequence(w.terms), w.terms # <<>>, ClaimsWord(w), IsConstant(w.terms)
  PROVE  /\ ~IsText(NewState, w) /\ \A s : ~IsText(s, w)
         /\ ~w.inc /\ CallBehind(w) = Null
         /\ Decoded(w) = Simple("assign", w.key, FoldConst(SubSeq(w.terms, 1, ValueTerms(w.terms))))
<1>1. 1 \in DOMAIN w.terms /\ Len(w.terms) \in Nat
  BY DEF IsSequence
<1>2. w.terms[1].read = "number" /\ ~w.terms[1].paren
  BY <1>1 DEF IsConstant
<1>3. w.texts = <<>> /\ ~w.inc
  BY <1>2 DEF ClaimsWord, ClaimsSet, IsProduct
<1>4. ValueTerms(w.terms) = Len(w.terms)
  BY <1>2 DEF ValueTerms, Folded, IsConstant
<1> QED
  BY <1>2, <1>3, <1>4 DEF IsText, CallBehind, Decoded

(* A product: one operand in parentheses, read when the word is executed.  *)
LEMMA ProductRead ==
  ASSUME NEW s, IsState(s), s.fault = Null, NEW w, w.tag = "set", ExpressionOK(w.terms), Len(w.terms) = 1,
         w.terms[1].paren, IsProduct(w.terms[1]),
         w.terms[1].read = "variable" => s.strings[w.terms[1].name] = Null
  PROVE  Evaluate(s, w.terms) = DriverRead(s, Product(w))
<1> DEFINE t      == w.terms[1]
           stops  == {i \in DOMAIN w.terms : FaultOf(s, w.terms[i]) # Null}
           passed == {i \in DOMAIN w.terms : Unreadable(s, w.terms[i]) = Null /\ \A j \in stops : i <= j}
           undef  == {k \in passed : w.terms[k].read = "variable" /\ s.symbols[w.terms[k].name] = Null}
           zeroed == {w.terms[i].name : i \in undef}
<1>1. DOMAIN w.terms = {1} /\ t.op = "+" /\ OperandOK(t)
  BY DEF IsSequence, ExpressionOK
<1>2. t.read \in {"number", "variable"} /\ ~t.neg /\ (t.read # "number" => t.name # Null)
  BY <1>1, LinesAssumption DEF IsProduct, OperandOK
<1>3. Reading(s, w.terms) = IF stops = {} THEN WithZero(s, zeroed)
                            ELSE Fails(WithZero(s, zeroed), FaultOf(s, w.terms[Min(stops)]))
  BY DEF Reading
<1>4. Tiered(w.terms, Operands(s, w.terms)) = IF t.read = "number" THEN t.num ELSE Read(s, t) * t.num
  <2>1. Tiered(w.terms, Operands(s, w.terms)) = Operands(s, w.terms)[1]
    BY ExpressionOperators, TieredOne
  <2> QED
    BY <1>1, <1>2, <2>1 DEF Operands, Operand
<1>5. FaultOf(s, t) = Unreadable(s, t)
  BY <1>1 DEF FaultOf
<1>6. WithZero(s, {}) = s
  BY DEF WithZero
<1>7. CASE t.read = "number" \/ s.symbols[t.name] # Null
  <2>1. FaultOf(s, t) = Null
    BY <1>2, <1>5, <1>7 DEF Unreadable
  <2>2. stops = {} /\ zeroed = {}
    BY <1>1, <1>7, <2>1
  <2>3. Reading(s, w.terms) = s
    BY <1>3, <1>6, <2>2
  <2>4. Evaluate(s, w.terms) = [s |-> s, v |-> Tiered(w.terms, Operands(s, w.terms))]
    BY <2>3 DEF Evaluate
  <2> QED
    BY <1>2, <1>4, <1>7, <2>4 DEF DriverRead, Product, Read
<1>8. CASE t.read = "variable" /\ s.symbols[t.name] = Null /\ AllowUndefined
  <2>1. FaultOf(s, t) = Null
    BY <1>5, <1>8 DEF Unreadable
  <2>2. stops = {} /\ passed = {1}
    BY <1>1, <1>5, <2>1
  <2>3. zeroed = {t.name}
    BY <1>8, <2>2
  <2>4. Reading(s, w.terms) = WithZero(s, {t.name})
    BY <1>3, <2>2, <2>3
  <2>5. WithZero(s, {t.name}).fault = Null
    BY DEF WithZero, IsState, StateFields
  <2>6. Evaluate(s, w.terms) = [s |-> WithZero(s, {t.name}), v |-> Tiered(w.terms, Operands(s, w.terms))]
    BY <2>4, <2>5 DEF Evaluate
  <2> QED
    BY <1>2, <1>4, <1>8, <2>6 DEF DriverRead, Product, Read
<1>9. CASE t.read = "variable" /\ s.symbols[t.name] = Null /\ ~AllowUndefined
  <2>1. FaultOf(s, t) = "UndefinedVariable" /\ "UndefinedVariable" # Null
    BY <1>5, <1>9, LinesAssumption DEF Unreadable, Faults
  <2>2. stops = {1} /\ zeroed = {}
    BY <1>1, <1>5, <2>1
  <2>3. Min(stops) = 1
    BY <2>2 DEF Min
  <2>4. Reading(s, w.terms) = Fails(s, "UndefinedVariable")
    BY <1>3, <1>6, <2>1, <2>2, <2>3
  <2>5. Fails(s, "UndefinedVariable").fault # Null
    BY <2>1 DEF Fails, IsState, StateFields
  <2>6. Evaluate(s, w.terms) = [s |-> Fails(s, "UndefinedVariable"), v |-> 0]
    BY <2>4, <2>5 DEF Evaluate
  <2> QED
    BY <1>2, <1>9, <2>6 DEF DriverRead, Product
<1> QED
  BY <1>2, <1>7, <1>8, <1>9, LinesAssumption

LEMMA SetAgrees ==
  ASSUME NEW files \in Inputs, NEW w \in WordsOf(files), w.tag = "set", ClaimsWord(w),
         NEW s, IsState(s), s.fault = Null, ReadsAlike(s, w), NEW visible
  PROVE  Statement(s, w, visible) = Execute(s, w)
<1>1. WordOK(w) /\ IsSequence(w.terms)
  BY InputsAssumption
<1>2. ClaimsSet(w) /\ ExpressionOK(w.terms)
  BY <1>1 DEF ClaimsWord, ClaimsSet, WordOK, AssignmentOK
<1>3. Statement(s, w, visible) = Assign(s, w)
  BY DEF Statement
<1>4. CASE IsConstant(w.terms)
  <2> DEFINE v == Tiered(w.terms, Operands(NewState, w.terms))
  <2>1. w.terms # <<>>
    BY <1>2 DEF ClaimsSet
  <2>2. /\ ~IsText(s, w) /\ ~w.inc /\ CallBehind(w) = Null
        /\ Decoded(w) = Simple("assign", w.key, FoldConst(SubSeq(w.terms, 1, ValueTerms(w.terms))))
    BY <1>1, <1>4, <2>1, ConstantDecoded
  <2>3. FoldConst(SubSeq(w.terms, 1, ValueTerms(w.terms))) = v
    BY <1>4, <2>1, FoldAgrees
  <2>4. NumberOf(s, w) = [s |-> s, v |-> v]
    BY <1>2, <1>4, <2>1, <2>2, ConstantRead DEF NumberOf
  <2>5. Assign(s, w) = DriverAssign(s, w.key, v)
    BY <2>2, <2>4, AssignNumber
  <2>6. Driven(s, Decoded(w)) = DriverAssign(s, w.key, v)
    BY <2>2, <2>3 DEF Driven, Simple
  <2> QED
    BY <1>3, <2>2, <2>5, <2>6 DEF Execute
<1>5. CASE /\ w.terms[1].paren /\ Len(w.terms) = 1
           /\ w.terms[1].read = "variable" => s.strings[w.terms[1].name] = Null
  <2> DEFINE r == NumberOf(s, w)
             d == DriverRead(s, Product(w))
             v == IF w.inc /\ Local(d.s, w.key) # Null THEN Local(d.s, w.key) + d.v ELSE d.v
  <2>1. DOMAIN w.terms = {1} /\ IsProduct(w.terms[1]) /\ w.texts = <<>>
    BY <1>1, <1>2, <1>5 DEF IsSequence, ClaimsSet
  <2>2. Evaluate(s, w.terms) = d
    BY <1>2, <1>5, <2>1, ProductRead
  <2>3. d = [s |-> d.s, v |-> d.v] /\ IsState(d.s)
    BY UpdatesKeepShape DEF DriverRead
  <2>4. ~IsText(s, w)
    BY <1>5, <2>1 DEF IsText
  <2>5. r = [s |-> d.s, v |-> v]
    BY <2>2, <2>3 DEF NumberOf, Incremented
  <2>6. r.s = d.s /\ r.v = v
    BY <2>5
  <2>7. /\ d.s.fault # Null => Assign(s, w) = d.s
        /\ d.s.fault = Null => Assign(s, w) = DriverAssign(d.s, w.key, v)
    BY <2>3, <2>4, <2>5, <2>6, AssignNumber
  <2>8. ValueTerms(w.terms) = 1 /\ CallBehind(w) = Null
    BY <1>5 DEF ValueTerms, CallBehind
  <2>9. Decoded(w) = Product(w) /\ Product(w).tag = "dynamic" /\ Product(w).key = w.key /\ Product(w).inc = w.inc
    BY <1>5 DEF Decoded, Product
  <2>10. Driven(s, Decoded(w)) = DriverAssignDynamic(s, Product(w))
    BY <2>9 DEF Driven
  <2>11. DriverAssignDynamic(s, Product(w)) = IF d.s.fault # Null THEN d.s ELSE DriverAssign(d.s, w.key, v)
    BY <2>9 DEF DriverAssignDynamic, After
  <2> QED
    BY <1>3, <2>7, <2>8, <2>10, <2>11 DEF Execute
<1> QED
  BY <1>4, <1>5 DEF ReadsAlike

LEMMA ClaimedWordsAgree ==
  ASSUME NEW files \in Inputs, NEW w \in WordsOf(files), ClaimsWord(w),
         NEW s, IsState(s), s.fault = Null, ReadsAlike(s, w), NEW visible
  PROVE  Statement(s, w, visible) = Execute(s, w)
  BY SetAgrees, AddressAgrees, CommandAgrees DEF ClaimsWord

-----------------------------------------------------------------------------
(* The driver numbers the row when the line ends, the grammar when it      *)
(* starts: no word looks at the number.                                    *)
WithFlow(s, flow)      == [s EXCEPT !.flow = flow]
WithSymbol(s, name, v) == [s EXCEPT !.symbols[name] = v]

LEMMA PutNumbered ==
  ASSUME NEW s, IsState(s), NEW n, NEW c, NEW v
  PROVE  Put(Numbered(s, n), c, v) = Numbered(Put(s, c, v), n)
  BY DEF Numbered, Put, IsState, StateFields, RowFields

LEMMA RecordedNumbered ==
  ASSUME NEW s, IsState(s), NEW n, NEW c, NEW v
  PROVE  Recorded(Numbered(s, n), c, v) = Numbered(Recorded(s, c, v), n)
  BY DEF Numbered, Recorded, IsState, StateFields, RowFields

LEMMA CommentedNumbered ==
  ASSUME NEW s, IsState(s), NEW n, NEW v
  PROVE  Commented(Numbered(s, n), v) = Numbered(Commented(s, v), n)
  BY DEF Numbered, Commented, Put, IsState, StateFields, RowFields

LEMMA UpdateAxisNumbered ==
  ASSUME NEW s, IsState(s), NEW n, NEW c, NEW v
  PROVE  UpdateAxis(Numbered(s, n), c, v) = Numbered(UpdateAxis(s, c, v), n)
  BY DEF Numbered, UpdateAxis, IsState, StateFields, RowFields

LEMMA WithZeroNumbered ==
  ASSUME NEW s, IsState(s), NEW n, NEW c
  PROVE  WithZero(Numbered(s, n), c) = Numbered(WithZero(s, c), n)
  BY DEF Numbered, WithZero, IsState, StateFields, RowFields

LEMMA FailsNumbered ==
  ASSUME NEW s, IsState(s), NEW n, NEW v
  PROVE  Fails(Numbered(s, n), v) = Numbered(Fails(s, v), n)
  BY DEF Numbered, Fails, IsState, StateFields, RowFields

LEMMA FlowNumbered ==
  ASSUME NEW s, IsState(s), NEW n, NEW v
  PROVE  WithFlow(Numbered(s, n), v) = Numbered(WithFlow(s, v), n)
  BY DEF Numbered, WithFlow, IsState, StateFields, RowFields

LEMMA SymbolNumbered ==
  ASSUME NEW s, IsState(s), NEW n, NEW c, NEW v
  PROVE  WithSymbol(Numbered(s, n), c, v) = Numbered(WithSymbol(s, c, v), n)
  BY DEF Numbered, WithSymbol, IsState, StateFields, RowFields

LEMMA NumberUnread ==
  ASSUME NEW s, IsState(s), NEW n
  PROVE  /\ IsState(Numbered(s, n))
         /\ Numbered(s, n).axes = s.axes /\ Numbered(s, n).translation = s.translation
         /\ Numbered(s, n).symbols = s.symbols /\ Numbered(s, n).strings = s.strings
         /\ Numbered(s, n).row.cells = s.row.cells
         /\ Numbered(s, n).flow = s.flow /\ Numbered(s, n).fault = s.fault
  BY DEF Numbered, IsState, StateFields, RowFields

LEMMA DriverAssignNumbered ==
  ASSUME NEW s, IsState(s), NEW n, NEW key, NEW v
  PROVE  DriverAssign(Numbered(s, n), key, v) = Numbered(DriverAssign(s, key, v), n)
<1>1. CASE key \in Axes
  <2>1. UpdateAxis(Numbered(s, n), key, v) = Numbered(UpdateAxis(s, key, v), n)
    BY UpdateAxisNumbered
  <2>2. IsState(UpdateAxis(s, key, v))
    BY UpdatesKeepShape
  <2>3. Put(UpdateAxis(Numbered(s, n), key, v), key, v + s.translation[key])
          = Numbered(Put(UpdateAxis(s, key, v), key, v + s.translation[key]), n)
    BY <2>1, <2>2, PutNumbered
  <2>4. Numbered(s, n).translation = s.translation
    BY NumberUnread
  <2>5. DriverAssign(Numbered(s, n), key, v) = Put(UpdateAxis(Numbered(s, n), key, v), key, v + s.translation[key])
    BY <1>1, <2>4, LinesAssumption DEF DriverAssign
  <2>6. DriverAssign(s, key, v) = Put(UpdateAxis(s, key, v), key, v + s.translation[key])
    BY <1>1, LinesAssumption DEF DriverAssign
  <2> QED
    BY <2>3, <2>5, <2>6
<1>2. CASE key \notin Axes /\ key \in Blocks
  BY <1>2, PutNumbered DEF DriverAssign
<1>3. CASE key \notin Axes /\ key \notin Blocks
  <2>1. Recorded(Numbered(s, n), key, v) = Numbered(Recorded(s, key, v), n) /\ IsState(Recorded(s, key, v))
    BY RecordedNumbered, RowUpdatesKeepShape
  <2>2. WithSymbol(Recorded(Numbered(s, n), key, v), key, v) = Numbered(WithSymbol(Recorded(s, key, v), key, v), n)
    BY <2>1, SymbolNumbered
  <2>3. Fails(Numbered(s, n), "StringVariable") = Numbered(Fails(s, "StringVariable"), n)
    BY FailsNumbered
  <2>4. Numbered(s, n).strings = s.strings
    BY NumberUnread
  <2>5. \A x : DriverAssign(x, key, v) = IF x.strings[key] # Null THEN Fails(x, "StringVariable")
                                         ELSE WithSymbol(Recorded(x, key, v), key, v)
    BY <1>3 DEF DriverAssign, WithSymbol
  <2> QED
    BY <2>2, <2>3, <2>4, <2>5
<1> QED
  BY <1>1, <1>2, <1>3

LEMMA DriverAssignDynamicNumbered ==
  ASSUME NEW s, IsState(s), NEW n, NEW d
  PROVE  DriverAssignDynamic(Numbered(s, n), d) = Numbered(DriverAssignDynamic(s, d), n)
<1> DEFINE r == DriverRead(s, d)
           q == DriverRead(Numbered(s, n), d)
           value(t, v) == IF d.inc /\ Local(t, d.key) # Null THEN Local(t, d.key) + v ELSE v
<1>1. q.s = Numbered(r.s, n) /\ q.v = r.v /\ IsState(r.s)
  BY WithZeroNumbered, FailsNumbered, UpdatesKeepShape, NumberUnread DEF DriverRead
<1>2. q.s.fault = r.s.fault /\ value(q.s, q.v) = value(r.s, r.v)
  BY <1>1, NumberUnread DEF Local
<1>3. DriverAssign(q.s, d.key, value(q.s, q.v)) = Numbered(DriverAssign(r.s, d.key, value(r.s, r.v)), n)
  BY <1>1, <1>2, DriverAssignNumbered
<1>4. DriverAssignDynamic(s, d) = IF r.s.fault # Null THEN r.s ELSE DriverAssign(r.s, d.key, value(r.s, r.v))
  BY DEF DriverAssignDynamic, After
<1>5. DriverAssignDynamic(Numbered(s, n), d)
        = IF q.s.fault # Null THEN q.s ELSE DriverAssign(q.s, d.key, value(q.s, q.v))
  BY DEF DriverAssignDynamic, After
<1> QED
  BY <1>1, <1>2, <1>3, <1>4, <1>5

LEMMA WithMCodeNumbered ==
  ASSUME NEW s, IsState(s), NEW n, NEW code
  PROVE  WithMCode(Numbered(s, n), code) = Numbered(WithMCode(s, code), n)
<1> DEFINE t == InsertM(s, code)
           u == InsertM(Numbered(s, n), code)
<1>1. u = Numbered(t, n)
  BY PutNumbered, FailsNumbered, NumberUnread DEF InsertM
<1>2. IsState(t)
  BY RowUpdatesKeepShape, UpdatesKeepShape DEF InsertM
<1>3. u.fault = t.fault /\ WithFlow(u, EndProgram) = Numbered(WithFlow(t, EndProgram), n)
  BY <1>1, <1>2, FlowNumbered, NumberUnread
<1> QED
  BY <1>1, <1>3 DEF WithMCode, WithFlow

LEMMA ExecuteNumbered ==
  ASSUME NEW s, IsState(s), NEW n, NEW w, ClaimsWord(w)
  PROVE  Execute(Numbered(s, n), w) = Numbered(Execute(s, w), n) /\ IsState(Execute(s, w))
<1> DEFINE d == Decoded(w)
           t == Driven(s, d)
           u == Driven(Numbered(s, n), d)
<1>1. d.tag \in {"assign", "dynamic", "call", "gcommand", "mcode"}
  BY DEF Decoded, ClaimsWord, Simple, Product
<1>2. u = Numbered(t, n)
  BY <1>1, DriverAssignNumbered, DriverAssignDynamicNumbered, WithMCodeNumbered, PutNumbered DEF Driven
<1>3. IsState(t)
  <2>1. ASSUME NEW x, IsState(x), NEW key, NEW v
        PROVE  IsState(DriverAssign(x, key, v))
    <3>1. IsState(Put(UpdateAxis(x, key, v), key, v + x.translation[key]))
      BY <2>1, UpdatesKeepShape, RowUpdatesKeepShape
    <3>2. IsState([Recorded(x, key, v) EXCEPT !.symbols[key] = v])
      BY <2>1, UpdatesKeepShape, RowUpdatesKeepShape
    <3> QED
      BY <2>1, <3>1, <3>2, UpdatesKeepShape, RowUpdatesKeepShape DEF DriverAssign
  <2>2. IsState(DriverRead(s, d).s)
    BY UpdatesKeepShape DEF DriverRead
  <2>3. IsState(DriverAssignDynamic(s, d))
    BY <2>1, <2>2 DEF DriverAssignDynamic, After
  <2> QED
    BY <1>1, <2>1, <2>3, MCodeKeepsShape, RowUpdatesKeepShape DEF Driven
<1>4. u.fault = t.fault
  BY <1>2, <1>3, NumberUnread
<1>5. Put(u, "call", CallBehind(w)) = Numbered(Put(t, "call", CallBehind(w)), n)
  BY <1>2, <1>3, PutNumbered
<1>6. IsState(Put(t, "call", CallBehind(w)))
  BY <1>3, RowUpdatesKeepShape
<1> QED
  BY <1>2, <1>3, <1>4, <1>5, <1>6 DEF Execute

-----------------------------------------------------------------------------
(* The two runs side by side.                                              *)
RunFields == {"files", "fast", "file", "line", "word", "driven", "jumps", "state", "rows", "status"}

IsRun(r) ==
  /\ DOMAIN r = RunFields /\ IsState(r.state)
  /\ r.files \in Inputs /\ r.file \in DOMAIN r.files
  /\ r.line \notin 1..Lines(r) => r.word = 0
  /\ r.status = "running" => r.state.fault = Null

(* Both stand at the same word of the same line; the grammar run has no    *)
(* driver, and the driver no line whose block number is glued.             *)
SamePlace(g, d) ==
  /\ g.files = d.files /\ g.file = d.file /\ g.line = d.line /\ g.word = d.word
  /\ g.jumps = d.jumps /\ g.status = d.status
  /\ g.fast = FALSE /\ g.driven = FALSE
  /\ d.driven /\ d.line # 0 => ~Glued(d)

SameButRow(s, t) ==
  /\ s.axes = t.axes /\ s.translation = t.translation /\ s.symbols = t.symbols /\ s.strings = t.strings
  /\ s.flow = t.flow /\ s.fault = t.fault

(* Between two blocks the driver may still hold the row of an earlier one  *)
(* that the grammar has flushed.  Within a block the grammar has numbered  *)
(* the row, and the driver will when the line ends.                        *)
Between(d) == d.word = 0 \/ (Claimed(d) /\ ~HasContent(Source(d)))
Pending(d) == IF Claimed(d) THEN Source(d).n ELSE Null

SameRows(g, d) ==
  /\ Between(d) => Delivered(g) = Delivered(d)
  /\ ~Between(d) /\ d.status = "running" => g.rows = d.rows /\ g.state = Numbered(d.state, Pending(d))

Lockstep(g, d) ==
  IsRun(g) /\ IsRun(d) /\ SamePlace(g, d) /\ SameButRow(g.state, d.state) /\ SameRows(g, d)

LEMMA LocksStart ==
  ASSUME NEW files \in Inputs
  PROVE  Lockstep(NewRun(files, FALSE), NewRun(files, TRUE))
<1> DEFINE g == NewRun(files, FALSE)
           d == NewRun(files, TRUE)
<1>1. IsState(NewState) /\ NewState.fault = Null
  BY DEF NewState, NoRow, IsState, StateFields, RowFields
<1>2. 1 \in DOMAIN files
  BY InputsAssumption DEF IsSequence
<1>3. IsRun(g) /\ IsRun(d)
  BY <1>1, <1>2 DEF IsRun, NewRun, RunFields
<1>4. SamePlace(g, d) /\ SameButRow(g.state, d.state)
  BY DEF SamePlace, SameButRow, NewRun
<1>5. SameRows(g, d)
  BY DEF SameRows, Between, Delivered, NewRun
<1> QED
  BY <1>3, <1>4, <1>5 DEF Lockstep

(* The current program and line, as both read it.                          *)
LEMMA SameProgram ==
  ASSUME NEW g, NEW d, Lockstep(g, d)
  PROVE  /\ Program(g) = Program(d) /\ Lines(g) = Lines(d) /\ Source(g) = Source(d)
         /\ Lines(d) \in Nat /\ DOMAIN Program(d) = 1..Lines(d) /\ ~Claimed(g)
<1>1. Program(g) = Program(d) /\ Lines(g) = Lines(d) /\ Source(g) = Source(d)
  BY DEF Lockstep, SamePlace, Program, Lines, Source
<1>2. IsSequence(Program(d))
  BY InputsAssumption DEF Lockstep, IsRun, Program
<1> QED
  BY <1>1, <1>2 DEF Lockstep, SamePlace, Claimed, IsSequence, Lines

LEMMA SameLine ==
  ASSUME NEW g, NEW d, Lockstep(g, d), d.line \in 1..Lines(d)
  PROVE  /\ Parsed(g) = Parsed(d) /\ Words(g) = Words(d) /\ Len(Words(d)) \in Nat
         /\ Claimed(d) => Parsed(d) = Source(d)
         /\ Claimed(d) => \A i \in 1..Len(Words(d)) : Words(d)[i] \in WordsOf(d.files)
<1> DEFINE l == Source(d)
<1>1. l = d.files[d.file][d.line] /\ d.files \in Inputs /\ d.file \in DOMAIN d.files
      /\ d.line \in DOMAIN d.files[d.file]
  BY SameProgram DEF Lockstep, IsRun, Source, Program
<1>2. IsSequence(l.words) /\ (l.glued => l.words # <<>>)
  BY <1>1, InputsAssumption
<1>3. Claimed(d) => ~l.glued
  BY DEF Lockstep, SamePlace, Glued, Claimed, Source
<1>4. Claimed(d) => AsParsed(l) = l
  BY <1>3 DEF AsParsed
<1>5. Parsed(g) = Parsed(d) /\ Words(g) = Words(d) /\ (Claimed(d) => Parsed(d) = l)
  BY <1>4, SameProgram DEF Parsed, Words
<1>6. Len(Words(d)) \in Nat
  <2>1. CASE Parsed(d) = l
    BY <1>2, <2>1 DEF Words, IsSequence
  <2>2. CASE Parsed(d) # l
    <3>1. l.glued /\ Parsed(d) = AsParsed(l)
      BY <2>2 DEF Parsed, AsParsed
    <3>2. Tail(l.words) \in Seq(Range(l.words))
      <4>1. \A S, q : q \in Seq(S) /\ q # <<>> => Tail(q) \in Seq(S)
        OBVIOUS
      <4> QED
        BY <1>2, <3>1, <4>1 DEF IsSequence
    <3> QED
      BY <3>1, <3>2 DEF Words, AsParsed
  <2> QED
    BY <2>1, <2>2
<1>7. ASSUME Claimed(d), NEW i \in 1..Len(Words(d))
      PROVE  Words(d)[i] \in WordsOf(d.files)
  <2>1. Words(d) = l.words /\ i \in DOMAIN l.words
    BY <1>2, <1>5, <1>7 DEF Words, IsSequence
  <2>2. l.words[i] \in Range(l.words)
    BY <2>1 DEF Range
  <2> QED
    BY <1>1, <2>1, <2>2 DEF WordsOf
<1> QED
  BY <1>5, <1>6, <1>7

-----------------------------------------------------------------------------
(* One step of each, in lockstep.                                          *)
LEMMA BeginFileLocks ==
  ASSUME NEW g, NEW d, NEW m, NEW n, Lockstep(g, d), ~Departs(d), BeginFile(g, m), BeginFile(d, n)
  PROVE  Lockstep(m, n)
<1>1. /\ DOMAIN g = RunFields /\ DOMAIN d = RunFields /\ g.word = 0 /\ d.word = 0
      /\ Program(g) = Program(d) /\ g.fast = FALSE
  <2>1. g.line = 0 /\ d.line = 0
    BY DEF BeginFile
  <2>2. Program(g) = Program(d) /\ Lines(g) = Lines(d) /\ Lines(d) \in Nat
    BY SameProgram
  <2>3. IsRun(g) /\ IsRun(d) /\ g.fast = FALSE
    BY DEF Lockstep, SamePlace
  <2>4. 0 \notin 1..Lines(d)
    BY <2>2
  <2> QED
    BY <2>1, <2>2, <2>3, <2>4 DEF IsRun
<1>2. /\ \A f \in RunFields \ {"status", "line", "jumps", "driven"} : m[f] = g[f] /\ n[f] = d[f]
      /\ DOMAIN m = RunFields /\ DOMAIN n = RunFields
  BY <1>1 DEF BeginFile, RunFields
<1>3. m.status = n.status /\ m.line = n.line /\ m.jumps = n.jumps /\ m.driven = FALSE
  <2>1. g.status = d.status /\ g.line = d.line /\ g.jumps = d.jumps /\ g.driven = FALSE
    BY DEF Lockstep, SamePlace
  <2> QED
    BY <1>1, <2>1 DEF BeginFile, RunFields
<1>4. IsRun(m) /\ IsRun(n)
  BY <1>1, <1>2 DEF Lockstep, IsRun, RunFields, Lines, Program, BeginFile
<1>5. ~Glued(n)
  <2>1. ~Glued(d)
    BY DEF Departs, BeginFile
  <2> QED
    BY <1>2, <2>1 DEF Glued, Program, Lines, RunFields
<1>6. SamePlace(m, n)
  BY <1>2, <1>3, <1>5 DEF Lockstep, SamePlace, RunFields
<1>7. SameButRow(m.state, n.state)
  BY <1>2 DEF Lockstep, RunFields
<1>8. SameRows(m, n)
  <2>1. Between(d) /\ Between(n)
    BY <1>1, <1>2 DEF Between, RunFields
  <2> QED
    BY <1>2, <2>1 DEF Lockstep, SameRows, Delivered, RunFields
<1> QED
  BY <1>4, <1>6, <1>7, <1>8 DEF Lockstep

(* A new row wipes out what the two rows may still differ in.              *)
LEMMA StartRowAgrees ==
  ASSUME NEW s, NEW t, IsState(s), IsState(t), SameButRow(s, t), NEW i
  PROVE  /\ StartRow(s, i) = StartRow(t, i) /\ IsState(StartRow(s, i)) /\ StartRow(s, i).fault = s.fault
         /\ \A rows : Flushed(rows, StartRow(s, i).row) = rows
         /\ SameButRow(StartRow(s, i), WithFlow(t, Continue))
<1>1. StartRow(s, i) = StartRow(t, i)
  BY DEF StartRow, SameButRow, IsState, StateFields
<1>2. \A rows : Flushed(rows, StartRow(s, i).row) = rows
  BY DEF StartRow, Flushed, NoRow, IsState, StateFields
<1>3. SameButRow(StartRow(s, i), WithFlow(t, Continue))
  BY DEF StartRow, SameButRow, WithFlow, IsState, StateFields
<1>4. IsState(StartRow(s, i)) /\ StartRow(s, i).fault = s.fault
  BY RowUpdatesKeepShape DEF StartRow, IsState, StateFields
<1> QED
  BY <1>1, <1>2, <1>3, <1>4

LEMMA StartLocks ==
  ASSUME NEW g, NEW d, NEW m, NEW n, Lockstep(g, d), StartParsed(g, m),
         StartParsed(d, n) \/ StartDecoded(d, n)
  PROVE  Lockstep(m, n)
<1> DEFINE s == StartRow(d.state, d.line)
<1>1. /\ DOMAIN g = RunFields /\ DOMAIN d = RunFields /\ IsState(g.state) /\ IsState(d.state)
      /\ g.line = d.line /\ SameButRow(g.state, d.state) /\ d.word = 0 /\ d.line \in 1..Lines(d)
      /\ d.status = "running" /\ g.status = "running" /\ d.state.fault = Null
  BY DEF Lockstep, IsRun, SamePlace, StartParsed, StartDecoded
<1>2. /\ Parsed(g) = Parsed(d) /\ Words(g) = Words(d) /\ Program(g) = Program(d) /\ Source(g) = Source(d)
      /\ Lines(g) = Lines(d) /\ (Claimed(d) => Parsed(d) = Source(d))
  BY <1>1, SameLine, SameProgram
<1>3. Delivered(g) = Delivered(d)
  BY <1>1 DEF Lockstep, SameRows, Between
<1>4. /\ StartRow(g.state, d.line) = s /\ IsState(s) /\ s.fault = Null
      /\ \A rows : Flushed(rows, s.row) = rows
      /\ SameButRow(s, WithFlow(d.state, Continue))
  <2>1. /\ StartRow(g.state, d.line) = s /\ IsState(s) /\ s.fault = g.state.fault
        /\ \A rows : Flushed(rows, s.row) = rows
        /\ SameButRow(s, WithFlow(d.state, Continue))
    BY <1>1, StartRowAgrees
  <2> QED
    BY <1>1, <2>1 DEF SameButRow
<1>5. m = [g EXCEPT !.word = 1, !.rows = Delivered(d), !.state = Numbered(s, Parsed(d).n)]
  BY <1>1, <1>2, <1>3, <1>4 DEF StartParsed
<1>6. /\ m.word = 1 /\ m.rows = Delivered(d) /\ m.state = Numbered(s, Parsed(d).n)
      /\ \A f \in RunFields \ {"word", "rows", "state"} : m[f] = g[f]
      /\ DOMAIN m = RunFields
  BY <1>1, <1>5 DEF RunFields
<1>7. /\ n.word = 1 /\ DOMAIN n = RunFields /\ \A f \in RunFields \ {"word", "rows", "state"} : n[f] = d[f]
      /\ IF Claimed(d) /\ ~HasContent(Source(d)) THEN n.rows = d.rows /\ n.state = WithFlow(d.state, Continue)
         ELSE /\ n.rows = Delivered(d)
              /\ n.state = IF Claimed(d) THEN s ELSE Numbered(s, Parsed(d).n)
  BY <1>1 DEF StartParsed, StartDecoded, RunFields, WithFlow
<1>8. /\ Claimed(n) = Claimed(d) /\ Source(n) = Source(d) /\ Lines(n) = Lines(d) /\ Program(n) = Program(d)
      /\ Lines(m) = Lines(g)
  BY <1>6, <1>7 DEF Claimed, Source, Lines, Program, RunFields
<1>9. IsState(m.state) /\ m.state.fault = Null
  BY <1>4, <1>6, NumberUnread
<1>10. IsState(n.state) /\ n.state.fault = Null
  <2>1. IsState(WithFlow(d.state, Continue)) /\ WithFlow(d.state, Continue).fault = Null
    BY <1>1 DEF WithFlow, IsState, StateFields
  <2> QED
    BY <1>4, <1>7, <2>1, NumberUnread
<1>11. IsRun(m) /\ IsRun(n)
  BY <1>1, <1>2, <1>6, <1>7, <1>8, <1>9, <1>10 DEF Lockstep, IsRun, RunFields
<1>12. SamePlace(m, n)
  BY <1>1, <1>6, <1>7, <1>8 DEF Lockstep, SamePlace, Glued, RunFields
<1>13. SameButRow(m.state, n.state)
  BY <1>4, <1>6, <1>7, NumberUnread DEF SameButRow
<1>14. SameRows(m, n)
  <2>1. CASE Claimed(d) /\ ~HasContent(Source(d))
    <3>1. Between(n) /\ Delivered(n) = Delivered(d)
      BY <1>1, <1>7, <1>8, <2>1 DEF Between, Delivered, WithFlow, IsState, StateFields
    <3>2. m.state = s
      BY <1>2, <1>6, <2>1 DEF HasContent, Numbered
    <3>3. Delivered(m) = Delivered(d)
      BY <1>4, <1>6, <3>2 DEF Delivered
    <3> QED
      BY <3>1, <3>3 DEF SameRows
  <2>2. CASE ~(Claimed(d) /\ ~HasContent(Source(d)))
    <3>1. ~Between(n)
      BY <1>7, <1>8, <2>2 DEF Between
    <3>2. n.rows = m.rows /\ m.state = Numbered(n.state, Pending(n))
      BY <1>2, <1>6, <1>7, <1>8, <2>2 DEF Pending, Numbered
    <3> QED
      BY <3>1, <3>2 DEF SameRows
  <2> QED
    BY <2>1, <2>2
<1> QED
  BY <1>11, <1>12, <1>13, <1>14 DEF Lockstep

LEMMA SameTargets ==
  ASSUME NEW g, NEW d, Lockstep(g, d), d.line # 0
  PROVE  /\ \A key : TargetsOf(g, key) = TargetsOf(d, key)
         /\ Visible(g) = Visible(d) /\ Destination(g) = Destination(d)
<1>1. \A i \in 1..Lines(d) : Carries(g, i) = Carries(d, i)
  <2> TAKE i \in 1..Lines(d)
  <2>1. Program(g) = Program(d) /\ g.driven = FALSE
    BY SameProgram DEF Lockstep, SamePlace
  <2>2. d.driven /\ ClaimsLine(Program(d)[i]) => ~Program(d)[i].glued
    BY DEF Lockstep, SamePlace, Glued
  <2> QED
    BY <2>1, <2>2 DEF Carries, AsParsed
<1>2. Lines(g) = Lines(d)
  BY SameProgram
<1>3. \A key : TargetsOf(g, key) = TargetsOf(d, key)
  BY <1>1, <1>2 DEF TargetsOf
<1>4. {Carries(g, i) : i \in 1..Lines(g)} = {Carries(d, i) : i \in 1..Lines(d)}
  BY <1>1, <1>2
<1>5. g.line = d.line /\ g.state.flow = d.state.flow
  BY DEF Lockstep, SamePlace, SameButRow
<1> QED
  BY <1>3, <1>4, <1>5 DEF Visible, Destination

(* Within a block, the two have the same words behind them.                *)
LEMMA EffectAgrees ==
  ASSUME NEW g, NEW d, Lockstep(g, d), ~Departs(d), d.status = "running",
         d.line \in 1..Lines(d), d.word \in 1..Len(Words(d))
  PROVE  /\ ~Between(d)
         /\ Effect(g, Words(d)[d.word]) = Numbered(Effect(d, Words(d)[d.word]), Pending(d))
         /\ IsState(Effect(d, Words(d)[d.word]))
<1> DEFINE w == Words(d)[d.word]
           N == Pending(d)
<1>1. IsState(g.state) /\ IsState(d.state) /\ d.state.fault = Null /\ d.files \in Inputs /\ ~Claimed(g)
  BY SameProgram DEF Lockstep, IsRun
<1>2. /\ Len(Words(d)) \in Nat /\ Visible(g) = Visible(d)
      /\ Claimed(d) => Parsed(d) = Source(d) /\ w \in WordsOf(d.files)
  BY SameLine, SameTargets
<1>3. ~Between(d)
  <2>1. d.word # 0 /\ Words(d) # <<>>
    BY <1>2
  <2> QED
    BY <1>2, <2>1 DEF Between, HasContent, Words
<1>4. g.state = Numbered(d.state, N)
  BY <1>3 DEF Lockstep, SameRows
<1>5. CASE Claimed(d)
  <2>1. ClaimsWord(w)
    <3>1. Words(d) = Source(d).words /\ ClaimsLine(Source(d)) /\ d.word \in DOMAIN Source(d).words
      <4>1. Words(d) = Source(d).words
        BY <1>2, <1>5 DEF Words
      <4>2. IsSequence(Source(d).words)
        BY SameProgram, InputsAssumption DEF Lockstep, IsRun, Source, Program
      <4> QED
        BY <1>5, <4>1, <4>2 DEF Claimed, IsSequence
    <3> QED
      BY <3>1 DEF ClaimsLine
  <2>2. ReadsAlike(d.state, w)
    BY <1>5 DEF Departs
  <2>3. ReadsAlike(g.state, w)
    BY <2>2 DEF Lockstep, SameButRow, ReadsAlike
  <2>4. g.state.fault = Null
    BY <1>1 DEF Lockstep, SameButRow
  <2>5. Statement(g.state, w, Visible(g)) = Execute(g.state, w)
    BY <1>1, <1>2, <1>5, <2>1, <2>3, <2>4, ClaimedWordsAgree
  <2>6. Execute(Numbered(d.state, N), w) = Numbered(Execute(d.state, w), N) /\ IsState(Execute(d.state, w))
    BY <1>1, <2>1, ExecuteNumbered
  <2>7. Effect(g, w) = Statement(g.state, w, Visible(g)) /\ Effect(d, w) = Execute(d.state, w)
    BY <1>1, <1>5 DEF Effect
  <2> QED
    BY <1>3, <1>4, <2>5, <2>6, <2>7
<1>6. CASE ~Claimed(d)
  <2>1. g.state = d.state /\ N = Null
    BY <1>4, <1>6 DEF Pending, Numbered
  <2>2. Effect(g, w) = Effect(d, w)
    BY <1>1, <1>2, <1>6, <2>1 DEF Effect
  <2>3. IsState(Effect(d, w))
    BY <1>1, <1>6, StatementKeepsShape DEF Effect
  <2> QED
    BY <1>3, <2>1, <2>2, <2>3 DEF Numbered
<1> QED
  BY <1>5, <1>6

LEMMA ExecWordLocks ==
  ASSUME NEW g, NEW d, NEW m, NEW n, Lockstep(g, d), ~Departs(d), ExecWord(g, m), ExecWord(d, n)
  PROVE  Lockstep(m, n)
<1> DEFINE s == Effect(d, Words(d)[d.word])
           t == Numbered(s, Pending(d))
<1>1. /\ DOMAIN g = RunFields /\ DOMAIN d = RunFields /\ d.status = "running" /\ g.status = "running"
      /\ g.word = d.word /\ d.line \in 1..Lines(d) /\ g.line = d.line /\ d.word \in 1..Len(Words(d))
  BY DEF Lockstep, IsRun, SamePlace, ExecWord
<1>2. Words(g) = Words(d) /\ Len(Words(d)) \in Nat /\ Lines(g) = Lines(d)
  BY <1>1, SameLine, SameProgram
<1>3. ~Between(d) /\ Effect(g, Words(d)[d.word]) = t /\ IsState(s)
  BY <1>1, EffectAgrees
<1>4. IsState(t) /\ t.fault = s.fault /\ SameButRow(t, s)
  BY <1>3, NumberUnread DEF SameButRow
<1>5. /\ m = IF s.fault # Null THEN [g EXCEPT !.state = t, !.status = "failed"]
             ELSE [g EXCEPT !.state = t, !.word = @ + 1]
      /\ n = IF s.fault # Null THEN [d EXCEPT !.state = s, !.status = "failed"]
             ELSE [d EXCEPT !.state = s, !.word = @ + 1]
  BY <1>1, <1>2, <1>3, <1>4 DEF ExecWord, WordDone
<1>6. /\ m.state = t /\ n.state = s /\ m.status = n.status /\ m.word = n.word /\ n.word # 0
      /\ DOMAIN m = RunFields /\ DOMAIN n = RunFields
      /\ \A f \in RunFields \ {"word", "state", "status"} : m[f] = g[f] /\ n[f] = d[f]
      /\ n.status = "running" => s.fault = Null
  <2>1. d.word # 0 /\ d.word + 1 # 0
    BY <1>1, <1>2
  <2>2. CASE s.fault # Null
    BY <1>1, <1>5, <2>1, <2>2 DEF RunFields
  <2>3. CASE s.fault = Null
    <3>1. m = [g EXCEPT !.state = t, !.word = @ + 1] /\ n = [d EXCEPT !.state = s, !.word = @ + 1]
      BY <1>5, <2>3
    <3> HIDE DEF s, t
    <3> QED
      BY <1>1, <2>1, <2>3, <3>1 DEF RunFields
  <2> QED
    BY <2>2, <2>3
<1>7. /\ Lines(m) = Lines(g) /\ Lines(n) = Lines(d) /\ Program(n) = Program(d)
      /\ Source(n) = Source(d) /\ Claimed(n) = Claimed(d)
  BY <1>6 DEF Lines, Program, Source, Claimed, RunFields
<1>8. IsRun(m) /\ IsRun(n)
  BY <1>1, <1>2, <1>3, <1>4, <1>6, <1>7 DEF Lockstep, IsRun, RunFields
<1>9. SamePlace(m, n)
  BY <1>1, <1>6, <1>7 DEF Lockstep, SamePlace, Glued, RunFields
<1>10. SameRows(m, n)
  <2>1. ~Between(n) /\ Pending(n) = Pending(d)
    BY <1>3, <1>6, <1>7 DEF Between, Pending
  <2>2. m.rows = n.rows
    BY <1>1, <1>3, <1>6 DEF Lockstep, SameRows, RunFields
  <2> QED
    BY <1>6, <2>1, <2>2 DEF SameRows
<1> QED
  BY <1>4, <1>6, <1>8, <1>9, <1>10 DEF Lockstep

LEMMA CommentUnread ==
  ASSUME NEW s, IsState(s), NEW c
  PROVE  IsState(Commented(s, c)) /\ SameButRow(Commented(s, c), s)
  BY RowUpdatesKeepShape DEF Commented, Put, SameButRow, IsState, StateFields

LEMMA ClosedAgrees ==
  ASSUME NEW g, NEW d, Lockstep(g, d), d.status = "running", d.line \in 1..Lines(d),
         d.word = Len(Words(d)) + 1
  PROVE  /\ IsState(Closed(g)) /\ IsState(Closed(d)) /\ SameButRow(Closed(d), d.state)
         /\ SameButRow(Closed(g), Closed(d))
         /\ Flushed(g.rows, Closed(g).row) = Flushed(d.rows, Closed(d).row)
<1> DEFINE c == Parsed(d).comment
<1>1. /\ Parsed(g) = Parsed(d) /\ ~Claimed(g) /\ (Claimed(d) => Parsed(d) = Source(d))
      /\ Len(Words(d)) \in Nat /\ IsState(g.state) /\ IsState(d.state) /\ SameButRow(g.state, d.state)
  BY SameLine, SameProgram DEF Lockstep, IsRun
<1>2. Closed(g) = Commented(g.state, c)
  BY <1>1 DEF Closed
<1>3. Closed(d) = Commented(Numbered(d.state, Pending(d)), c)
  BY <1>1 DEF Closed, Pending, Numbered
<1>4. IsState(Numbered(d.state, Pending(d))) /\ SameButRow(Numbered(d.state, Pending(d)), d.state)
  BY <1>1, NumberUnread DEF SameButRow
<1>5. /\ IsState(Closed(g)) /\ IsState(Closed(d))
      /\ SameButRow(Closed(g), g.state) /\ SameButRow(Closed(d), Numbered(d.state, Pending(d)))
  BY <1>1, <1>2, <1>3, <1>4, CommentUnread
<1>6. SameButRow(Closed(d), d.state) /\ SameButRow(Closed(g), Closed(d))
  BY <1>1, <1>4, <1>5 DEF SameButRow
<1>7. Flushed(g.rows, Closed(g).row) = Flushed(d.rows, Closed(d).row)
  <2>1. CASE Between(d)
    <3>1. Claimed(d) /\ ~HasContent(Source(d))
      BY <1>1, <2>1 DEF Between
    <3>2. Closed(g) = g.state /\ Closed(d) = d.state
      BY <1>1, <1>2, <1>3, <3>1 DEF HasContent, Pending, Numbered, Commented
    <3> QED
      BY <2>1, <3>2 DEF Lockstep, SameRows, Delivered
  <2>2. CASE ~Between(d)
    BY <1>2, <1>3, <2>2 DEF Lockstep, SameRows
  <2> QED
    BY <2>1, <2>2
<1> QED
  BY <1>5, <1>6, <1>7

LEMMA EndLineLocks ==
  ASSUME NEW g, NEW d, NEW m, NEW n, Lockstep(g, d), EndLine(g, m), EndLine(d, n)
  PROVE  Lockstep(m, n)
<1>1. /\ DOMAIN g = RunFields /\ DOMAIN d = RunFields /\ d.status = "running" /\ d.line \in 1..Lines(d)
      /\ d.word = Len(Words(d)) + 1 /\ g.line = d.line /\ d.state.fault = Null
  BY DEF Lockstep, IsRun, SamePlace, EndLine, AtLineEnd
<1>2. /\ IsState(Closed(g)) /\ IsState(Closed(d)) /\ SameButRow(Closed(d), d.state)
      /\ SameButRow(Closed(g), Closed(d))
      /\ Flushed(g.rows, Closed(g).row) = Flushed(d.rows, Closed(d).row)
  BY <1>1, ClosedAgrees
<1>3. /\ m.state = Closed(g) /\ n.state = Closed(d) /\ m.word = 0 /\ n.word = 0
      /\ DOMAIN m = RunFields /\ DOMAIN n = RunFields
      /\ \A f \in RunFields \ {"word", "state", "line"} : m[f] = g[f] /\ n[f] = d[f]
  BY <1>1 DEF EndLine, RunFields
<1>4. m.line = n.line
  <2>1. g.state.flow = d.state.flow /\ Lines(g) = Lines(d)
    BY SameProgram DEF Lockstep, SameButRow
  <2> QED
    BY <1>1, <2>1 DEF EndLine, RunFields
<1>5. IsRun(m) /\ IsRun(n)
  <2>1. Closed(g).fault = Null /\ Closed(d).fault = Null
    BY <1>1, <1>2 DEF SameButRow
  <2> QED
    BY <1>2, <1>3, <2>1 DEF Lockstep, IsRun, RunFields
<1>6. SamePlace(m, n)
  <2>1. Glued(n) = Glued(d) /\ d.line # 0
    BY <1>1, <1>3 DEF Glued, Lines, Program, RunFields
  <2> QED
    BY <1>3, <1>4, <2>1 DEF Lockstep, SamePlace, RunFields
<1>7. SameRows(m, n)
  BY <1>2, <1>3 DEF SameRows, Between, Delivered, RunFields
<1> QED
  BY <1>2, <1>3, <1>5, <1>6, <1>7 DEF Lockstep

LEMMA TakeJumpLocks ==
  ASSUME NEW g, NEW d, NEW m, NEW n, Lockstep(g, d), TakeJump(g, m), TakeJump(d, n)
  PROVE  Lockstep(m, n)
<1> DEFINE s     == WithFlow(Closed(g), Continue)
           t     == WithFlow(Closed(d), Continue)
           to    == Destination(d)
           taken == IF to <= d.line THEN d.jumps + 1 ELSE d.jumps
<1>1. /\ DOMAIN g = RunFields /\ DOMAIN d = RunFields /\ d.status = "running" /\ d.line \in 1..Lines(d)
      /\ d.word = Len(Words(d)) + 1 /\ g.line = d.line /\ d.state.fault = Null /\ g.jumps = d.jumps
      /\ d.line # 0 /\ g.status = "running" /\ g.word = d.word
  <2>1. AtLineEnd(g) /\ AtLineEnd(d)
    BY DEF TakeJump
  <2>2. IsRun(g) /\ IsRun(d) /\ g.line = d.line /\ g.jumps = d.jumps /\ g.word = d.word
    BY DEF Lockstep, SamePlace
  <2>3. Lines(d) \in Nat
    BY SameProgram
  <2> QED
    BY <2>1, <2>2, <2>3 DEF IsRun, AtLineEnd
<1>2. /\ IsState(Closed(g)) /\ IsState(Closed(d)) /\ SameButRow(Closed(d), d.state)
      /\ SameButRow(Closed(g), Closed(d))
      /\ Flushed(g.rows, Closed(g).row) = Flushed(d.rows, Closed(d).row)
  BY <1>1, ClosedAgrees
<1>3. /\ IsState(s) /\ IsState(t) /\ SameButRow(s, t) /\ s.fault = Null /\ t.fault = Null
      /\ s.row = Closed(g).row /\ t.row = Closed(d).row
  BY <1>1, <1>2 DEF WithFlow, SameButRow, IsState, StateFields
<1>4. Destination(g) = to
  BY <1>1, SameTargets
<1>5. ASSUME NEW r, NEW x, r.line = d.line, r.jumps = d.jumps, Destination(r) = to, TakeJump(r, x)
      PROVE  LET u == WithFlow(Closed(r), Continue)
             IN  x = CASE to = 0 -> [r EXCEPT !.state = u, !.status = "JumpTargetNotFound"]
                       [] to # 0 /\ to <= d.line /\ taken >= Limit -> [r EXCEPT !.state = u, !.status = "LoopLimit"]
                       [] OTHER -> [r EXCEPT !.state = u, !.line = to, !.word = 0, !.jumps = taken]
  BY <1>5 DEF TakeJump, WithFlow
<1>6. /\ m = CASE to = 0 -> [g EXCEPT !.state = s, !.status = "JumpTargetNotFound"]
               [] to # 0 /\ to <= d.line /\ taken >= Limit -> [g EXCEPT !.state = s, !.status = "LoopLimit"]
               [] OTHER -> [g EXCEPT !.state = s, !.line = to, !.word = 0, !.jumps = taken]
      /\ n = CASE to = 0 -> [d EXCEPT !.state = t, !.status = "JumpTargetNotFound"]
               [] to # 0 /\ to <= d.line /\ taken >= Limit -> [d EXCEPT !.state = t, !.status = "LoopLimit"]
               [] OTHER -> [d EXCEPT !.state = t, !.line = to, !.word = 0, !.jumps = taken]
  BY <1>1, <1>4, <1>5
<1> HIDE DEF s, t, to, taken
<1>7. /\ m.state = s /\ n.state = t /\ DOMAIN m = RunFields /\ DOMAIN n = RunFields
      /\ m.status = n.status /\ m.line = n.line /\ m.word = n.word /\ m.jumps = n.jumps
      /\ \A f \in {"files", "fast", "file", "driven", "rows"} : m[f] = g[f] /\ n[f] = d[f]
      /\ n.word = 0 \/ (n.line = d.line /\ n.word = d.word /\ n.status # "running")
  <2>1. CASE to = 0
    BY <1>1, <1>6, <2>1 DEF RunFields
  <2>2. CASE to # 0 /\ to <= d.line /\ taken >= Limit
    BY <1>1, <1>6, <2>2 DEF RunFields
  <2>3. CASE to # 0 /\ ~(to <= d.line /\ taken >= Limit)
    BY <1>1, <1>6, <2>3 DEF RunFields
  <2> QED
    BY <2>1, <2>2, <2>3
<1>8. /\ Lines(m) = Lines(g) /\ Lines(n) = Lines(d) /\ Lines(g) = Lines(d) /\ Program(n) = Program(d)
  BY <1>7, SameProgram DEF Lines, Program
<1>9. IsRun(m) /\ IsRun(n)
  BY <1>1, <1>3, <1>7, <1>8 DEF Lockstep, IsRun, RunFields
<1>10. SamePlace(m, n)
  <2>1. Glued(n) = Glued(d) /\ g.files = d.files /\ g.file = d.file /\ g.fast = FALSE /\ g.driven = FALSE
    BY <1>8 DEF Glued, Lockstep, SamePlace
  <2>2. d.driven => ~Glued(d)
    BY <1>1 DEF Lockstep, SamePlace
  <2> QED
    BY <1>7, <2>1, <2>2 DEF SamePlace
<1>11. SameRows(m, n)
  <2>1. Delivered(m) = Delivered(n)
    BY <1>2, <1>3, <1>7 DEF Delivered
  <2> QED
    BY <1>7, <2>1 DEF SameRows, Between
<1> QED
  BY <1>3, <1>7, <1>9, <1>10, <1>11 DEF Lockstep

LEMMA EndFileLocks ==
  ASSUME NEW g, NEW d, NEW m, NEW n, Lockstep(g, d), EndFile(g, m), EndFile(d, n)
  PROVE  Lockstep(m, n)
<1> DEFINE s == [d.state EXCEPT !.row = NoRow, !.flow = Continue]
<1>1. /\ IsRun(g) /\ IsRun(d) /\ d.status = "running" /\ d.line = Lines(d) + 1
      /\ g.file = d.file /\ g.files = d.files /\ g.line = d.line /\ g.word = d.word
  BY DEF Lockstep, SamePlace, EndFile
<1>2. d.word = 0 /\ g.word = 0
  <2>1. Lines(d) \in Nat
    BY SameProgram
  <2> QED
    BY <1>1, <2>1 DEF IsRun
<1>3. IsState(s) /\ s.fault = Null /\ [g.state EXCEPT !.row = NoRow, !.flow = Continue] = s
  <2>1. IsState(g.state) /\ IsState(d.state) /\ d.state.fault = Null /\ SameButRow(g.state, d.state)
    BY <1>1 DEF Lockstep, IsRun
  <2> QED
    BY <2>1 DEF SameButRow, IsState, StateFields, RowFields, NoRow
<1>4. Delivered(g) = Delivered(d)
  BY <1>2 DEF Lockstep, SameRows, Between
<1>5. /\ m = IF d.file < Len(d.files) THEN [g EXCEPT !.line = 0, !.state = s, !.file = @ + 1, !.rows = <<>>]
             ELSE [g EXCEPT !.line = 0, !.state = s, !.rows = Delivered(d), !.status = "ended"]
      /\ n = IF d.file < Len(d.files) THEN [d EXCEPT !.line = 0, !.state = s, !.file = @ + 1, !.rows = <<>>]
             ELSE [d EXCEPT !.line = 0, !.state = s, !.rows = Delivered(d), !.status = "ended"]
  BY <1>1, <1>3, <1>4 DEF EndFile
<1> HIDE DEF s
<1>6. /\ m.state = s /\ n.state = s /\ m.line = 0 /\ n.line = 0 /\ m.word = 0 /\ n.word = 0
      /\ DOMAIN m = RunFields /\ DOMAIN n = RunFields
      /\ \A f \in {"files", "fast", "driven", "jumps"} : m[f] = g[f] /\ n[f] = d[f]
      /\ m.rows = n.rows /\ m.file = n.file /\ m.status = n.status /\ n.file \in DOMAIN d.files
  <2>1. DOMAIN d.files = 1..Len(d.files) /\ Len(d.files) \in Nat /\ d.file \in DOMAIN d.files
    BY <1>1, InputsAssumption DEF IsRun, IsSequence
  <2>2. DOMAIN g = RunFields /\ DOMAIN d = RunFields /\ g.status = d.status
    BY <1>1 DEF IsRun, Lockstep, SamePlace
  <2>3. CASE d.file < Len(d.files)
    BY <1>1, <1>2, <1>5, <2>1, <2>2, <2>3 DEF RunFields
  <2>4. CASE ~(d.file < Len(d.files))
    BY <1>1, <1>2, <1>5, <2>1, <2>2, <2>4 DEF RunFields
  <2> QED
    BY <2>3, <2>4
<1>7. IsRun(m) /\ IsRun(n)
  BY <1>1, <1>3, <1>6 DEF IsRun, RunFields
<1>8. SamePlace(m, n) /\ SameButRow(m.state, n.state)
  BY <1>1, <1>6 DEF Lockstep, SamePlace, SameButRow
<1>9. SameRows(m, n)
  BY <1>6 DEF SameRows, Between, Delivered
<1> QED
  BY <1>7, <1>8, <1>9 DEF Lockstep

(* The action a run takes next is decided by what the two have in common.  *)
LEMMA StepLocks ==
  ASSUME NEW g, NEW d, NEW m, NEW n, Lockstep(g, d), ~Departs(d), Step(g, m), Step(d, n)
  PROVE  Lockstep(m, n)
<1>1. /\ g.line = d.line /\ g.word = d.word /\ Lines(g) = Lines(d) /\ Lines(d) \in Nat /\ ~Claimed(g)
      /\ g.state.flow = d.state.flow
  BY SameProgram DEF Lockstep, SamePlace, SameButRow
<1>2. d.line \in 1..Lines(d) => Words(g) = Words(d) /\ Len(Words(d)) \in Nat
  BY SameLine
<1>3. ~StartDecoded(g, m)
  BY <1>1 DEF StartDecoded
<1>4. CASE BeginFile(g, m)
  <2>1. d.line = 0
    BY <1>1, <1>4 DEF BeginFile
  <2>2. BeginFile(d, n)
    BY <1>1, <2>1 DEF Step, StartParsed, StartDecoded, ExecWord, EndLine, TakeJump, AtLineEnd, EndFile
  <2> QED
    BY <1>4, <2>2, BeginFileLocks
<1>5. CASE StartParsed(g, m)
  <2>1. d.line \in 1..Lines(d) /\ d.word = 0
    BY <1>1, <1>5 DEF StartParsed
  <2>2. StartParsed(d, n) \/ StartDecoded(d, n)
    BY <1>1, <1>2, <2>1 DEF Step, BeginFile, ExecWord, EndLine, TakeJump, AtLineEnd, EndFile
  <2> QED
    BY <1>5, <2>2, StartLocks
<1>6. CASE ExecWord(g, m)
  <2>1. d.line \in 1..Lines(d) /\ d.word \in 1..Len(Words(d))
    BY <1>1, <1>2, <1>6 DEF ExecWord
  <2>2. ExecWord(d, n)
    BY <1>1, <1>2, <2>1 DEF Step, BeginFile, StartParsed, StartDecoded, EndLine, TakeJump, AtLineEnd, EndFile
  <2> QED
    BY <1>6, <2>2, ExecWordLocks
<1>7. CASE EndLine(g, m)
  <2>1. d.line \in 1..Lines(d) /\ d.word = Len(Words(d)) + 1 /\ d.state.flow.tag # "jump"
    BY <1>1, <1>2, <1>7 DEF EndLine, AtLineEnd
  <2>2. EndLine(d, n)
    BY <1>1, <1>2, <2>1 DEF Step, BeginFile, StartParsed, StartDecoded, ExecWord, TakeJump, EndFile
  <2> QED
    BY <1>7, <2>2, EndLineLocks
<1>8. CASE TakeJump(g, m)
  <2>1. d.line \in 1..Lines(d) /\ d.word = Len(Words(d)) + 1 /\ d.state.flow.tag = "jump"
    BY <1>1, <1>2, <1>8 DEF TakeJump, AtLineEnd
  <2>2. TakeJump(d, n)
    BY <1>1, <1>2, <2>1 DEF Step, BeginFile, StartParsed, StartDecoded, ExecWord, EndLine, EndFile
  <2> QED
    BY <1>8, <2>2, TakeJumpLocks
<1>9. CASE EndFile(g, m)
  <2>1. d.line = Lines(d) + 1
    BY <1>1, <1>9 DEF EndFile
  <2>2. EndFile(d, n)
    BY <1>1, <2>1 DEF Step, BeginFile, StartParsed, StartDecoded, ExecWord, EndLine, TakeJump, AtLineEnd
  <2> QED
    BY <1>9, <2>2, EndFileLocks
<1> QED
  BY <1>3, <1>4, <1>5, <1>6, <1>7, <1>8, <1>9 DEF Step

-----------------------------------------------------------------------------
(* Until the driver reads a line otherwise, the two runs are in lockstep.  *)
Locked == departed \in BOOLEAN /\ (departed = TRUE \/ Lockstep(grammar, driver))

LEMMA LockedKept ==
  ASSUME Locked, [Next]_vars
  PROVE  Locked'
<1>1. CASE UNCHANGED vars
  BY <1>1 DEF vars, Locked
<1>2. CASE Next
  <2>1. departed' = (departed \/ Departs(driver)) /\ departed' \in BOOLEAN
    BY <1>2 DEF Next, Locked
  <2>2. CASE departed' = TRUE
    BY <2>1, <2>2 DEF Locked
  <2>3. CASE departed' # TRUE
    <3>1. Lockstep(grammar, driver) /\ ~Departs(driver)
      BY <2>1, <2>3 DEF Locked
    <3>2. grammar.status = driver.status
      BY <3>1 DEF Lockstep, SamePlace
    <3>3. CASE driver.status = "running"
      <4>1. Step(grammar, grammar') /\ Step(driver, driver')
        BY <1>2, <3>2, <3>3 DEF Next, GrammarStep, DriverStep
      <4>2. Lockstep(grammar', driver')
        BY <3>1, <4>1, StepLocks
      <4> QED
        BY <2>1, <4>2 DEF Locked
    <3>4. CASE driver.status # "running"
      <4>1. grammar' = grammar /\ driver' = driver
        BY <1>2, <3>2, <3>4 DEF Next, GrammarStep, DriverStep
      <4> QED
        BY <2>1, <3>1, <4>1 DEF Locked
    <3> QED
      BY <3>3, <3>4
  <2> QED
    BY <2>2, <2>3
<1> QED
  BY <1>1, <1>2 DEF vars

(* The line driver replicates the grammar path (line_driver.rs) on every   *)
(* input, up to the first line that the two read differently: at every     *)
(* line boundary both runs hold the same tables and have produced the same *)
(* rows, and they stop on the same error.                                  *)
THEOREM DriverReplicates == Spec => []AgreeOnClaims
<1>1. Init => Locked
  BY LocksStart DEF Init, Locked
<1>2. Locked /\ [Next]_vars => Locked'
  BY LockedKept
<1>3. Locked => AgreeOnClaims
  BY DEF Locked, AgreeOnClaims, Replicates, Lockstep, SamePlace, SameButRow, SameRows, Between, Tables
<1> QED
  BY <1>1, <1>2, <1>3, PTL DEF Spec

-----------------------------------------------------------------------------
(* Most words leave the axes and the frame alone.                          *)
Still(s, t) ==
  t.axes = s.axes /\ t.translation = s.translation /\ DOMAIN t.row.cells = DOMAIN s.row.cells

LEMMA RowUpdatesStill ==
  ASSUME NEW s, IsState(s), NEW c, NEW v
  PROVE  Still(s, Put(s, c, v)) /\ Still(s, Recorded(s, c, v)) /\ Still(s, Numbered(s, v)) /\ Still(s, Commented(s, v))
  BY DEF Still, IsState, StateFields, RowFields, Put, Recorded, Numbered, Commented

LEMMA UpdatesStill ==
  ASSUME NEW s, IsState(s), NEW c, NEW v
  PROVE  /\ Still(s, Fails(s, v)) /\ Still(s, WithZero(s, c))
         /\ Still(s, [s EXCEPT !.flow = v]) /\ Still(s, [s EXCEPT !.strings = v])
         /\ Still(s, [s EXCEPT !.symbols[c] = v]) /\ Still(s, [s EXCEPT !.strings[c] = v])
  BY DEF Still, IsState, StateFields, RowFields, Fails, WithZero

LEMMA ReadingStill ==
  ASSUME NEW s, IsState(s), NEW terms
  PROVE  Still(s, Reading(s, terms)) /\ Still(s, Evaluate(s, terms).s)
<1>1. Still(s, Reading(s, terms))
  <2>1. \A names, v : Still(s, Fails(WithZero(s, names), v))
    BY DEF Still, IsState, StateFields, RowFields, Fails, WithZero
  <2> QED
    BY <2>1, UpdatesStill DEF Reading
<1>2. Still(s, Fails(Reading(s, terms), "DivisionByZero"))
  BY <1>1, ReadingKeepsShape, UpdatesStill DEF Still
<1> QED
  BY <1>1, <1>2 DEF Evaluate

LEMMA NumberOfStill ==
  ASSUME NEW s, IsState(s), NEW w
  PROVE  /\ Still(s, NumberOf(s, w).s) /\ IsState(NumberOf(s, w).s)
         /\ NumberOf(s, w) = [s |-> NumberOf(s, w).s, v |-> NumberOf(s, w).v]
<1>1. Still(s, Evaluate(s, w.terms).s) /\ IsState(Evaluate(s, w.terms).s)
  BY ReadingStill, ReadingKeepsShape
<1>2. Evaluate(s, w.terms) = [s |-> Evaluate(s, w.terms).s, v |-> Evaluate(s, w.terms).v]
  BY DEF Evaluate
<1>3. Still(s, s)
  BY DEF Still
<1> QED
  BY <1>1, <1>2, <1>3 DEF NumberOf

LEMMA TextsStill ==
  ASSUME NEW s, IsState(s), NEW w
  PROVE  Still(s, AssignedText(s, w)) /\ Still(s, CharWrite(s, w))
<1> DEFINE t == TextOf(s, w.texts).s
<1>1. Still(s, t) /\ IsState(t)
  BY ReadingStill, TextOfKeepsShape DEF TextOf
<1>2. ASSUME NEW u, IsState(u), NEW v
      PROVE  Still(u, StoredText(u, w.key, v))
  BY <1>2, UpdatesStill DEF StoredText
<1>3. Still(s, AssignedText(s, w))
  <2>1. Still(t, StoredText(t, w.key, TextOf(s, w.texts).v))
    BY <1>1, <1>2
  <2>2. Still(s, StoredText(s, w.key, s.strings[w.terms[1].name]))
    BY <1>2
  <2>3. Still(s, s)
    BY DEF Still
  <2> QED
    BY <1>1, <2>1, <2>2, <2>3 DEF AssignedText, After, Still
<1>4. Still(s, CharWrite(s, w))
  <2>1. ASSUME NEW v
        PROVE  Still(t, [t EXCEPT !.strings[w.key][w.num + 1] = v]) /\ Still(t, Fails(t, v))
    BY <1>1 DEF Still, Fails, IsState, StateFields
  <2> DEFINE u == CharWrite(s, w)
  <2>2. Still(t, t)
    BY DEF Still
  <2>3. Still(t, u)
    BY <2>1, <2>2 DEF CharWrite, After
  <2> QED
    BY <1>1, <2>3 DEF Still
<1> QED
  BY <1>3, <1>4

LEMMA CommandsStill ==
  ASSUME NEW s, IsState(s), NEW w, NEW visible
  PROVE  /\ Still(s, WithMCode(s, w.key)) /\ Still(s, GCommand(s, w.key)) /\ Still(s, BareWord(s, w.key))
         /\ Still(s, Jump(s, w, visible))
<1>1. Still(s, InsertM(s, w.key)) /\ IsState(InsertM(s, w.key))
  BY RowUpdatesStill, UpdatesStill, RowUpdatesKeepShape, UpdatesKeepShape DEF InsertM
<1>2. Still(s, WithMCode(s, w.key))
  BY <1>1, UpdatesStill DEF WithMCode, Still
<1>3. Still(s, GCommand(s, w.key)) /\ Still(s, BareWord(s, w.key))
  BY RowUpdatesStill, UpdatesStill DEF GCommand, BareWord
<1>4. Still(s, Jump(s, w, visible))
  <2> DEFINE t == Evaluate(s, w.terms).s
  <2>1. Still(s, t) /\ IsState(t) /\ Still(s, s)
    BY ReadingStill, ReadingKeepsShape DEF Still
  <2>2. \A f : Still(t, [t EXCEPT !.flow = f])
    BY <2>1, UpdatesStill
  <2> QED
    BY <2>1, <2>2 DEF Jump, After, Still
<1> QED
  BY <1>2, <1>3, <1>4

(* A definition gives no value to an axis.                                 *)
LEMMA DefineStill ==
  ASSUME NEW s, IsState(s), NEW w
  PROVE  Still(s, Define(s, w))
<1> DEFINE item == w.items[1]
<1>1. ASSUME NEW t, IsState(t), NEW keys, NEW values
      PROVE  Still(t, SetAll(t, keys, values))
  BY <1>1 DEF SetAll, Still, IsState, StateFields, RowFields
<1>2. Still(s, DefineMulti(s, item))
  <2>1. Still(s, ValueArray(s, item.items).s) /\ IsState(ValueArray(s, item.items).s)
    BY ReadingStill, ReadingKeepsShape DEF ValueArray
  <2> QED
    BY <1>1, <2>1, UpdatesStill DEF DefineMulti, After, Still
<1>3. ASSUME item.key \in Variables
      PROVE  Still(s, DefineInitialised(s, w.kw, item))
  <2> DEFINE r == NumberOf(s, item)
             a == Assignment(s, item).s
  <2>1. Still(r.s, StoredNumber(r.s, item.key, r.v))
    BY <1>3, NumberOfStill, UpdatesStill, LinesAssumption DEF StoredNumber
  <2>2. Still(s, a) /\ IsState(a)
    <3>1. Still(s, AssignedText(s, item)) /\ Still(s, r.s)
      BY TextsStill, NumberOfStill
    <3>2. Still(s, Stored(r, item.key).s)
      BY <2>1, <3>1 DEF Stored, Still
    <3> QED
      BY <3>1, <3>2, AssignmentKeepsShape DEF Assignment
  <2>3. \A v : Still(a, Fails(a, v)) /\ Still(a, Recorded(a, item.key, v)) /\ Still(a, a)
    BY <2>2, UpdatesStill, RowUpdatesStill DEF Still
  <2> QED
    BY <2>2, <2>3 DEF DefineInitialised, After, Still
<1>4. \A v : Still(s, Recorded([s EXCEPT !.symbols[item.key] = 0], item.key, v))
  BY DEF Still, Recorded, IsState, StateFields, RowFields
<1>5. Still(s, DefineItem(s, w.kw, item))
  BY <1>1, <1>2, <1>3, <1>4, UpdatesStill DEF DefineItem
<1> QED
  BY <1>5 DEF Define

-----------------------------------------------------------------------------
(* A word that fails nothing moves an axis only into the row, and changes  *)
(* the frame only of axes not in it.                                       *)
Placed(s) == IsState(s) /\ DOMAIN s.axes = Axes /\ DOMAIN s.row.cells = Columns

Moves(s, t) == t.fault = Null => Placed(t) /\ WrittenWhenMoved(s, t)

LEMMA StillMoves ==
  ASSUME NEW s, NEW t, Placed(s), IsState(t), Still(s, t)
  PROVE  Placed(t) /\ Moves(s, t)
  BY DEF Placed, Still, Moves, WrittenWhenMoved

LEMMA DriverAssignMoves ==
  ASSUME NEW s, Placed(s), NEW key, NEW v
  PROVE  Moves(s, DriverAssign(s, key, v)) /\ IsState(DriverAssign(s, key, v))
<1>1. IsState(s)
  BY DEF Placed
<1>2. CASE key \in Axes
  <2> DEFINE t == Put(UpdateAxis(s, key, v), key, v + s.translation[key])
  <2>1. DriverAssign(s, key, v) = t
    BY <1>2, LinesAssumption DEF DriverAssign
  <2>2. IsState(UpdateAxis(s, key, v)) /\ IsState(t)
    BY <1>1, UpdatesKeepShape, RowUpdatesKeepShape
  <2>3. t.translation = s.translation /\ t.axes = [s.axes EXCEPT ![key] = v]
        /\ t.row.cells = [s.row.cells EXCEPT ![key] = v + s.translation[key]]
    BY <1>1 DEF Put, UpdateAxis, IsState, StateFields, RowFields
  <2>4. key \in DOMAIN s.axes /\ key \in DOMAIN s.row.cells
    BY <1>2 DEF Placed, Columns, Names
  <2>5. Placed(t)
    BY <2>2, <2>3 DEF Placed
  <2>6. WrittenWhenMoved(s, t)
    <3>1. t.row.cells[key] = v + s.translation[key] /\ MachineOf(t, key) = v + s.translation[key]
      BY <2>3, <2>4 DEF MachineOf
    <3>2. \A a \in Axes : a # key => t.axes[a] = s.axes[a]
      BY <2>3 DEF Placed
    <3> QED
      BY <2>3, <3>1, <3>2 DEF WrittenWhenMoved
  <2> QED
    BY <2>1, <2>2, <2>5, <2>6 DEF Moves
<1>3. CASE key \notin Axes
  <2>1. \A x : IsState(x) => Still(x, WithSymbol(x, key, v)) /\ IsState(WithSymbol(x, key, v))
    BY UpdatesStill, UpdatesKeepShape DEF WithSymbol
  <2>2. Still(s, WithSymbol(Recorded(s, key, v), key, v)) /\ IsState(WithSymbol(Recorded(s, key, v), key, v))
    BY <1>1, <2>1, RowUpdatesStill, RowUpdatesKeepShape DEF Still
  <2>3. Still(s, Put(s, key, v)) /\ Still(s, Fails(s, "StringVariable"))
        /\ IsState(Put(s, key, v)) /\ IsState(Fails(s, "StringVariable"))
    BY <1>1, RowUpdatesStill, UpdatesStill, RowUpdatesKeepShape, UpdatesKeepShape
  <2>4. DriverAssign(s, key, v) \in {Put(s, key, v), Fails(s, "StringVariable"), WithSymbol(Recorded(s, key, v), key, v)}
    BY <1>3 DEF DriverAssign, WithSymbol
  <2> QED
    BY <2>2, <2>3, <2>4, StillMoves
<1> QED
  BY <1>2, <1>3

(* The grammar's assignment does what the driver's does.                   *)
LEMMA AssignMoves ==
  ASSUME NEW s, Placed(s), NEW w
  PROVE  Moves(s, Assign(s, w))
<1> DEFINE r == NumberOf(s, w)
<1>1. IsState(s)
  BY DEF Placed
<1>2. CASE IsText(s, w)
  <2>1. Assign(s, w) = AssignedText(s, w)
    BY <1>2 DEF Assign
  <2> QED
    BY <1>1, <2>1, TextsStill, AssignmentKeepsShape, StillMoves
<1>3. CASE ~IsText(s, w)
  <2>1. Still(s, r.s) /\ IsState(r.s) /\ r = [s |-> r.s, v |-> r.v]
    BY <1>1, NumberOfStill
  <2>2. CASE r.s.fault # Null
    <3>1. Assign(s, w) = r.s
      BY <1>1, <1>3, <2>1, <2>2, AssignNumber
    <3> QED
      BY <2>2, <3>1 DEF Moves
  <2>3. CASE r.s.fault = Null
    <3>1. Assign(s, w) = DriverAssign(r.s, w.key, r.v)
      BY <1>1, <1>3, <2>1, <2>3, AssignNumber
    <3>2. Placed(r.s)
      BY <2>1, StillMoves
    <3>3. Moves(r.s, DriverAssign(r.s, w.key, r.v))
      BY <3>2, DriverAssignMoves
    <3> QED
      BY <2>1, <3>1, <3>3 DEF Still, Moves, WrittenWhenMoved
  <2> QED
    BY <2>2, <2>3
<1> QED
  BY <1>2, <1>3

(* A frame instruction stands alone in its block, where no axis is in the  *)
(* row yet.                                                                *)
LEMMA FrameMoves ==
  ASSUME NEW s, Placed(s), \A a \in Axes : s.row.cells[a] = Null, NEW w
  PROVE  Moves(s, Frame(s, w))
<1>1. IsState(s)
  BY DEF Placed
<1>2. ASSUME NEW t, IsState(t), t.axes = s.axes, t.row = s.row
      PROVE  Moves(s, t)
  BY <1>2 DEF Placed, Moves, WrittenWhenMoved
<1>3. \A f : IsState([s EXCEPT !.translation = f]) /\ [s EXCEPT !.translation = f].axes = s.axes
             /\ [s EXCEPT !.translation = f].row = s.row
  BY <1>1 DEF IsState, StateFields
<1>4. Moves(s, Translate(s, w))
  <2> DEFINE u == IF w.key = "TRANS" THEN ResetTranslations(s) ELSE s
             r == FrameAssignments(u, w.items)
  <2>1. IsState(u) /\ u.axes = s.axes /\ u.row = s.row
    BY <1>1, <1>3 DEF ResetTranslations
  <2>2. CASE r.s.fault # Null
    BY <2>2 DEF Translate, After, Moves
  <2>3. CASE r.s.fault = Null
    <3>1. IsState(r.s) /\ r.s.axes = s.axes /\ r.s.row = s.row
      BY <2>1, <2>3 DEF FrameAssignments, IsState, StateFields
    <3>2. \A f : IsState([r.s EXCEPT !.translation = f]) /\ [r.s EXCEPT !.translation = f].axes = s.axes
                 /\ [r.s EXCEPT !.translation = f].row = s.row
      BY <3>1 DEF IsState, StateFields
    <3>3. IsState(Translate(s, w)) /\ Translate(s, w).axes = s.axes /\ Translate(s, w).row = s.row
      BY <2>3, <3>2 DEF Translate, After
    <3> QED
      BY <1>2, <3>3
  <2> QED
    BY <2>2, <2>3
<1>5. Moves(s, s) /\ Moves(s, ResetTranslations(s))
  BY <1>1, <1>2, <1>3 DEF ResetTranslations
<1>6. Moves(s, Fails(s, "UnsupportedStatement"))
  BY <1>1, UpdatesStill, UpdatesKeepShape, StillMoves
<1> QED
  BY <1>4, <1>5, <1>6 DEF Frame

LEMMA StatementMoves ==
  ASSUME NEW s, Placed(s), NEW w, NEW visible, w.tag = "frame" => \A a \in Axes : s.row.cells[a] = Null
  PROVE  Moves(s, Statement(s, w, visible))
<1>1. IsState(s)
  BY DEF Placed
<1>2. CASE w.tag \in {"address", "set"}
  BY <1>2, AssignMoves DEF Statement
<1>3. CASE w.tag = "frame"
  BY <1>3, FrameMoves DEF Statement
<1>4. CASE w.tag \notin {"address", "set", "frame"}
  <2>1. Still(s, Statement(s, w, visible))
    BY <1>1, <1>4, TextsStill, CommandsStill, DefineStill, RowUpdatesStill, UpdatesStill DEF Statement
  <2> QED
    BY <1>1, <2>1, StatementKeepsShape, StillMoves
<1> QED
  BY <1>2, <1>3, <1>4

LEMMA ExecuteMoves ==
  ASSUME NEW s, Placed(s), NEW w, ClaimsWord(w)
  PROVE  Moves(s, Execute(s, w))
<1> DEFINE d == Decoded(w)
           t == Driven(s, d)
<1>1. IsState(s)
  BY DEF Placed
<1>2. d.tag \in {"assign", "dynamic", "call", "gcommand", "mcode"}
  BY DEF Decoded, ClaimsWord, Simple, Product
<1>3. Moves(s, t) /\ IsState(t)
  <2>1. CASE d.tag = "assign"
    BY <2>1, DriverAssignMoves DEF Driven
  <2>2. CASE d.tag = "dynamic"
    <3> DEFINE r == DriverRead(s, d)
               v == IF d.inc /\ Local(r.s, d.key) # Null THEN Local(r.s, d.key) + r.v ELSE r.v
    <3>1. Still(s, r.s) /\ IsState(r.s)
      <4>1. Still(s, s)
        BY DEF Still
      <4> QED
        BY <1>1, <4>1, UpdatesStill, UpdatesKeepShape DEF DriverRead
    <3>2. Placed(r.s) /\ Moves(s, r.s)
      BY <3>1, StillMoves
    <3>3. t = IF r.s.fault # Null THEN r.s ELSE DriverAssign(r.s, d.key, v)
      BY <2>2 DEF Driven, DriverAssignDynamic, After
    <3>4. Moves(r.s, DriverAssign(r.s, d.key, v)) /\ IsState(DriverAssign(r.s, d.key, v))
      BY <3>2, DriverAssignMoves
    <3>5. Moves(s, DriverAssign(r.s, d.key, v))
      BY <3>1, <3>4 DEF Still, Moves, WrittenWhenMoved
    <3> QED
      BY <3>1, <3>2, <3>3, <3>4, <3>5
  <2>3. CASE d.tag \in {"call", "gcommand", "mcode"}
    <3>1. Still(s, WithMCode(s, d.key)) /\ IsState(WithMCode(s, d.key))
      BY <1>1, CommandsStill, MCodeKeepsShape
    <3>2. \A c, v : Still(s, Put(s, c, v)) /\ IsState(Put(s, c, v))
      BY <1>1, RowUpdatesStill, RowUpdatesKeepShape
    <3>3. Still(s, t) /\ IsState(t)
      BY <2>3, <3>1, <3>2 DEF Driven
    <3> QED
      BY <3>3, StillMoves
  <2> QED
    BY <1>2, <2>1, <2>2, <2>3
<1>4. ASSUME t.fault = Null, NEW v
      PROVE  Moves(s, Put(t, "call", v))
  <2> DEFINE u == Put(t, "call", v)
  <2>1. IsState(u) /\ Still(t, u) /\ Placed(t) /\ WrittenWhenMoved(s, t)
    BY <1>3, <1>4, RowUpdatesStill, RowUpdatesKeepShape DEF Moves
  <2>2. \A a \in Axes : u.row.cells[a] = t.row.cells[a]
    <3>1. "call" \notin Axes
      BY LinesAssumption DEF Names
    <3>2. u.row.cells = [t.row.cells EXCEPT !["call"] = v] /\ DOMAIN t.row.cells = Columns /\ Axes \subseteq Columns
      BY <1>3, <2>1 DEF Put, Placed, IsState, StateFields, RowFields, Columns, Names
    <3> QED
      BY <3>1, <3>2
  <2>3. Placed(u)
    BY <2>1, StillMoves
  <2> HIDE DEF u
  <2>4. WrittenWhenMoved(s, u)
    BY <1>4, <2>1, <2>2 DEF WrittenWhenMoved, Still, MachineOf
  <2> QED
    BY <2>3, <2>4 DEF Moves, u
<1> QED
  BY <1>3, <1>4 DEF Execute

-----------------------------------------------------------------------------
(* One run.                                                                *)
Sound(r) ==
  /\ DOMAIN r = RunFields /\ r.files \in Inputs /\ r.file \in DOMAIN r.files
  /\ r.line \notin 1..Lines(r) => r.word = 0
  /\ r.status = "running" => Placed(r.state)
  /\ r.status = "running" /\ r.word = 1 /\ ~Claimed(r) => \A a \in Axes : r.state.row.cells[a] = Null

LEMMA SoundStart ==
  ASSUME NEW files \in Inputs, NEW fast
  PROVE  Sound(NewRun(files, fast))
<1>1. Placed(NewState)
  BY DEF Placed, NewState, NoRow, IsState, StateFields, RowFields
<1>2. 1 \in DOMAIN files
  BY InputsAssumption DEF IsSequence
<1> QED
  BY <1>1, <1>2 DEF Sound, NewRun, RunFields

(* The words of a line, whichever front end reads it: the number glued to  *)
(* the first one makes it another word.                                    *)
GluedWord == [NoWord EXCEPT !.tag = "bare", !.key = "N10X5"]

(* The words of a line are words of its file.                              *)
LEMMA WordIsIn ==
  ASSUME NEW files, NEW f \in DOMAIN files, NEW k \in DOMAIN files[f], NEW j \in DOMAIN files[f][k].words
  PROVE  files[f][k].words[j] \in WordsOf(files)
<1> DEFINE onLine(g, i) == Range(files[g][i].words)
           inFile(g)    == UNION {onLine(g, i) : i \in DOMAIN files[g]}
<1>1. files[f][k].words[j] \in onLine(f, k)
  BY DEF Range
<1>2. WordsOf(files) = UNION {inFile(g) : g \in DOMAIN files}
  BY DEF WordsOf
<1> HIDE DEF onLine
<1>3. files[f][k].words[j] \in inFile(f)
  BY <1>1
<1> HIDE DEF inFile
<1> QED
  BY <1>2, <1>3

LEMMA WordsAre ==
  ASSUME NEW r, Sound(r), r.line \in 1..Lines(r)
  PROVE  LET l == Source(r)
         IN  /\ l = r.files[r.file][r.line] /\ r.files \in Inputs /\ r.file \in DOMAIN r.files
             /\ r.line \in DOMAIN r.files[r.file]
             /\ IsSequence(l.words) /\ Len(l.words) \in Nat /\ DOMAIN l.words = 1..Len(l.words)
             /\ Len(Words(r)) = Len(l.words)
             /\ \A i \in 1..Len(l.words) :
                  \/ Words(r)[i] = l.words[i]
                  \/ ~Claimed(r) /\ i = 1 /\ Words(r)[i] = GluedWord
<1> DEFINE l == Source(r)
<1>1. l = r.files[r.file][r.line] /\ r.files \in Inputs /\ r.file \in DOMAIN r.files
      /\ r.line \in DOMAIN r.files[r.file]
  <2>1. IsSequence(r.files[r.file])
    BY InputsAssumption DEF Sound
  <2> QED
    BY <2>1 DEF Sound, Source, Program, Lines, IsSequence
<1>2. IsSequence(l.words) /\ (l.glued => l.words # <<>>) /\ Len(l.words) \in Nat
      /\ DOMAIN l.words = 1..Len(l.words)
  <2>1. IsSequence(l.words) /\ (l.glued => l.words # <<>>)
    BY <1>1, InputsAssumption
  <2> HIDE DEF l
  <2> QED
    BY <2>1 DEF IsSequence
<1>3. CASE Parsed(r) = l
  BY <1>1, <1>2, <1>3 DEF Words
<1>4. CASE Parsed(r) # l
  <2> DEFINE rest == Tail(l.words)
             S    == Range(l.words) \cup {GluedWord}
  <2>1. l.glued /\ Parsed(r) = AsParsed(l) /\ ~Claimed(r)
    BY <1>4 DEF Parsed, AsParsed
  <2>2. Words(r) = <<GluedWord>> \o rest
    BY <2>1 DEF Words, AsParsed, GluedWord
  <2>3. l.words \in Seq(S) /\ l.words # <<>>
    <3>1. \A X, Y, q : q \in Seq(X) => q \in Seq(X \cup Y)
      OBVIOUS
    <3> QED
      BY <1>2, <2>1, <3>1 DEF IsSequence
  <2>4. rest \in Seq(S) /\ Len(rest) = Len(l.words) - 1 /\ Len(l.words) \in Nat
        /\ \A i \in 1..Len(rest) : rest[i] = l.words[i + 1]
    <3>1. \A X, q : q \in Seq(X) /\ q # <<>> =>
            /\ Tail(q) \in Seq(X) /\ Len(Tail(q)) = Len(q) - 1 /\ Len(q) \in Nat
            /\ \A i \in 1..Len(Tail(q)) : Tail(q)[i] = q[i + 1]
      OBVIOUS
    <3> HIDE DEF S
    <3> QED
      BY <2>3, <3>1
  <2>5. Len(Words(r)) = Len(l.words)
        /\ \A i \in 1..Len(l.words) : Words(r)[i] = IF i = 1 THEN GluedWord ELSE l.words[i]
    <3>1. GluedWord \in S
      OBVIOUS
    <3> HIDE DEF S
    <3>2. Len(<<GluedWord>> \o rest) = 1 + Len(rest)
          /\ \A i \in 1..(1 + Len(rest)) : (<<GluedWord>> \o rest)[i] = IF i = 1 THEN GluedWord ELSE rest[i - 1]
      <4> HIDE DEF rest
      <4> QED
        BY <2>4, <3>1
    <3> QED
      BY <2>2, <2>4, <3>2
  <2> QED
    BY <1>1, <1>2, <2>1, <2>5
<1> QED
  BY <1>3, <1>4

LEMMA WordsOfLine ==
  ASSUME NEW r, Sound(r), r.line \in 1..Lines(r)
  PROVE  /\ Len(Words(r)) \in Nat
         /\ \A i \in 1..Len(Words(r)) : /\ Words(r)[i].tag = "frame" => i = 1
                                        /\ Claimed(r) => ClaimsWord(Words(r)[i])
<1> DEFINE l == Source(r)
<1>1. /\ l = r.files[r.file][r.line] /\ r.files \in Inputs /\ r.file \in DOMAIN r.files
      /\ r.line \in DOMAIN r.files[r.file]
      /\ Len(l.words) \in Nat /\ DOMAIN l.words = 1..Len(l.words) /\ Len(Words(r)) = Len(l.words)
      /\ \A i \in 1..Len(l.words) :
           \/ Words(r)[i] = l.words[i]
           \/ ~Claimed(r) /\ i = 1 /\ Words(r)[i] = GluedWord
  BY WordsAre
<1>2. \A i \in DOMAIN l.words : l.words[i].tag = "frame" => Len(l.words) = 1
  BY <1>1, InputsAssumption
<1>3. Claimed(r) => \A i \in DOMAIN l.words : ClaimsWord(l.words[i])
  BY DEF Claimed, ClaimsLine
<1>4. GluedWord.tag # "frame"
  BY DEF GluedWord, NoWord
<1> HIDE DEF l
<1>5. ASSUME NEW i \in 1..Len(l.words)
      PROVE  (Words(r)[i].tag = "frame" => i = 1) /\ (Claimed(r) => ClaimsWord(Words(r)[i]))
  <2>1. CASE Words(r)[i] = l.words[i]
    <3>1. i \in DOMAIN l.words
      BY <1>1
    <3>2. l.words[i].tag = "frame" => i = 1
      <4>1. l.words[i].tag = "frame" => Len(l.words) = 1
        BY <1>2, <3>1
      <4> QED
        BY <4>1
    <3> QED
      BY <1>3, <2>1, <3>1, <3>2
  <2>2. CASE ~Claimed(r) /\ i = 1 /\ Words(r)[i] = GluedWord
    BY <2>2
  <2> QED
    BY <1>1, <2>1, <2>2
<1> QED
  BY <1>1, <1>5

LEMMA StepMoves ==
  ASSUME NEW r, NEW n, Sound(r), r.status = "running", Step(r, n)
  PROVE  Sound(n) /\ WrittenWhenMoved(r.state, n.state)
<1> DEFINE s == r.state
           t == n.state
<1>1. /\ DOMAIN r = RunFields /\ r.files \in Inputs /\ r.file \in DOMAIN r.files /\ Placed(s)
      /\ r.line \notin 1..Lines(r) => r.word = 0
  BY DEF Sound
<1>2. IsState(s)
  BY <1>1 DEF Placed
<1>3. Lines(r) \in Nat
  BY <1>1, InputsAssumption DEF Lines, Program, IsSequence
<1>4. ASSUME NEW u, Still(s, u)
      PROVE  WrittenWhenMoved(s, u)
  BY <1>4 DEF Still, WrittenWhenMoved
<1>5. ASSUME n.files = r.files, n.file = r.file
      PROVE  Lines(n) = Lines(r) /\ Program(n) = Program(r)
  BY <1>5 DEF Lines, Program
<1>6. CASE BeginFile(r, n)
  <2>1. r.line = 0 /\ r.word = 0
    BY <1>1, <1>3, <1>6 DEF BeginFile
  <2>2. t = s /\ n.word = 0 /\ n.files = r.files /\ n.file = r.file /\ DOMAIN n = RunFields
    BY <1>1, <1>6, <2>1 DEF BeginFile, RunFields
  <2>3. WrittenWhenMoved(s, t)
    BY <2>2 DEF WrittenWhenMoved
  <2> QED
    BY <1>1, <2>2, <2>3 DEF Sound
<1>7. CASE StartParsed(r, n) \/ StartDecoded(r, n)
  <2> DEFINE u == StartRow(s, r.line)
  <2>1. /\ n.word = 1 /\ n.files = r.files /\ n.file = r.file /\ n.line = r.line /\ n.driven = r.driven
        /\ n.status = r.status /\ r.line \in 1..Lines(r) /\ DOMAIN n = RunFields
        /\ t \in {Numbered(u, Parsed(r).n), u, WithFlow(s, Continue)}
        /\ ~Claimed(r) => t = Numbered(u, Parsed(r).n)
    BY <1>1, <1>7 DEF StartParsed, StartDecoded, RunFields, WithFlow
  <2>2. Still(s, u) /\ IsState(u) /\ \A a \in Axes : u.row.cells[a] = Null
    BY <1>1, <1>2, RowUpdatesKeepShape
    DEF Placed, Still, StartRow, NoRow, Columns, Names, IsState, StateFields, RowFields
  <2>3. /\ Still(s, Numbered(u, Parsed(r).n)) /\ IsState(Numbered(u, Parsed(r).n))
        /\ Numbered(u, Parsed(r).n).row.cells = u.row.cells
    BY <2>2, RowUpdatesStill, NumberUnread DEF Still
  <2>4. Still(s, WithFlow(s, Continue)) /\ IsState(WithFlow(s, Continue))
    BY <1>2, UpdatesStill, UpdatesKeepShape DEF WithFlow
  <2>5. Still(s, t) /\ Placed(t)
    BY <1>1, <2>1, <2>2, <2>3, <2>4, StillMoves
  <2>6. Claimed(n) = Claimed(r) /\ Lines(n) = Lines(r)
    BY <2>1 DEF Claimed, Source, Program, Lines
  <2>7. ~Claimed(n) => \A a \in Axes : t.row.cells[a] = Null
    BY <2>1, <2>2, <2>3, <2>6
  <2> QED
    BY <1>1, <1>4, <2>1, <2>5, <2>6, <2>7 DEF Sound
<1>8. CASE ExecWord(r, n)
  <2> DEFINE w == Words(r)[r.word]
             u == Effect(r, w)
  <2>1. r.line \in 1..Lines(r) /\ r.word \in 1..Len(Words(r))
    BY <1>8 DEF ExecWord
  <2>2. /\ Len(Words(r)) \in Nat /\ (w.tag = "frame" => r.word = 1) /\ (Claimed(r) => ClaimsWord(w))
    BY <2>1, WordsOfLine
  <2>3. Moves(s, u)
    <3>1. CASE Claimed(r)
      BY <1>1, <2>2, <3>1, ExecuteMoves DEF Effect
    <3>2. CASE ~Claimed(r)
      <4>1. w.tag = "frame" => \A a \in Axes : s.row.cells[a] = Null
        BY <2>2, <3>2 DEF Sound
      <4> QED
        BY <1>1, <3>2, <4>1, StatementMoves DEF Effect
    <3> QED
      BY <3>1, <3>2
  <2> HIDE DEF u
  <2>4. /\ t = u /\ n.files = r.files /\ n.file = r.file /\ n.line = r.line /\ DOMAIN n = RunFields
        /\ n.status = "running" => u.fault = Null /\ n.word = r.word + 1
    BY <1>1, <1>8 DEF ExecWord, WordDone, RunFields, u
  <2>5. n.status = "running" => n.word # 1 /\ Placed(t)
    BY <2>1, <2>2, <2>3, <2>4 DEF Moves
  <2>6. WrittenWhenMoved(s, t)
    BY <2>3, <2>4 DEF Moves, WrittenWhenMoved
  <2> QED
    BY <1>1, <1>5, <2>1, <2>4, <2>5, <2>6 DEF Sound
<1>9. Still(s, Closed(r)) /\ IsState(Closed(r))
  <2>1. \A v : IsState(Numbered(s, v)) /\ Still(s, Numbered(s, v))
    BY <1>2, RowUpdatesStill, RowUpdatesKeepShape
  <2> QED
    BY <1>2, <2>1, RowUpdatesStill, RowUpdatesKeepShape DEF Closed, Still
<1>10. CASE EndLine(r, n)
  <2>1. t = Closed(r) /\ n.word = 0 /\ n.files = r.files /\ n.file = r.file /\ DOMAIN n = RunFields
    BY <1>1, <1>10 DEF EndLine, RunFields
  <2>2. Placed(t) /\ Still(s, t)
    BY <1>1, <1>9, <2>1, StillMoves
  <2> QED
    BY <1>1, <1>4, <2>1, <2>2 DEF Sound
<1>11. CASE TakeJump(r, n)
  <2> DEFINE u == WithFlow(Closed(r), Continue)
  <2>1. Still(s, u) /\ IsState(u)
    <3>1. \A x : IsState(x) => Still(x, WithFlow(x, Continue)) /\ IsState(WithFlow(x, Continue))
      BY DEF WithFlow, Still, IsState, StateFields
    <3> QED
      BY <1>9, <3>1 DEF Still
  <2>2. Placed(u)
    BY <1>1, <2>1, StillMoves
  <2>3. /\ t = u /\ n.files = r.files /\ n.file = r.file /\ DOMAIN n = RunFields
        /\ n.word = 0 \/ (n.status # "running" /\ n.line = r.line /\ n.word = r.word)
    BY <1>1, <1>11 DEF TakeJump, WithFlow, RunFields
  <2> HIDE DEF u
  <2> QED
    BY <1>1, <1>4, <1>5, <2>1, <2>2, <2>3 DEF Sound
<1>12. CASE EndFile(r, n)
  <2> DEFINE u == [s EXCEPT !.row = NoRow, !.flow = Continue]
  <2>1. Still(s, u) /\ IsState(u)
    BY <1>1 DEF Placed, Still, NoRow, IsState, StateFields, RowFields
  <2>2. Placed(u)
    BY <1>1, <2>1, StillMoves
  <2>3. r.word = 0
    BY <1>1, <1>3, <1>12 DEF EndFile
  <2> HIDE DEF u
  <2>4. t = u /\ n.word = 0 /\ n.files = r.files /\ n.file \in DOMAIN r.files /\ DOMAIN n = RunFields
    <3>1. DOMAIN r.files = 1..Len(r.files) /\ Len(r.files) \in Nat
      BY <1>1, InputsAssumption DEF IsSequence
    <3>2. CASE r.file < Len(r.files)
      BY <1>1, <1>12, <2>3, <3>1, <3>2 DEF EndFile, RunFields, u
    <3>3. CASE ~(r.file < Len(r.files))
      BY <1>1, <1>12, <2>3, <3>3 DEF EndFile, RunFields, u
    <3> QED
      BY <3>2, <3>3
  <2> QED
    BY <1>1, <1>4, <2>1, <2>2, <2>4 DEF Sound
<1> QED
  BY <1>6, <1>7, <1>8, <1>10, <1>11, <1>12 DEF Step

-----------------------------------------------------------------------------
(* In both front ends, on every input, an axis moves only with its machine *)
(* coordinate in the row, and the frame changes only under axes that are   *)
(* not in the row (update_axis, frame_assignments, execute_decoded).       *)
THEOREM AxesMoveInRows == Spec => AxesMoveInRow
<1> DEFINE Inv == Sound(grammar) /\ Sound(driver)
<1>1. Init => Inv
  BY SoundStart DEF Init
<1>2. \A s : WrittenWhenMoved(s, s)
  BY DEF WrittenWhenMoved
<1>3. Inv /\ [Next]_vars
        => Inv' /\ WrittenWhenMoved(grammar.state, grammar'.state) /\ WrittenWhenMoved(driver.state, driver'.state)
  <2> SUFFICES ASSUME Inv, [Next]_vars
               PROVE  /\ Inv'
                      /\ WrittenWhenMoved(grammar.state, grammar'.state)
                      /\ WrittenWhenMoved(driver.state, driver'.state)
    OBVIOUS
  <2>1. /\ grammar' = grammar \/ (grammar.status = "running" /\ Step(grammar, grammar'))
        /\ driver' = driver \/ (driver.status = "running" /\ Step(driver, driver'))
    BY DEF Next, GrammarStep, DriverStep, vars
  <2>2. Sound(grammar') /\ WrittenWhenMoved(grammar.state, grammar'.state)
    BY <1>2, <2>1, StepMoves
  <2>3. Sound(driver') /\ WrittenWhenMoved(driver.state, driver'.state)
    BY <1>2, <2>1, StepMoves
  <2> QED
    BY <2>2, <2>3
<1> HIDE DEF Inv
<1>4. Inv /\ [Next]_vars
        => [WrittenWhenMoved(grammar.state, grammar'.state) /\ WrittenWhenMoved(driver.state, driver'.state)]_vars
  BY <1>3
<1> QED
  BY <1>1, <1>3, <1>4, PTL DEF Spec, AxesMoveInRow

-----------------------------------------------------------------------------
(* A word keeps the types of the names if no name comes to be in both      *)
(* tables.                                                                 *)
Tabular(s)     == IsState(s) /\ DOMAIN s.symbols = Names /\ DOMAIN s.strings = Names
KeepsTypes(s, t) == Tabular(t) /\ TwoTyped(t) \subseteq TwoTyped(s)

LEMMA TypesKeptTwice ==
  ASSUME NEW s, NEW t, NEW u, KeepsTypes(s, t), KeepsTypes(t, u)
  PROVE  KeepsTypes(s, u)
BY DEF KeepsTypes

LEMMA SameTablesKeep ==
  ASSUME NEW s, NEW t, Tabular(s), IsState(t), t.symbols = s.symbols, t.strings = s.strings
  PROVE  KeepsTypes(s, t)
BY DEF KeepsTypes, Tabular, TwoTyped

LEMMA RowUpdatesKeepTypes ==
  ASSUME NEW s, Tabular(s), NEW c, NEW v
  PROVE  /\ KeepsTypes(s, s) /\ KeepsTypes(s, Put(s, c, v)) /\ KeepsTypes(s, Recorded(s, c, v))
         /\ KeepsTypes(s, Numbered(s, v)) /\ KeepsTypes(s, Commented(s, v)) /\ KeepsTypes(s, StartRow(s, v))
<1>1. IsState(s)
  BY DEF Tabular
<1>2. \A t : IsState(t) /\ t.symbols = s.symbols /\ t.strings = s.strings => KeepsTypes(s, t)
  BY SameTablesKeep
<1>3. \A t \in {s, Put(s, c, v), Recorded(s, c, v), Numbered(s, v), Commented(s, v), StartRow(s, v)} :
        t.symbols = s.symbols /\ t.strings = s.strings
  <2>1. \A d : Put(s, d, v).symbols = s.symbols /\ Put(s, d, v).strings = s.strings
    BY <1>1 DEF Put, IsState, StateFields
  <2>2. Recorded(s, c, v).symbols = s.symbols /\ Recorded(s, c, v).strings = s.strings
    BY <1>1 DEF Recorded, IsState, StateFields
  <2>3. Numbered(s, v).symbols = s.symbols /\ Numbered(s, v).strings = s.strings
    BY <1>1 DEF Numbered, IsState, StateFields
  <2>4. StartRow(s, v).symbols = s.symbols /\ StartRow(s, v).strings = s.strings
    BY <1>1 DEF StartRow, IsState, StateFields
  <2> QED
    BY <2>1, <2>2, <2>3, <2>4 DEF Commented
<1> QED
  BY <1>1, <1>2, <1>3, RowUpdatesKeepShape

LEMMA UpdatesKeepTypes ==
  ASSUME NEW s, Tabular(s), NEW c, NEW v
  PROVE  /\ KeepsTypes(s, Fails(s, v)) /\ KeepsTypes(s, UpdateAxis(s, c, v))
         /\ KeepsTypes(s, [s EXCEPT !.flow = v]) /\ KeepsTypes(s, [s EXCEPT !.translation = v])
<1>1. IsState(s)
  BY DEF Tabular
<1>2. \A t : IsState(t) /\ t.symbols = s.symbols /\ t.strings = s.strings => KeepsTypes(s, t)
  BY SameTablesKeep
<1> QED
  BY <1>1, <1>2, UpdatesKeepShape DEF Fails, UpdateAxis, IsState, StateFields

(* Values are only put into one table where the other has nothing.         *)
LEMMA WritesKeepTypes ==
  ASSUME NEW s, Tabular(s), NEW key, NEW v
  PROVE  /\ s.strings[key] = Null => KeepsTypes(s, [s EXCEPT !.symbols[key] = v])
         /\ s.symbols[key] = Null \/ s.strings[key] # Null => KeepsTypes(s, [s EXCEPT !.strings[key] = v])
<1>1. IsState(s) /\ DOMAIN s.symbols = Names /\ DOMAIN s.strings = Names
  BY DEF Tabular
<1>2. ASSUME s.strings[key] = Null
      PROVE  KeepsTypes(s, [s EXCEPT !.symbols[key] = v])
  <2> DEFINE t == [s EXCEPT !.symbols[key] = v]
  <2>1. IsState(t) /\ t.symbols = [s.symbols EXCEPT ![key] = v] /\ t.strings = s.strings
    BY <1>1, UpdatesKeepShape DEF IsState, StateFields
  <2> HIDE DEF t
  <2>2. TwoTyped(t) \subseteq TwoTyped(s)
    BY <1>1, <1>2, <2>1 DEF TwoTyped
  <2>3. Tabular(t)
    BY <1>1, <2>1 DEF Tabular
  <2> QED
    BY <2>2, <2>3 DEF KeepsTypes, t
<1>3. ASSUME s.symbols[key] = Null \/ s.strings[key] # Null
      PROVE  KeepsTypes(s, [s EXCEPT !.strings[key] = v])
  <2> DEFINE t == [s EXCEPT !.strings[key] = v]
  <2>1. IsState(t) /\ t.strings = [s.strings EXCEPT ![key] = v] /\ t.symbols = s.symbols
    BY <1>1, UpdatesKeepShape DEF IsState, StateFields
  <2> HIDE DEF t
  <2>2. TwoTyped(t) \subseteq TwoTyped(s)
    BY <1>1, <1>3, <2>1 DEF TwoTyped
  <2>3. Tabular(t)
    BY <1>1, <2>1 DEF Tabular
  <2> QED
    BY <2>2, <2>3 DEF KeepsTypes, t
<1> QED
  BY <1>2, <1>3

LEMMA ZerosKeepTypes ==
  ASSUME NEW s, Tabular(s), NEW names, \A v \in names : v \in Names => s.strings[v] = Null
  PROVE  KeepsTypes(s, WithZero(s, names)) /\ WithZero(s, names).strings = s.strings
<1>1. CASE names = {}
  BY <1>1, RowUpdatesKeepTypes DEF WithZero
<1>2. CASE names # {}
  <2> DEFINE t == WithZero(s, names)
  <2>1. t.symbols = [v \in Names |-> IF v \in names THEN 0 ELSE s.symbols[v]] /\ t.strings = s.strings
    BY <1>2 DEF WithZero, Tabular, IsState, StateFields
  <2>2. IsState(t)
    BY UpdatesKeepShape DEF Tabular
  <2> HIDE DEF t
  <2>3. TwoTyped(t) \subseteq TwoTyped(s)
    BY <2>1 DEF TwoTyped
  <2>4. Tabular(t)
    BY <2>1, <2>2 DEF Tabular
  <2> QED
    BY <2>1, <2>3, <2>4 DEF KeepsTypes, t
<1> QED
  BY <1>1, <1>2

(* What is read as undefined is no text: reading a text stops there.       *)
LEMMA ReadingKeepsTypes ==
  ASSUME NEW s, Tabular(s), NEW terms, DOMAIN terms \subseteq Int
  PROVE  /\ KeepsTypes(s, Reading(s, terms)) /\ Reading(s, terms).strings = s.strings
         /\ KeepsTypes(s, Evaluate(s, terms).s)
<1> DEFINE stops  == {i \in DOMAIN terms : FaultOf(s, terms[i]) # Null}
           passed == {i \in DOMAIN terms : Unreadable(s, terms[i]) = Null /\ \A j \in stops : i <= j}
           zeroed == {terms[i].name : i \in {k \in passed : /\ terms[k].read = "variable"
                                                             /\ s.symbols[terms[k].name] = Null}}
           t      == WithZero(s, zeroed)
<1>1. ASSUME NEW i \in passed, terms[i].read = "variable", s.symbols[terms[i].name] = Null
      PROVE  s.strings[terms[i].name] = Null
  <2>1. Unreadable(s, terms[i]) = Null
    OBVIOUS
  <2>2. "StringInExpression" # Null
    BY LinesAssumption DEF Faults
  <2> QED
    BY <1>1, <2>1, <2>2 DEF Unreadable
<1>2. KeepsTypes(s, t) /\ t.strings = s.strings
  <2>1. \A v \in zeroed : s.strings[v] = Null
    BY <1>1
  <2> HIDE DEF zeroed
  <2> QED
    BY <2>1, ZerosKeepTypes
<1>3. \A f : KeepsTypes(t, Fails(t, f)) /\ Fails(t, f).strings = t.strings
  <2>1. Tabular(t)
    BY <1>2 DEF KeepsTypes
  <2> HIDE DEF t
  <2> QED
    BY <2>1, UpdatesKeepTypes DEF Fails, Tabular, IsState, StateFields
<1>4. Reading(s, terms) = IF stops = {} THEN t ELSE Fails(t, FaultOf(s, terms[Min(stops)]))
  BY DEF Reading
<1>5. KeepsTypes(s, Reading(s, terms)) /\ Reading(s, terms).strings = s.strings
  <2> HIDE DEF t, stops
  <2> QED
    BY <1>2, <1>3, <1>4, TypesKeptTwice
<1> QED
  BY <1>5 DEF Evaluate

LEMMA NumberOfKeepsTypes ==
  ASSUME NEW s, Tabular(s), NEW w, DOMAIN w.terms \subseteq Int
  PROVE  KeepsTypes(s, NumberOf(s, w).s)
<1>1. KeepsTypes(s, Evaluate(s, w.terms).s)
  BY ReadingKeepsTypes
<1>2. Evaluate(s, w.terms) = [s |-> Evaluate(s, w.terms).s, v |-> Evaluate(s, w.terms).v]
  BY DEF Evaluate
<1>3. KeepsTypes(s, s)
  BY RowUpdatesKeepTypes
<1> QED
  BY <1>1, <1>2, <1>3 DEF NumberOf

LEMMA TextOfKeepsTypes ==
  ASSUME NEW s, Tabular(s), NEW texts, DOMAIN texts \subseteq Int
  PROVE  KeepsTypes(s, TextOf(s, texts).s) /\ TextOf(s, texts).s.strings = s.strings
BY ReadingKeepsTypes DEF TextOf

(* interpret_assignment looks for the name in the other table first.       *)
LEMMA StoringKeepsTypes ==
  ASSUME NEW s, Tabular(s), NEW key, NEW v
  PROVE  /\ KeepsTypes(s, StoredText(s, key, v)) /\ KeepsTypes(s, StoredNumber(s, key, v))
         /\ KeepsTypes(s, Emitted(s, key, v))
<1>1. KeepsTypes(s, StoredText(s, key, v))
  BY UpdatesKeepTypes, WritesKeepTypes DEF StoredText
<1>2. KeepsTypes(s, StoredNumber(s, key, v))
  BY UpdatesKeepTypes, RowUpdatesKeepTypes, WritesKeepTypes DEF StoredNumber
<1>3. KeepsTypes(s, Emitted(s, key, v))
  BY RowUpdatesKeepTypes DEF Emitted
<1> QED
  BY <1>1, <1>2, <1>3

LEMMA AssignmentKeepsTypes ==
  ASSUME NEW s, Tabular(s), NEW w, DOMAIN w.terms \subseteq Int, DOMAIN w.texts \subseteq Int
  PROVE  KeepsTypes(s, Assignment(s, w).s) /\ KeepsTypes(s, Assign(s, w))
<1> DEFINE r == NumberOf(s, w)
           q == Stored(r, w.key)
           t == TextOf(s, w.texts)
<1>1. KeepsTypes(s, r.s) /\ KeepsTypes(s, t.s) /\ Tabular(r.s) /\ Tabular(t.s)
  BY NumberOfKeepsTypes, TextOfKeepsTypes DEF KeepsTypes
<1>2. KeepsTypes(s, AssignedText(s, w))
  <2>1. KeepsTypes(s, StoredText(t.s, w.key, t.v))
    BY <1>1, StoringKeepsTypes, TypesKeptTwice
  <2>2. KeepsTypes(s, StoredText(s, w.key, s.strings[w.terms[1].name])) /\ KeepsTypes(s, s)
    BY StoringKeepsTypes, RowUpdatesKeepTypes
  <2> QED
    BY <1>1, <2>1, <2>2 DEF AssignedText, After
<1>3. KeepsTypes(s, q.s)
  <2>1. KeepsTypes(s, StoredNumber(r.s, w.key, r.v))
    BY <1>1, StoringKeepsTypes, TypesKeptTwice
  <2> HIDE DEF r
  <2> QED
    BY <1>1, <2>1 DEF Stored
<1>4. KeepsTypes(s, After(q, LAMBDA u, v : Emitted(u, w.key, v)))
  <2>1. KeepsTypes(s, Emitted(q.s, w.key, q.v))
    <3>1. Tabular(q.s)
      BY <1>3 DEF KeepsTypes
    <3> HIDE DEF q
    <3> QED
      BY <1>3, <3>1, StoringKeepsTypes, TypesKeptTwice
  <2> HIDE DEF q
  <2> QED
    BY <1>3, <2>1 DEF After
<1> QED
  BY <1>2, <1>3, <1>4 DEF Assignment, Assign

LEMMA CharWriteKeepsTypes ==
  ASSUME NEW s, Tabular(s), NEW w, DOMAIN w.texts \subseteq Int
  PROVE  KeepsTypes(s, CharWrite(s, w))
<1> DEFINE t   == TextOf(s, w.texts).s
           v   == TextOf(s, w.texts).v
           new == [t.strings[w.key] EXCEPT ![w.num + 1] = v[1]]
           u   == [t EXCEPT !.strings[w.key] = new]
<1>1. KeepsTypes(s, t) /\ t.strings = s.strings
  BY TextOfKeepsTypes
<1>2. Tabular(t) /\ IsState(t)
  BY <1>1 DEF KeepsTypes, Tabular
<1>3. [t EXCEPT !.strings[w.key][w.num + 1] = v[1]] = u
  <2> HIDE DEF t, v
  <2> QED
    BY <1>2 DEF IsState, StateFields, Tabular
<1>4. s.strings[w.key] # Null => KeepsTypes(s, u)
  <2> HIDE DEF t, new
  <2>1. s.strings[w.key] # Null => KeepsTypes(t, u)
    BY <1>1, <1>2, WritesKeepTypes
  <2> QED
    BY <1>1, <2>1, TypesKeptTwice
<1>5. KeepsTypes(s, Fails(t, "CharWrite")) /\ KeepsTypes(s, Fails(t, "IndexOutOfRange"))
  <2> HIDE DEF t
  <2> QED
    BY <1>1, <1>2, UpdatesKeepTypes, TypesKeptTwice
<1>6. CharWrite(s, w) = IF t.fault # Null THEN t
                        ELSE CASE s.strings[w.key] = Null \/ Len(v) # 1 -> Fails(t, "CharWrite")
                               [] s.strings[w.key] # Null /\ Len(v) = 1 /\ w.num >= Len(s.strings[w.key]) ->
                                    Fails(t, "IndexOutOfRange")
                               [] OTHER -> u
  BY <1>3 DEF CharWrite, After
<1> HIDE DEF t, v, u
<1> QED
  BY <1>1, <1>4, <1>5, <1>6

(* The assignments of a frame instruction, one after another.              *)
FrameNext(r, w) == IF r.s.fault # Null THEN r ELSE Offset(Assignment(r.s, w), w.key, r.v)

FrameWalk(c, s, items) ==
  \A i \in 0..Len(items) : c[i] = IF i = 0 THEN [s |-> s, v |-> <<>>] ELSE FrameNext(c[i - 1], items[i])

LEMMA FrameWalks ==
  ASSUME NEW s, NEW items, Len(items) \in Nat
  PROVE  \E c : FrameWalk(c, s, items) /\ FrameValues(s, items) = c[Len(items)]
<1> DEFINE n == Len(items)
           base == [s |-> s, v |-> <<>>]
           Walk(f, m) == f = [i \in 0..m |-> IF i = 0 THEN base ELSE FrameNext(f[i - 1], items[i])]
           M == {m \in Nat : \E f : Walk(f, m)}
           c == CHOOSE f : Walk(f, n)
<1>1. 0 \in M
  <2> DEFINE f == [i \in 0..0 |-> base]
  <2> HIDE DEF base
  <2>1. f = [i \in 0..0 |-> IF i = 0 THEN base ELSE FrameNext(f[i - 1], items[i])]
    OBVIOUS
  <2> QED
    BY <2>1
<1>2. ASSUME NEW m \in Nat, m \in M PROVE m + 1 \in M
  <2>1. PICK f : Walk(f, m)
    BY <1>2
  <2> HIDE DEF base
  <2>2. \A i \in 0..m : f[i] = IF i = 0 THEN base ELSE FrameNext(f[i - 1], items[i])
    BY <2>1
  <2> DEFINE g == [i \in 0..m + 1 |-> IF i = m + 1 THEN FrameNext(f[m], items[m + 1]) ELSE f[i]]
  <2>3. ASSUME NEW i \in 0..m + 1 PROVE g[i] = IF i = 0 THEN base ELSE FrameNext(g[i - 1], items[i])
    <3>1. CASE i = m + 1
      <4>1. g[i] = FrameNext(f[m], items[m + 1]) /\ g[i - 1] = f[m] /\ i # 0
        BY <3>1
      <4> QED
        BY <3>1, <4>1
    <3>2. CASE i # m + 1
      <4>1. i \in 0..m /\ g[i] = f[i] /\ (i # 0 => i - 1 \in 0..m /\ g[i - 1] = f[i - 1])
        BY <3>2
      <4> QED
        BY <2>2, <4>1
    <3> QED
      BY <3>1, <3>2
  <2>4. g = [i \in 0..m + 1 |-> g[i]]
    OBVIOUS
  <2> HIDE DEF g
  <2>5. Walk(g, m + 1)
    BY <2>3, <2>4
  <2> HIDE DEF Walk
  <2> QED
    BY <2>5
<1>3. n \in M
  <2> HIDE DEF M
  <2> QED
    BY <1>1, <1>2, SetInduction
<1>4. Walk(c, n)
  <2> HIDE DEF Walk
  <2> QED
    BY <1>3
<1>5. FrameValues(s, items) = c[n]
  BY DEF FrameValues, FrameNext
<1> HIDE DEF c, M
<1>6. FrameWalk(c, s, items)
  <2> SUFFICES ASSUME NEW i \in 0..n PROVE c[i] = IF i = 0 THEN base ELSE FrameNext(c[i - 1], items[i])
    BY DEF FrameWalk
  <2> HIDE DEF base
  <2> QED
    BY <1>4
<1> HIDE DEF Walk
<1> QED
  BY <1>5, <1>6

LEMMA AssignmentIs ==
  ASSUME NEW s, NEW w
  PROVE  Assignment(s, w) = [s |-> Assignment(s, w).s, v |-> Assignment(s, w).v]
<1> DEFINE a == Assignment(s, w)
           q == NumberOf(s, w)
<1>1. \A r, key : r = [s |-> r.s, v |-> r.v] => Stored(r, key) = [s |-> Stored(r, key).s, v |-> Stored(r, key).v]
  BY DEF Stored
<1>2. q = [s |-> q.s, v |-> q.v]
  BY DEF NumberOf, Evaluate
<1> HIDE DEF q
<1>3. a \in {Stored(q, w.key), [s |-> AssignedText(s, w), v |-> Null]}
  BY DEF Assignment, q
<1>4. Stored(q, w.key) = [s |-> Stored(q, w.key).s, v |-> Stored(q, w.key).v]
  BY <1>1, <1>2
<1> HIDE DEF a
<1>5. a = [s |-> a.s, v |-> a.v]
  BY <1>3, <1>4
<1> QED
  BY <1>5 DEF a

LEMMA OffsetIs ==
  ASSUME NEW a, a = [s |-> a.s, v |-> a.v], NEW key, NEW offsets
  PROVE  LET o == Offset(a, key, offsets)
         IN  \/ a.s.fault # Null /\ o = a
             \/ a.s.fault = Null /\ o.s = Fails(a.s, "TextInFrame")
             \/ a.s.fault = Null /\ o.s = Fails(a.s, "UnexpectedAxis")
             \/ /\ a.s.fault = Null /\ a.v # Null /\ key \in Axes
                /\ o.s = a.s /\ o.v = Append(offsets, <<key, a.v>>)
<1>1. \A f, z : /\ [a EXCEPT !.s = Fails(@, f)].s = Fails(a.s, f)
               /\ [a EXCEPT !.v = z].s = a.s /\ [a EXCEPT !.v = z].v = z
  OBVIOUS
<1> DEFINE z == Append(offsets, <<key, a.v>>)
<1>2. Offset(a, key, offsets) =
        CASE a.s.fault # Null -> a
          [] a.s.fault = Null /\ a.v = Null  -> [a EXCEPT !.s = Fails(@, "TextInFrame")]
          [] a.s.fault = Null /\ a.v # Null /\ key \notin Axes -> [a EXCEPT !.s = Fails(@, "UnexpectedAxis")]
          [] OTHER -> [a EXCEPT !.v = z]
  BY DEF Offset
<1>3. CASE a.s.fault # Null
  BY <1>2, <1>3
<1>4. CASE a.s.fault = Null /\ a.v = Null
  BY <1>1, <1>2, <1>4
<1>5. CASE a.s.fault = Null /\ a.v # Null /\ key \notin Axes
  BY <1>1, <1>2, <1>5
<1>6. CASE a.s.fault = Null /\ a.v # Null /\ key \in Axes
  <2>1. Offset(a, key, offsets) = [a EXCEPT !.v = z]
    <3> HIDE DEF z
    <3> QED
      BY <1>2, <1>6
  <2> QED
    BY <1>1, <1>6, <2>1
<1> QED
  BY <1>3, <1>4, <1>5, <1>6

LEMMA FrameValuesKeepTypes ==
  ASSUME NEW s, Tabular(s), NEW items, Len(items) \in Nat,
         \A i \in 1..Len(items) : DOMAIN items[i].terms \subseteq Int /\ DOMAIN items[i].texts \subseteq Int
  PROVE  KeepsTypes(s, FrameValues(s, items).s)
<1> DEFINE n == Len(items)
<1>1. PICK c : FrameWalk(c, s, items) /\ FrameValues(s, items) = c[n]
  BY FrameWalks
<1>2. \A i \in 0..n : c[i] = IF i = 0 THEN [s |-> s, v |-> <<>>] ELSE FrameNext(c[i - 1], items[i])
  BY <1>1 DEF FrameWalk
<1> DEFINE K == {k \in Nat : k <= n => KeepsTypes(s, c[k].s)}
<1>3. 0 \in K
  <2>1. KeepsTypes(s, s) /\ c[0].s = s
    BY <1>2, RowUpdatesKeepTypes
  <2> QED
    BY <2>1
<1>4. ASSUME NEW k \in Nat, k \in K PROVE k + 1 \in K
  <2> SUFFICES ASSUME k + 1 <= n PROVE KeepsTypes(s, c[k + 1].s)
    OBVIOUS
  <2> DEFINE r == c[k]
             w == items[k + 1]
             a == Assignment(r.s, w)
  <2>1. k + 1 \in 0..n /\ k + 1 # 0 /\ (k + 1) - 1 = k /\ k + 1 \in 1..n /\ k <= n
    OBVIOUS
  <2>2. c[k + 1] = IF r.s.fault # Null THEN r ELSE Offset(a, w.key, r.v)
    <3>1. c[k + 1] = FrameNext(r, w)
      BY <1>2, <2>1
    <3> QED
      BY <3>1 DEF FrameNext
  <2>3. KeepsTypes(s, r.s) /\ Tabular(r.s)
    BY <1>4, <2>1 DEF KeepsTypes
  <2>4. KeepsTypes(s, a.s)
    <3>1. DOMAIN w.terms \subseteq Int /\ DOMAIN w.texts \subseteq Int
      BY <2>1
    <3> HIDE DEF r, w
    <3> QED
      BY <2>3, <3>1, AssignmentKeepsTypes, TypesKeptTwice
  <2>5. \A f : KeepsTypes(s, Fails(a.s, f))
    <3>1. Tabular(a.s)
      BY <2>4 DEF KeepsTypes
    <3> HIDE DEF a
    <3> QED
      BY <2>4, <3>1, UpdatesKeepTypes, TypesKeptTwice
  <2>6. KeepsTypes(s, Offset(a, w.key, r.v).s)
    <3>1. a = [s |-> a.s, v |-> a.v]
      BY AssignmentIs
    <3> HIDE DEF a, r, w
    <3> QED
      BY <2>4, <2>5, <3>1, OffsetIs
  <2> HIDE DEF r, w, a
  <2> QED
    BY <2>2, <2>3, <2>6
<1>5. n \in K
  <2> HIDE DEF K
  <2> QED
    BY <1>3, <1>4, SetInduction
<1> QED
  BY <1>1, <1>5

LEMMA FrameKeepsTypes ==
  ASSUME NEW s, Tabular(s), NEW w, Len(w.items) \in Nat,
         \A i \in 1..Len(w.items) : DOMAIN w.items[i].terms \subseteq Int /\ DOMAIN w.items[i].texts \subseteq Int
  PROVE  KeepsTypes(s, Frame(s, w))
<1> DEFINE u == ResetTranslations(s)
           q == IF w.key = "TRANS" THEN u ELSE s
           r == FrameAssignments(q, w.items)
<1>1. KeepsTypes(s, u) /\ KeepsTypes(s, s)
  BY UpdatesKeepTypes, RowUpdatesKeepTypes DEF ResetTranslations
<1>2. KeepsTypes(s, q) /\ Tabular(q) /\ IsState(q)
  BY <1>1 DEF KeepsTypes, Tabular
<1>3. KeepsTypes(s, r.s)
  <2> DEFINE x == FrameValues(q, w.items)
             t == x.s
  <2>1. KeepsTypes(q, t)
    <3> HIDE DEF q
    <3> QED
      BY <1>2, FrameValuesKeepTypes
  <2>2. IsState(r.s) /\ r.s.symbols = t.symbols /\ r.s.strings = t.strings
    <3> HIDE DEF q
    <3> QED
      BY <1>2 DEF FrameAssignments, IsState, StateFields
  <2> HIDE DEF q, t, r
  <2>3. KeepsTypes(t, r.s)
    BY <2>1, <2>2, SameTablesKeep DEF KeepsTypes
  <2> QED
    BY <1>2, <2>1, <2>3, TypesKeptTwice
<1>4. KeepsTypes(s, Translate(s, w))
  <2>1. \A f : KeepsTypes(s, [r.s EXCEPT !.translation = f])
    <3>1. Tabular(r.s)
      BY <1>3 DEF KeepsTypes
    <3> HIDE DEF r
    <3> QED
      BY <1>3, <3>1, UpdatesKeepTypes, TypesKeptTwice
  <2>2. \E f : Translate(s, w) \in {r.s, [r.s EXCEPT !.translation = f]}
    BY DEF Translate, After
  <2> HIDE DEF r
  <2> QED
    BY <1>3, <2>1, <2>2
<1> QED
  BY <1>1, <1>4, UpdatesKeepTypes DEF Frame


(* A definition keeps the tables, whatever becomes of the types.           *)
LEMMA DefineKeepsTables ==
  ASSUME NEW s, Tabular(s), NEW w, DOMAIN w.items[1].terms \subseteq Int, DOMAIN w.items[1].texts \subseteq Int
  PROVE  Tabular(Define(s, w))
<1> DEFINE item == w.items[1]
<1>1. ASSUME NEW t, Tabular(t), NEW keys, NEW values
      PROVE  Tabular(SetAll(t, keys, values))
  BY <1>1 DEF SetAll, Tabular, IsState, StateFields, RowFields
<1>2. ASSUME NEW t, Tabular(t), NEW v
      PROVE  Tabular(Fails(t, v)) /\ Tabular(Recorded(t, item.key, v))
  BY <1>2, UpdatesKeepTypes, RowUpdatesKeepTypes DEF KeepsTypes
<1>3. Tabular(DefineMulti(s, item))
  <2> DEFINE t == ValueArray(s, item.items).s
  <2>1. Tabular(t)
    <3>1. \A names : Tabular(WithZero(s, names))
      BY UpdatesKeepShape DEF WithZero, Tabular, IsState, StateFields
    <3>2. \A names, v : Tabular(Fails(WithZero(s, names), v))
      BY <1>2, <3>1
    <3> QED
      BY <3>1, <3>2 DEF ValueArray, Reading
  <2> HIDE DEF t
  <2> QED
    BY <1>1, <1>2, <2>1 DEF DefineMulti, After, t
<1>4. Tabular(DefineInitialised(s, w.kw, item))
  <2> DEFINE a == Assignment(s, item).s
  <2>1. Tabular(a)
    BY AssignmentKeepsTypes DEF KeepsTypes
  <2> HIDE DEF a
  <2> QED
    BY <1>2, <2>1 DEF DefineInitialised, After, a
<1>5. /\ Tabular([s EXCEPT !.symbols[item.key] = 0]) /\ Tabular([s EXCEPT !.strings[item.key] = <<>>])
  BY DEF Tabular, IsState, StateFields
<1>6. Tabular(Recorded([s EXCEPT !.symbols[item.key] = 0], item.key, 0))
  BY <1>2, <1>5
<1>7. Tabular(DefineItem(s, w.kw, item))
  BY <1>1, <1>2, <1>3, <1>4, <1>5, <1>6 DEF DefineItem
<1> QED
  BY <1>7 DEF Define

(* Every statement but a definition keeps the types.                       *)
WellRead(w) ==
  /\ Len(w.items) \in Nat /\ (w.tag = "define" => Len(w.items) = 1)
  /\ DOMAIN w.terms \subseteq Int /\ DOMAIN w.texts \subseteq Int
  /\ \A i \in 1..Len(w.items) : DOMAIN w.items[i].terms \subseteq Int /\ DOMAIN w.items[i].texts \subseteq Int

LEMMA CommandsKeepTypes ==
  ASSUME NEW s, Tabular(s), NEW key, NEW v
  PROVE  KeepsTypes(s, WithMCode(s, key)) /\ KeepsTypes(s, GCommand(s, key)) /\ KeepsTypes(s, BareWord(s, key))
<1>1. KeepsTypes(s, InsertM(s, key)) /\ Tabular(InsertM(s, key))
  <2>1. /\ \A c, x : KeepsTypes(s, Put(s, c, x))
        /\ \A x : KeepsTypes(s, Fails(s, x))
    BY RowUpdatesKeepTypes, UpdatesKeepTypes
  <2>2. KeepsTypes(s, InsertM(s, key))
    BY <2>1 DEF InsertM
  <2> QED
    BY <2>2 DEF KeepsTypes
<1>2. \A f : KeepsTypes(s, [InsertM(s, key) EXCEPT !.flow = f])
  <2> DEFINE t == InsertM(s, key)
  <2> HIDE DEF t
  <2>1. KeepsTypes(s, t) /\ Tabular(t)
    BY <1>1 DEF t
  <2>2. \A f : KeepsTypes(s, [t EXCEPT !.flow = f])
    BY <2>1, UpdatesKeepTypes, TypesKeptTwice
  <2> QED
    BY <2>2 DEF t
<1>3. KeepsTypes(s, WithMCode(s, key))
  BY <1>1, <1>2 DEF WithMCode
<1> QED
  BY <1>3, RowUpdatesKeepTypes, UpdatesKeepTypes DEF GCommand, BareWord

LEMMA JumpKeepsTypes ==
  ASSUME NEW s, Tabular(s), NEW w, DOMAIN w.terms \subseteq Int, NEW visible
  PROVE  KeepsTypes(s, Jump(s, w, visible))
<1> DEFINE t == Evaluate(s, w.terms).s
<1>1. KeepsTypes(s, t) /\ Tabular(t) /\ KeepsTypes(s, s)
  BY ReadingKeepsTypes, RowUpdatesKeepTypes DEF KeepsTypes
<1>2. \E f : Jump(s, w, visible) \in {s, t, [t EXCEPT !.flow = f]}
  BY DEF Jump, After
<1> HIDE DEF t
<1>3. \A f : KeepsTypes(s, [t EXCEPT !.flow = f])
  BY <1>1, UpdatesKeepTypes, TypesKeptTwice
<1> QED
  BY <1>1, <1>2, <1>3

LEMMA StatementKeepsTypes ==
  ASSUME NEW s, Tabular(s), NEW w, WellRead(w), NEW visible
  PROVE  /\ Tabular(Statement(s, w, visible))
         /\ w.tag # "define" => KeepsTypes(s, Statement(s, w, visible))
<1> DEFINE t == Statement(s, w, visible)
<1>1. DOMAIN w.terms \subseteq Int /\ DOMAIN w.texts \subseteq Int /\ Len(w.items) \in Nat
  BY DEF WellRead
<1>2. CASE w.tag \in {"address", "set"}
  BY <1>1, <1>2, AssignmentKeepsTypes DEF Statement, KeepsTypes
<1>3. CASE w.tag = "char"
  BY <1>1, <1>3, CharWriteKeepsTypes DEF Statement, KeepsTypes
<1>4. CASE w.tag \in {"g", "m", "bare"}
  BY <1>4, CommandsKeepTypes DEF Statement, KeepsTypes
<1>5. CASE w.tag \in {"args", "tool", "multi"}
  <2>1. t \in {Put(s, "call", w.key), Put(s, "T", w.texts[1].literal), Fails(s, "UnexpectedRule")}
    BY <1>5 DEF Statement
  <2>2. /\ \A c, v : KeepsTypes(s, Put(s, c, v))
        /\ \A v : KeepsTypes(s, Fails(s, v))
    BY RowUpdatesKeepTypes, UpdatesKeepTypes
  <2> HIDE DEF t
  <2>3. KeepsTypes(s, t)
    BY <2>1, <2>2
  <2> QED
    BY <2>3 DEF KeepsTypes, t
<1>6. CASE w.tag = "define"
  <2>1. t = Define(s, w)
    BY <1>6 DEF Statement
  <2>2. DOMAIN w.items[1].terms \subseteq Int /\ DOMAIN w.items[1].texts \subseteq Int
    BY <1>6 DEF WellRead
  <2> QED
    BY <1>6, <2>1, <2>2, DefineKeepsTables
<1>7. CASE w.tag = "frame"
  <2>1. t = Frame(s, w)
    BY <1>7 DEF Statement
  <2>2. KeepsTypes(s, Frame(s, w))
    BY <1>1, FrameKeepsTypes DEF WellRead
  <2> QED
    BY <2>1, <2>2 DEF KeepsTypes
<1>8. CASE /\ w.tag \notin {"address", "set"} /\ w.tag # "char" /\ w.tag \notin {"g", "m", "bare"}
           /\ w.tag \notin {"args", "tool", "multi"} /\ w.tag # "define" /\ w.tag # "frame"
  <2>1. t = Jump(s, w, visible)
    BY <1>8 DEF Statement
  <2> QED
    BY <1>1, <2>1, JumpKeepsTypes DEF KeepsTypes
<1> QED
  BY <1>2, <1>3, <1>4, <1>5, <1>6, <1>7, <1>8

(* The driver does, if it reads the word as the grammar does: it takes the *)
(* name in a product for a number.                                         *)
LEMMA DriverAssignKeepsTypes ==
  ASSUME NEW s, Tabular(s), NEW key, NEW v
  PROVE  KeepsTypes(s, DriverAssign(s, key, v))
<1>1. CASE key \in Axes
  <2>1. KeepsTypes(s, UpdateAxis(s, key, v))
    BY UpdatesKeepTypes
  <2>2. \A x : KeepsTypes(s, Put(UpdateAxis(s, key, v), key, x))
    BY <2>1, RowUpdatesKeepTypes, TypesKeptTwice DEF KeepsTypes
  <2> QED
    BY <1>1, <2>2, LinesAssumption DEF DriverAssign
<1>2. CASE key \notin Axes
  <2> DEFINE t == Recorded(s, key, v)
  <2>1. KeepsTypes(s, t) /\ Tabular(t) /\ t.strings = s.strings
    BY RowUpdatesKeepTypes DEF KeepsTypes, Recorded, Tabular, IsState, StateFields
  <2> HIDE DEF t
  <2>2. s.strings[key] = Null => KeepsTypes(s, [t EXCEPT !.symbols[key] = v])
    BY <2>1, WritesKeepTypes, TypesKeptTwice
  <2>3. KeepsTypes(s, Put(s, key, v)) /\ KeepsTypes(s, Fails(s, "StringVariable"))
    BY RowUpdatesKeepTypes, UpdatesKeepTypes
  <2> QED
    BY <1>2, <2>2, <2>3 DEF DriverAssign, t
<1> QED
  BY <1>1, <1>2

LEMMA ExecuteKeepsTypes ==
  ASSUME NEW s, Tabular(s), NEW w, ClaimsWord(w), IsSequence(w.terms)
  PROVE  /\ Tabular(Execute(s, w))
         /\ ReadsAlike(s, w) => KeepsTypes(s, Execute(s, w))
<1> DEFINE d == Decoded(w)
           r == DriverRead(s, d)
           t == Driven(s, d)
           u == Execute(s, w)
<1>1. d.tag \in {"assign", "dynamic", "call", "gcommand", "mcode"}
  BY DEF Decoded, ClaimsWord, Simple, Product
<1>2. Tabular(r.s) /\ (d.tag = "dynamic" /\ ReadsAlike(s, w) => KeepsTypes(s, r.s))
  <2>1. KeepsTypes(s, s) /\ \A v : KeepsTypes(s, Fails(s, v))
    BY RowUpdatesKeepTypes, UpdatesKeepTypes
  <2>2. Tabular(WithZero(s, {d.name}))
    BY UpdatesKeepShape DEF WithZero, Tabular, IsState, StateFields
  <2>3. s.strings[d.name] = Null => KeepsTypes(s, WithZero(s, {d.name}))
    <3> HIDE DEF d
    <3> QED
      BY ZerosKeepTypes
  <2>4. ASSUME d.tag = "dynamic", ReadsAlike(s, w), d.name # Null
        PROVE  s.strings[d.name] = Null
    <3>1. w.tag = "set" /\ w.terms[1].paren
      BY <2>4, <1>1 DEF Decoded, ClaimsWord, Simple
    <3>2. d = Product(w)
      BY <3>1 DEF Decoded
    <3>3. w.terms[1].read # "number" /\ d.name = w.terms[1].name
      BY <2>4, <3>2 DEF Product
    <3>4. w.terms # <<>> /\ w.terms[1].read = "variable"
      BY <3>1, <3>3 DEF ClaimsWord, ClaimsSet, IsProduct
    <3>5. 1 \in DOMAIN w.terms
      BY <3>4 DEF IsSequence
    <3> QED
      BY <2>4, <3>1, <3>3, <3>4, <3>5 DEF ReadsAlike, IsConstant
  <2>5. r.s \in {s, WithZero(s, {d.name}), Fails(s, "UndefinedVariable")}
    BY DEF DriverRead
  <2>6. d.name = Null => r.s = s
    BY DEF DriverRead
  <2> HIDE DEF r, d
  <2> QED
    BY <2>1, <2>2, <2>3, <2>4, <2>5, <2>6 DEF KeepsTypes
<1>3. Tabular(t) /\ (ReadsAlike(s, w) => KeepsTypes(s, t))
  <2>1. CASE d.tag = "assign"
    BY <2>1, DriverAssignKeepsTypes DEF Driven, KeepsTypes
  <2>2. CASE d.tag = "dynamic"
    <3> DEFINE v == IF d.inc /\ Local(r.s, d.key) # Null THEN Local(r.s, d.key) + r.v ELSE r.v
    <3>1. t = IF r.s.fault # Null THEN r.s ELSE DriverAssign(r.s, d.key, v)
      BY <2>2 DEF Driven, DriverAssignDynamic, After
    <3> HIDE DEF t, r, d, v
    <3>2. KeepsTypes(r.s, DriverAssign(r.s, d.key, v))
      BY <1>2, DriverAssignKeepsTypes
    <3> QED
      BY <1>2, <2>2, <3>1, <3>2, TypesKeptTwice DEF KeepsTypes
  <2>3. CASE d.tag \in {"call", "gcommand", "mcode"}
    BY <2>3, CommandsKeepTypes, RowUpdatesKeepTypes DEF Driven, KeepsTypes
  <2> QED
    BY <1>1, <2>1, <2>2, <2>3
<1>4. u = t \/ u = Put(t, "call", CallBehind(w))
  BY DEF Execute
<1> HIDE DEF t, u
<1>5. KeepsTypes(t, Put(t, "call", CallBehind(w)))
  BY <1>3, RowUpdatesKeepTypes
<1>6. Tabular(u) /\ (ReadsAlike(s, w) => KeepsTypes(s, u))
  BY <1>3, <1>4, <1>5, TypesKeptTwice DEF KeepsTypes
<1> QED
  BY <1>6 DEF u

-----------------------------------------------------------------------------
LEMMA WordsWellRead ==
  ASSUME NEW r, Sound(r), r.line \in 1..Lines(r), NEW i \in 1..Len(Words(r))
  PROVE  WellRead(Words(r)[i]) /\ IsSequence(Words(r)[i].terms)
<1> DEFINE l == Source(r)
<1>1. /\ l = r.files[r.file][r.line] /\ r.files \in Inputs /\ r.file \in DOMAIN r.files
      /\ r.line \in DOMAIN r.files[r.file]
      /\ DOMAIN l.words = 1..Len(l.words) /\ Len(Words(r)) = Len(l.words)
      /\ Words(r)[i] = l.words[i] \/ Words(r)[i] = GluedWord
  BY WordsAre
<1>2. \A q : IsSequence(q) => DOMAIN q \subseteq Int /\ Len(q) \in Nat /\ DOMAIN q = 1..Len(q)
  BY DEF IsSequence
<1>3. ASSUME NEW j \in DOMAIN l.words
      PROVE  WellRead(l.words[j]) /\ IsSequence(l.words[j].terms)
  <2> DEFINE w == l.words[j]
  <2>1. w \in WordsOf(r.files)
    BY <1>1, WordIsIn
  <2>2. /\ w.tag \in Tags /\ IsSequence(w.items) /\ (w.tag = "define" => Len(w.items) = 1)
        /\ \A v \in {w} \cup Range(w.items) : IsSequence(v.terms) /\ IsSequence(v.texts)
    BY <1>1, <2>1, InputsAssumption
  <2> HIDE DEF w
  <2>3. \A k \in DOMAIN w.items : w.items[k] \in Range(w.items)
    BY DEF Range
  <2> QED
    BY <1>2, <2>2, <2>3 DEF WellRead, w
<1>4. WellRead(GluedWord) /\ IsSequence(GluedWord.terms)
  BY DEF GluedWord, NoWord, WellRead, IsSequence, Range
<1> HIDE DEF l
<1> QED
  BY <1>1, <1>3, <1>4

(* A step of a run keeps the types, unless it executes a definition or the *)
(* driver reads a word otherwise than the grammar.                         *)
LEMMA StepKeepsTypes ==
  ASSUME NEW r, NEW n, Sound(r), Tabular(r.state), r.status = "running", Step(r, n)
  PROVE  Tabular(n.state) /\ (KeepsTypes(r.state, n.state) \/ Defines(r) \/ (r.driven /\ Departs(r)))
<1> DEFINE s == r.state
           t == n.state
<1>1. IsState(s) /\ DOMAIN r = RunFields
  BY DEF Tabular, Sound
<1>2. CASE ExecWord(r, n)
  <2> DEFINE w == Words(r)[r.word]
             u == Effect(r, w)
  <2>1. r.line \in 1..Lines(r) /\ r.word \in 1..Len(Words(r)) /\ t = u
    BY <1>1, <1>2 DEF ExecWord, WordDone, RunFields
  <2>2. WellRead(w) /\ IsSequence(w.terms) /\ (Claimed(r) => ClaimsWord(w))
    BY <2>1, WordsWellRead, WordsOfLine
  <2>3. CASE Claimed(r)
    <3>1. ReadsAlike(s, w) \/ (r.driven /\ Departs(r))
      BY <2>1, <2>3 DEF Departs, Claimed
    <3> QED
      BY <2>1, <2>2, <2>3, <3>1, ExecuteKeepsTypes DEF Effect
  <2>4. CASE ~Claimed(r)
    BY <2>1, <2>2, <2>4, StatementKeepsTypes DEF Effect, Defines
  <2> QED
    BY <2>3, <2>4
<1>3. CASE ~ExecWord(r, n)
  <2> DEFINE u == StartRow(s, r.line)
             c == Closed(r)
  <2>1. KeepsTypes(s, s) /\ KeepsTypes(s, u) /\ KeepsTypes(s, Numbered(u, Parsed(r).n))
    <3>1. KeepsTypes(s, s) /\ KeepsTypes(s, u) /\ Tabular(u)
      BY RowUpdatesKeepTypes DEF KeepsTypes
    <3> HIDE DEF u
    <3>2. KeepsTypes(u, Numbered(u, Parsed(r).n))
      BY <3>1, RowUpdatesKeepTypes
    <3> QED
      BY <3>1, <3>2, TypesKeptTwice
  <2>2. KeepsTypes(s, c)
    <3> DEFINE x == IF Claimed(r) THEN Numbered(s, Parsed(r).n) ELSE s
    <3>1. KeepsTypes(s, x)
      BY RowUpdatesKeepTypes
    <3>2. c = Commented(x, Parsed(r).comment)
      BY DEF Closed
    <3> HIDE DEF x, c
    <3>3. KeepsTypes(x, c)
      BY <3>1, <3>2, RowUpdatesKeepTypes DEF KeepsTypes
    <3> QED
      BY <3>1, <3>3, TypesKeptTwice
  <2>3. \A f : KeepsTypes(s, [s EXCEPT !.flow = f]) /\ KeepsTypes(s, [c EXCEPT !.flow = f])
    <3>1. Tabular(c)
      BY <2>2 DEF KeepsTypes
    <3> HIDE DEF c
    <3> QED
      BY <2>2, <3>1, UpdatesKeepTypes, TypesKeptTwice
  <2>4. KeepsTypes(s, [s EXCEPT !.row = NoRow, !.flow = Continue])
    <3> DEFINE x == [s EXCEPT !.row = NoRow, !.flow = Continue]
    <3>1. IsState(x) /\ x.symbols = s.symbols /\ x.strings = s.strings
      BY <1>1 DEF IsState, StateFields, RowFields, NoRow
    <3> HIDE DEF x
    <3> QED
      BY <3>1, SameTablesKeep DEF x
  <2>5. CASE BeginFile(r, n)
    <3>1. t = s
      BY <1>1, <2>5 DEF BeginFile, RunFields
    <3> QED
      BY <2>1, <3>1 DEF KeepsTypes
  <2>6. CASE StartParsed(r, n) \/ StartDecoded(r, n)
    <3>1. t \in {Numbered(u, Parsed(r).n), u, [s EXCEPT !.flow = Continue]}
      BY <1>1, <2>6 DEF StartParsed, StartDecoded, RunFields
    <3> QED
      BY <2>1, <2>3, <3>1 DEF KeepsTypes
  <2>7. CASE EndLine(r, n)
    <3>1. t = c
      BY <1>1, <2>7 DEF EndLine, RunFields
    <3> QED
      BY <2>2, <3>1 DEF KeepsTypes
  <2>8. CASE TakeJump(r, n)
    <3>1. t = [c EXCEPT !.flow = Continue]
      BY <1>1, <2>8 DEF TakeJump, RunFields
    <3> QED
      BY <2>3, <3>1 DEF KeepsTypes
  <2>9. CASE EndFile(r, n)
    <3>1. t = [s EXCEPT !.row = NoRow, !.flow = Continue]
      BY <1>1, <2>9 DEF EndFile, RunFields
    <3> QED
      BY <2>4, <3>1 DEF KeepsTypes
  <2> QED
    BY <1>3, <2>5, <2>6, <2>7, <2>8, <2>9 DEF Step
<1> QED
  BY <1>2, <1>3

(* Without the driver no line is the driver's.                             *)
LEMMA NeverDriven ==
  ASSUME NEW r, NEW n, Sound(r), ~r.fast, ~r.driven, Step(r, n)
  PROVE  ~n.fast /\ ~n.driven
<1>1. DOMAIN r = RunFields
  BY DEF Sound
<1>2. CASE BeginFile(r, n)
  BY <1>1, <1>2 DEF BeginFile, RunFields
<1>3. CASE StartParsed(r, n) \/ StartDecoded(r, n)
  BY <1>1, <1>3 DEF StartParsed, StartDecoded, RunFields
<1>4. CASE ExecWord(r, n)
  BY <1>1, <1>4 DEF ExecWord, WordDone, RunFields
<1>5. CASE EndLine(r, n)
  BY <1>1, <1>5 DEF EndLine, RunFields
<1>6. CASE TakeJump(r, n)
  BY <1>1, <1>6 DEF TakeJump, RunFields
<1>7. CASE EndFile(r, n)
  BY <1>1, <1>7 DEF EndFile, RunFields
<1> QED
  BY <1>2, <1>3, <1>4, <1>5, <1>6, <1>7 DEF Step

(* In both front ends, on every input, nothing but a DEF puts a name in    *)
(* both tables (interpret_assignment, assign_decoded); the driver may, at  *)
(* a line it reads otherwise than the grammar.                             *)
THEOREM TypesHold == Spec => OneType
<1> DEFINE Inv == /\ Sound(grammar) /\ Sound(driver)
                  /\ Tabular(grammar.state) /\ Tabular(driver.state)
                  /\ ~grammar.fast /\ ~grammar.driven
           A == /\ TwoTyped(grammar'.state) \subseteq TwoTyped(grammar.state) \/ Defines(grammar)
                /\ TwoTyped(driver'.state) \subseteq TwoTyped(driver.state) \/ Defines(driver) \/ departed'
<1>1. Init => Inv
  <2>1. Tabular(NewState)
    BY DEF Tabular, NewState, NoRow, IsState, StateFields, RowFields
  <2>2. \A files, fast : NewRun(files, fast).state = NewState /\ ~NewRun(files, fast).driven
                          /\ NewRun(files, fast).fast = fast
    BY DEF NewRun
  <2> SUFFICES ASSUME Init PROVE Inv
    OBVIOUS
  <2>3. PICK files \in Inputs : grammar = NewRun(files, FALSE) /\ driver = NewRun(files, TRUE)
    BY DEF Init
  <2> QED
    BY <2>1, <2>2, <2>3, SoundStart
<1>2. Inv /\ [Next]_vars => Inv' /\ A
  <2> SUFFICES ASSUME Inv, [Next]_vars PROVE Inv' /\ A
    OBVIOUS
  <2>1. /\ grammar' = grammar \/ (grammar.status = "running" /\ Step(grammar, grammar'))
        /\ driver' = driver \/ (driver.status = "running" /\ Step(driver, driver') /\ (Departs(driver) => departed'))
    BY DEF Next, GrammarStep, DriverStep, vars
  <2>2. Sound(grammar') /\ Sound(driver')
    BY <2>1, StepMoves
  <2>3. Tabular(grammar'.state)
        /\ (TwoTyped(grammar'.state) \subseteq TwoTyped(grammar.state) \/ Defines(grammar))
    BY <2>1, StepKeepsTypes DEF KeepsTypes
  <2>4. Tabular(driver'.state)
        /\ (TwoTyped(driver'.state) \subseteq TwoTyped(driver.state) \/ Defines(driver) \/ departed')
    BY <2>1, StepKeepsTypes DEF KeepsTypes
  <2>5. ~grammar'.fast /\ ~grammar'.driven
    BY <2>1, NeverDriven
  <2> QED
    BY <2>2, <2>3, <2>4, <2>5
<1> HIDE DEF Inv
<1>3. Inv /\ [Next]_vars => [A]_vars
  BY <1>2
<1> QED
  BY <1>1, <1>2, <1>3, PTL DEF Spec, OneType

-----------------------------------------------------------------------------
(* The scan of structures, line by line.                                   *)
ScanState == [open : Seq(Openers \X Nat), structured : BOOLEAN, error : Nat \cup {Null}]

LEMMA CloserFacts ==
  /\ \A o \in Openers : Closer(o) \in Closers
  /\ \A o, p \in Openers : Closer(o) = Closer(p) => o = p
  /\ \A o \in Openers : o \notin Closers /\ o # "ELSE"
  /\ "ELSE" \notin Closers /\ "IF" \in Openers
  BY DEF Openers, Closers, Closer

LEMMA ScanWalk ==
  ASSUME NEW file, Len(file) \in Nat
  PROVE  /\ Scanned(file)[0] = NewScan
         /\ \A i \in 1..Len(file) : Scanned(file)[i] = ScanLine(Scanned(file)[i - 1], file[i], i)
<1> DEFINE n == Len(file)
           Walk(f, m) == f = [i \in 0..m |-> IF i = 0 THEN NewScan ELSE ScanLine(f[i - 1], file[i], i)]
           M == {m \in Nat : \E f : Walk(f, m)}
<1>1. 0 \in M
  <2> DEFINE f == [i \in 0..0 |-> NewScan]
  <2>1. f = [i \in 0..0 |-> IF i = 0 THEN NewScan ELSE ScanLine(f[i - 1], file[i], i)]
    OBVIOUS
  <2> QED
    BY <2>1
<1>2. ASSUME NEW m \in Nat, m \in M PROVE m + 1 \in M
  <2>1. PICK f : Walk(f, m)
    BY <1>2
  <2>2. \A i \in 0..m : f[i] = IF i = 0 THEN NewScan ELSE ScanLine(f[i - 1], file[i], i)
    BY <2>1
  <2> DEFINE g == [i \in 0..m + 1 |-> IF i = m + 1 THEN ScanLine(f[m], file[m + 1], m + 1) ELSE f[i]]
  <2>3. ASSUME NEW i \in 0..m + 1 PROVE g[i] = IF i = 0 THEN NewScan ELSE ScanLine(g[i - 1], file[i], i)
    <3>1. CASE i = m + 1
      <4>1. g[i] = ScanLine(f[m], file[m + 1], m + 1) /\ g[i - 1] = f[m] /\ i # 0
        BY <3>1
      <4> QED
        BY <3>1, <4>1
    <3>2. CASE i # m + 1
      <4>1. i \in 0..m /\ g[i] = f[i] /\ (i # 0 => i - 1 \in 0..m /\ g[i - 1] = f[i - 1])
        BY <3>2
      <4> QED
        BY <2>2, <4>1
    <3> QED
      BY <3>1, <3>2
  <2>4. g = [i \in 0..m + 1 |-> g[i]]
    OBVIOUS
  <2> HIDE DEF g
  <2>5. Walk(g, m + 1)
    BY <2>3, <2>4
  <2> HIDE DEF Walk
  <2> QED
    BY <2>5
<1>3. n \in M
  <2> HIDE DEF M
  <2> QED
    BY <1>1, <1>2, SetInduction
<1>4. Walk(Scanned(file), n)
  BY <1>3 DEF Scanned
<1>5. \A i \in 0..n : Scanned(file)[i] =
         IF i = 0 THEN NewScan ELSE ScanLine(Scanned(file)[i - 1], file[i], i)
  BY <1>4
<1> QED
  BY <1>5

LEMMA ScanStep ==
  ASSUME NEW s \in ScanState, NEW line, NEW i \in Nat, NEW t, t = ScanLine(s, line, i)
  PROVE  /\ t \in ScanState
         /\ t.error = Null => s.error = Null
         /\ t.structured = (s.structured \/ (s.error = Null /\ Opens(line)))
         /\ t.error = Null =>
              /\ Opens(line) => t.open = Append(s.open, <<line.head, i>>)
              /\ line.head = "ELSE" => t.open = s.open /\ s.open # <<>> /\ s.open[Len(s.open)][1] = "IF"
              /\ ~Opens(line) /\ line.head \in Closers =>
                   /\ s.open # <<>> /\ line.head = Closer(s.open[Len(s.open)][1])
                   /\ t.open = SubSeq(s.open, 1, Len(s.open) - 1)
              /\ ~Opens(line) /\ line.head \notin Closers \cup {"ELSE"} => t.open = s.open
         /\ s.error = Null =>
              /\ Opens(line) => t.error = Null
              /\ line.head = "ELSE" /\ s.open # <<>> /\ s.open[Len(s.open)][1] = "IF" => t.error = Null
              /\ ~Opens(line) /\ line.head \in Closers /\ s.open # <<>> /\ line.head = Closer(s.open[Len(s.open)][1])
                   => t.error = Null
              /\ ~Opens(line) /\ line.head \notin Closers \cup {"ELSE"} => t.error = Null
<1>1. /\ s.open \in Seq(Openers \X Nat) /\ s.structured \in BOOLEAN /\ s.error \in Nat \cup {Null}
      /\ DOMAIN s = {"open", "structured", "error"}
  BY DEF ScanState
<1>2. i # Null
  BY LinesAssumption
<1>3. CASE s.error # Null
  BY <1>3, <1>1 DEF ScanLine
<1>4. CASE s.error = Null /\ Opens(line)
  <2>1. line.head \in Openers /\ line.head # "ELSE" /\ line.head \notin Closers
    BY <1>4, CloserFacts DEF Opens
  <2>2. t = [s EXCEPT !.open = Append(@, <<line.head, i>>), !.structured = TRUE]
    BY <1>4, <2>1 DEF ScanLine
  <2>3. Append(s.open, <<line.head, i>>) \in Seq(Openers \X Nat)
    BY <1>1, <2>1, AppendProperties
  <2>4. /\ t \in ScanState /\ t.open = Append(s.open, <<line.head, i>>) /\ t.structured = TRUE
        /\ t.error = s.error
    BY <2>2, <2>3 DEF ScanState
  <2> QED
    BY <1>4, <2>1, <2>4
<1>5. CASE s.error = Null /\ ~Opens(line) /\ line.head = "ELSE"
  <2>1. line.head \notin Closers
    BY <1>5, CloserFacts
  <2>2. t = IF Innermost(s, "IF") THEN s ELSE [s EXCEPT !.error = i]
    BY <1>5, <2>1 DEF ScanLine
  <2>3. Innermost(s, "IF") <=> s.open # <<>> /\ s.open[Len(s.open)][1] = "IF"
    BY DEF Innermost, Last
  <2>4. [s EXCEPT !.error = i] \in ScanState /\ [s EXCEPT !.error = i].error = i
        /\ [s EXCEPT !.error = i].structured = s.structured
    BY DEF ScanState
  <2> QED
    <3>1. CASE Innermost(s, "IF")
      <4>1. t = s
        BY <2>2, <3>1
      <4> QED
        BY <1>1, <1>5, <2>1, <2>3, <3>1, <4>1
    <3>2. CASE ~Innermost(s, "IF")
      <4>1. t = [s EXCEPT !.error = i]
        BY <2>2, <3>2
      <4>2. t \in ScanState /\ t.error # Null /\ t.structured = s.structured
        BY <1>2, <2>4, <4>1
      <4>3. ~(s.open # <<>> /\ s.open[Len(s.open)][1] = "IF")
        BY <2>3, <3>2
      <4> QED
        BY <1>1, <1>5, <2>1, <4>2, <4>3
    <3> QED
      BY <3>1, <3>2
<1>6. CASE s.error = Null /\ ~Opens(line) /\ line.head \in Closers
  <2>1. line.head # "ELSE"
    BY <1>6, CloserFacts
  <2> DEFINE closes == s.open # <<>> /\ line.head = Closer(s.open[Len(s.open)][1])
  <2>2. (\E o \in Openers : Closer(o) = line.head /\ Innermost(s, o)) <=> closes
    <3>1. s.open # <<>> => s.open[Len(s.open)][1] \in Openers
      <4>1. \A X, q : q \in Seq(X) /\ q # <<>> => q[Len(q)] \in X
        OBVIOUS
      <4> QED
        BY <1>1, <4>1
    <3> QED
      BY <3>1 DEF Innermost, Last
  <2> HIDE DEF closes
  <2>3. t = IF closes THEN [s EXCEPT !.open = Front(@)] ELSE [s EXCEPT !.error = i]
    BY <1>6, <2>1, <2>2 DEF ScanLine
  <2>4. [s EXCEPT !.error = i] \in ScanState /\ [s EXCEPT !.error = i].error = i
        /\ [s EXCEPT !.error = i].structured = s.structured
    BY DEF ScanState
  <2>5. closes => Front(s.open) = SubSeq(s.open, 1, Len(s.open) - 1) /\ Front(s.open) \in Seq(Openers \X Nat)
    <3>1. \A X, q : q \in Seq(X) /\ q # <<>> => SubSeq(q, 1, Len(q) - 1) \in Seq(X)
      OBVIOUS
    <3> QED
      BY <1>1, <3>1 DEF Front, closes
  <2>6. closes => [s EXCEPT !.open = Front(@)] \in ScanState /\ [s EXCEPT !.open = Front(@)].error = s.error
                  /\ [s EXCEPT !.open = Front(@)].structured = s.structured
                  /\ [s EXCEPT !.open = Front(@)].open = Front(s.open)
    BY <2>5 DEF ScanState
  <2>7. CASE closes
    <3>1. t = [s EXCEPT !.open = Front(@)]
      BY <2>3, <2>7
    <3>2. /\ t \in ScanState /\ t.error = s.error /\ t.structured = s.structured
          /\ t.open = SubSeq(s.open, 1, Len(s.open) - 1)
      BY <2>5, <2>6, <2>7, <3>1
    <3>3. s.open # <<>> /\ line.head = Closer(s.open[Len(s.open)][1])
      BY <2>7 DEF closes
    <3> QED
      BY <1>1, <1>6, <2>1, <3>2, <3>3
  <2>8. CASE ~closes
    <3>1. t = [s EXCEPT !.error = i]
      BY <2>3, <2>8
    <3>2. t \in ScanState /\ t.error # Null /\ t.structured = s.structured
      BY <1>2, <2>4, <3>1
    <3>3. ~(s.open # <<>> /\ line.head = Closer(s.open[Len(s.open)][1]))
      BY <2>8 DEF closes
    <3> QED
      BY <1>1, <1>6, <2>1, <3>2, <3>3
  <2> QED
    BY <2>7, <2>8
<1>7. CASE s.error = Null /\ ~Opens(line) /\ line.head \notin Closers \cup {"ELSE"}
  <2>1. t = s
    BY <1>7 DEF ScanLine
  <2>2. line.head # "ELSE" /\ line.head \notin Closers
    BY <1>7
  <2>3. t \in ScanState /\ t.structured = s.structured /\ t.open = s.open /\ t.error = Null
    BY <1>7, <2>1
  <2>4. s.structured = (s.structured \/ (s.error = Null /\ Opens(line)))
    BY <1>1, <1>7
  <2> QED
    BY <1>7, <2>2, <2>3, <2>4
<1> QED
  BY <1>3, <1>4, <1>5, <1>6, <1>7

LEMMA ScanTypes ==
  ASSUME NEW file, Len(file) \in Nat
  PROVE  \A i \in 0..Len(file) : Scanned(file)[i] \in ScanState
<1> DEFINE M == {m \in Nat : m <= Len(file) => Scanned(file)[m] \in ScanState}
<1>1. 0 \in M
  <2>1. NewScan \in ScanState
    BY DEF NewScan, ScanState
  <2> QED
    BY <2>1, ScanWalk
<1>2. ASSUME NEW m \in Nat, m \in M PROVE m + 1 \in M
  <2> SUFFICES ASSUME m + 1 <= Len(file) PROVE Scanned(file)[m + 1] \in ScanState
    OBVIOUS
  <2>1. m + 1 \in 1..Len(file) /\ (m + 1) - 1 = m /\ Scanned(file)[m] \in ScanState
    BY <1>2
  <2>2. Scanned(file)[m + 1] = ScanLine(Scanned(file)[m], file[m + 1], m + 1)
    BY <2>1, ScanWalk
  <2> QED
    BY <2>1, <2>2, ScanStep
<1> HIDE DEF M
<1>3. Nat \subseteq M
  BY <1>1, <1>2, SetInduction
<1> QED
  BY <1>3 DEF M

LEMMA NoErrorBefore ==
  ASSUME NEW file, Len(file) \in Nat, NEW j \in 0..Len(file), Scanned(file)[j].error = Null
  PROVE  \A m \in 0..j : Scanned(file)[m].error = Null
<1> DEFINE M == {m \in Nat : m <= j => Scanned(file)[j - m].error = Null}
<1>1. 0 \in M
  OBVIOUS
<1>2. ASSUME NEW m \in Nat, m \in M PROVE m + 1 \in M
  <2> SUFFICES ASSUME m + 1 <= j PROVE Scanned(file)[j - (m + 1)].error = Null
    OBVIOUS
  <2> DEFINE i == j - m
  <2>1. i \in 1..Len(file) /\ Scanned(file)[i].error = Null /\ i - 1 = j - (m + 1) /\ i - 1 \in 0..Len(file)
    BY <1>2
  <2> HIDE DEF i
  <2>2. Scanned(file)[i] = ScanLine(Scanned(file)[i - 1], file[i], i) /\ Scanned(file)[i - 1] \in ScanState
    BY <2>1, ScanWalk, ScanTypes
  <2>3. Scanned(file)[i - 1].error = Null
    BY <2>1, <2>2, ScanStep
  <2> QED
    BY <2>1, <2>3
<1> HIDE DEF M
<1>3. Nat \subseteq M
  BY <1>1, <1>2, SetInduction
<1> SUFFICES ASSUME NEW m \in 0..j PROVE Scanned(file)[m].error = Null
  OBVIOUS
<1>4. j - m \in Nat /\ j - m <= j /\ j - (j - m) = m
  OBVIOUS
<1> QED
  BY <1>3, <1>4 DEF M

-----------------------------------------------------------------------------
(* The lists of blocks of the grammar.                                     *)
Listed(file, i, j) == Nested(file)[<<i, j>>] = TRUE

LEMMA ListsExist ==
  ASSUME NEW file, Len(file) \in Nat
  PROVE  \E f \in [Spans(file) -> BOOLEAN] :
           f = [span \in Spans(file) |-> IsList(file, f, span[1], span[2])]
<1> DEFINE n == Len(file)
           D == Spans(file)
           Known(f, m) == \A span \in D : span[2] - span[1] < m => f[span] = IsList(file, f, span[1], span[2])
           M == {m \in Nat : \E f \in [D -> BOOLEAN] : Known(f, m)}
<1>1. \A span \in D : /\ span[1] \in 1..n + 1 /\ span[2] \in 0..n /\ span = <<span[1], span[2]>>
                      /\ span[2] - span[1] < n
  BY DEF Spans
<1>2. \A a \in 1..n + 1, b \in 0..n : <<a, b>> \in D
  BY DEF Spans
<1>3. \A f, i, j : IsList(file, f, i, j) \in BOOLEAN
  BY DEF IsList
<1> HIDE DEF D
<1>4. 0 \in M
  <2> DEFINE f == [span \in D |-> span[1] > span[2] \/ IsList(file, 0, span[1], span[2])]
  <2>1. f \in [D -> BOOLEAN]
    BY <1>3
  <2>2. Known(f, 0)
    <3> SUFFICES ASSUME NEW span \in D, span[2] - span[1] < 0
                 PROVE  f[span] = IsList(file, f, span[1], span[2])
      OBVIOUS
    <3>1. span[1] > span[2]
      BY <1>1
    <3>2. f[span] = TRUE
      BY <3>1
    <3> HIDE DEF f
    <3>3. IsList(file, f, span[1], span[2])
      BY <3>1 DEF IsList
    <3> QED
      BY <1>3, <3>2, <3>3
  <2> HIDE DEF f, Known
  <2> QED
    BY <2>1, <2>2
<1>5. ASSUME NEW m \in Nat, m \in M PROVE m + 1 \in M
  <2>1. PICK f \in [D -> BOOLEAN] : Known(f, m)
    BY <1>5
  <2> DEFINE g == [span \in D |-> IF span[2] - span[1] < m THEN f[span] ELSE IsList(file, f, span[1], span[2])]
  <2>2. g \in [D -> BOOLEAN]
    BY <1>3
  <2>3. \A span \in D : span[2] - span[1] < m => g[span] = f[span]
    OBVIOUS
  <2>4. \A span \in D : span[2] - span[1] < m + 1 => g[span] = IsList(file, f, span[1], span[2])
    BY <1>1, <2>1
  <2> HIDE DEF g
  <2>5. ASSUME NEW span \in D, span[2] - span[1] < m + 1
        PROVE  IsList(file, f, span[1], span[2]) = IsList(file, g, span[1], span[2])
    <3> DEFINE i == span[1]
               j == span[2]
    <3>1. i \in 1..n + 1 /\ j \in 0..n /\ j - i < m + 1
      BY <1>1, <2>5
    <3> HIDE DEF i, j
    <3>2. ASSUME NEW a \in (i + 1)..(j + 1), NEW b \in 0..j
          PROVE  f[<<a, b>>] = g[<<a, b>>]
      <4>1. <<a, b>> \in D
        BY <1>2, <3>1
      <4>2. b - a < m
        BY <3>1
      <4> QED
        BY <2>3, <4>1, <4>2
    <3>3. ASSUME i <= j
          PROVE  IsList(file, f, i, j) = IsList(file, g, i, j)
      <4>1. f[<<i + 1, j>>] = g[<<i + 1, j>>]
        BY <3>1, <3>2, <3>3
      <4>2. ASSUME NEW k \in (i + 1)..j
            PROVE  f[<<k + 1, j>>] = g[<<k + 1, j>>] /\ f[<<i + 1, k - 1>>] = g[<<i + 1, k - 1>>]
        <5>1. k + 1 \in (i + 1)..(j + 1) /\ j \in 0..j /\ i + 1 \in (i + 1)..(j + 1) /\ k - 1 \in 0..j
          BY <3>1
        <5> QED
          BY <3>2, <5>1
      <4>3. ASSUME NEW k \in (i + 1)..j, NEW e \in (i + 1)..(k - 1)
            PROVE  f[<<i + 1, e - 1>>] = g[<<i + 1, e - 1>>] /\ f[<<e + 1, k - 1>>] = g[<<e + 1, k - 1>>]
        <5>1. e + 1 \in (i + 1)..(j + 1) /\ e - 1 \in 0..j /\ i + 1 \in (i + 1)..(j + 1) /\ k - 1 \in 0..j
          BY <3>1
        <5> QED
          BY <3>2, <5>1
      <4> QED
        BY <4>1, <4>2, <4>3 DEF IsList
    <3>4. ASSUME i > j
          PROVE  IsList(file, f, i, j) = IsList(file, g, i, j)
      BY <3>4 DEF IsList
    <3> QED
      BY <3>1, <3>3, <3>4 DEF i, j
  <2>6. Known(g, m + 1)
    BY <2>4, <2>5
  <2> HIDE DEF Known
  <2> QED
    BY <2>2, <2>6
<1>6. n \in M
  <2> HIDE DEF M
  <2> QED
    BY <1>4, <1>5, SetInduction
<1>7. PICK f \in [D -> BOOLEAN] : Known(f, n)
  BY <1>6
<1>8. f = [span \in D |-> IsList(file, f, span[1], span[2])]
  <2>1. \A span \in D : f[span] = IsList(file, f, span[1], span[2])
    BY <1>1, <1>7
  <2> QED
    BY <2>1
<1> QED
  BY <1>8 DEF D

(* Which spans are lists, in terms of shorter ones.                        *)
LEMMA ListsAre ==
  ASSUME NEW file, Len(file) \in Nat, NEW i \in 1..Len(file) + 1, NEW j \in 0..Len(file)
  PROVE  Listed(file, i, j) <=>
           \/ i > j
           \/ ~Opens(file[i]) /\ file[i].head \notin Closers \cup {"ELSE"} /\ Listed(file, i + 1, j)
           \/ /\ Opens(file[i])
              /\ \E k \in (i + 1)..j :
                   /\ file[k].head = Closer(file[i].head) /\ Listed(file, k + 1, j)
                   /\ \/ Listed(file, i + 1, k - 1)
                      \/ /\ file[i].head = "IF"
                         /\ \E e \in (i + 1)..(k - 1) :
                              /\ file[e].head = "ELSE"
                              /\ Listed(file, i + 1, e - 1) /\ Listed(file, e + 1, k - 1)
<1> DEFINE N == Nested(file)
           n == Len(file)
<1>1. N = [span \in Spans(file) |-> IsList(file, N, span[1], span[2])]
  BY ListsExist DEF Nested
<1>2. \A a \in 1..n + 1, b \in 0..n : N[<<a, b>>] = IsList(file, N, a, b)
  <2>1. \A a \in 1..n + 1, b \in 0..n : <<a, b>> \in Spans(file)
    BY DEF Spans
  <2>2. \A span \in Spans(file) : N[span] = IsList(file, N, span[1], span[2])
    <3> HIDE DEF N
    <3> QED
      BY <1>1
  <2> QED
    BY <2>1, <2>2
<1>3. \A a \in 1..n + 1, b \in 0..n : N[<<a, b>>] \in BOOLEAN
  <2>1. \A a, b : IsList(file, N, a, b) \in BOOLEAN
    BY DEF IsList
  <2> QED
    BY <1>2, <2>1
<1>4. N[<<i, j>>] = TRUE <=> IsList(file, N, i, j)
  <2>1. IsList(file, N, i, j) \in BOOLEAN
    BY DEF IsList
  <2> QED
    BY <1>2, <2>1
<1> HIDE DEF N
<1>5. CASE i > j
  <2>1. IsList(file, N, i, j)
    BY <1>5 DEF IsList
  <2> QED
    BY <1>4, <1>5, <2>1 DEF Listed, N
<1>6. CASE i <= j
  <2>1. \A a \in (i + 1)..(j + 1), b \in 0..j : N[<<a, b>>] = Listed(file, a, b)
    <3>1. \A a \in (i + 1)..(j + 1), b \in 0..j : a \in 1..n + 1 /\ b \in 0..n
      BY <1>6
    <3> QED
      BY <1>3, <3>1 DEF Listed, N
  <2>2. N[<<i + 1, j>>] = Listed(file, i + 1, j)
    <3>1. i + 1 \in (i + 1)..(j + 1) /\ j \in 0..j
      BY <1>6
    <3> QED
      BY <2>1, <3>1
  <2>3. \A k \in (i + 1)..j : /\ N[<<k + 1, j>>] = Listed(file, k + 1, j)
                              /\ N[<<i + 1, k - 1>>] = Listed(file, i + 1, k - 1)
    <3>1. \A k \in (i + 1)..j :
             k + 1 \in (i + 1)..(j + 1) /\ j \in 0..j /\ i + 1 \in (i + 1)..(j + 1) /\ k - 1 \in 0..j
      BY <1>6
    <3> QED
      BY <2>1, <3>1
  <2>4. \A k \in (i + 1)..j : \A e \in (i + 1)..(k - 1) :
           /\ N[<<i + 1, e - 1>>] = Listed(file, i + 1, e - 1)
           /\ N[<<e + 1, k - 1>>] = Listed(file, e + 1, k - 1)
    <3>1. \A k \in (i + 1)..j : \A e \in (i + 1)..(k - 1) :
             e + 1 \in (i + 1)..(j + 1) /\ e - 1 \in 0..j /\ i + 1 \in (i + 1)..(j + 1) /\ k - 1 \in 0..j
      BY <1>6
    <3> QED
      BY <2>1, <3>1
  <2>5. IsList(file, N, i, j) <=>
           \/ i > j
           \/ ~Opens(file[i]) /\ file[i].head \notin Closers \cup {"ELSE"} /\ Listed(file, i + 1, j)
           \/ /\ Opens(file[i])
              /\ \E k \in (i + 1)..j :
                   /\ file[k].head = Closer(file[i].head) /\ Listed(file, k + 1, j)
                   /\ \/ Listed(file, i + 1, k - 1)
                      \/ /\ file[i].head = "IF"
                         /\ \E e \in (i + 1)..(k - 1) :
                              /\ file[e].head = "ELSE"
                              /\ Listed(file, i + 1, e - 1) /\ Listed(file, e + 1, k - 1)
    BY <2>2, <2>3, <2>4 DEF IsList
  <2>6. Listed(file, i, j) <=> IsList(file, N, i, j)
    BY <1>4 DEF Listed, N
  <2> QED
    BY <2>5, <2>6
<1> QED
  BY <1>5, <1>6

-----------------------------------------------------------------------------
(* The scan and the lists.                                                 *)
Follows(s, line, i, t) ==
  /\ t.error = Null => s.error = Null
  /\ t.error = Null =>
       /\ Opens(line) => t.open = Append(s.open, <<line.head, i>>)
       /\ line.head = "ELSE" => t.open = s.open /\ s.open # <<>> /\ s.open[Len(s.open)][1] = "IF"
       /\ ~Opens(line) /\ line.head \in Closers =>
            /\ s.open # <<>> /\ line.head = Closer(s.open[Len(s.open)][1])
            /\ t.open = SubSeq(s.open, 1, Len(s.open) - 1)
       /\ ~Opens(line) /\ line.head \notin Closers \cup {"ELSE"} => t.open = s.open
  /\ s.error = Null =>
       /\ Opens(line) => t.error = Null
       /\ line.head = "ELSE" /\ s.open # <<>> /\ s.open[Len(s.open)][1] = "IF" => t.error = Null
       /\ ~Opens(line) /\ line.head \in Closers /\ s.open # <<>> /\ line.head = Closer(s.open[Len(s.open)][1])
            => t.error = Null
       /\ ~Opens(line) /\ line.head \notin Closers \cup {"ELSE"} => t.error = Null

LEMMA ScanFollows ==
  ASSUME NEW file, Len(file) \in Nat, NEW i \in 1..Len(file)
  PROVE  /\ Scanned(file)[i - 1] \in ScanState /\ Scanned(file)[i] \in ScanState
         /\ Follows(Scanned(file)[i - 1], file[i], i, Scanned(file)[i])
         /\ Scanned(file)[i].structured =
              (Scanned(file)[i - 1].structured \/ (Scanned(file)[i - 1].error = Null /\ Opens(file[i])))
<1>1. i \in Nat /\ i - 1 \in 0..Len(file) /\ i \in 0..Len(file)
  OBVIOUS
<1>2. Scanned(file)[i - 1] \in ScanState /\ Scanned(file)[i] \in ScanState
  BY <1>1, ScanTypes
<1>3. Scanned(file)[i] = ScanLine(Scanned(file)[i - 1], file[i], i)
  BY ScanWalk
<1>4. \A s \in ScanState : \A t : t = ScanLine(s, file[i], i) =>
         /\ Follows(s, file[i], i, t)
         /\ t.structured = (s.structured \/ (s.error = Null /\ Opens(file[i])))
  <2> SUFFICES ASSUME NEW s \in ScanState, NEW t, t = ScanLine(s, file[i], i)
               PROVE  /\ Follows(s, file[i], i, t)
                      /\ t.structured = (s.structured \/ (s.error = Null /\ Opens(file[i])))
    OBVIOUS
  <2> QED
    BY <1>1, ScanStep DEF Follows
<1> QED
  BY <1>2, <1>3, <1>4

(* A list of blocks neither fails the scan nor leaves anything open.       *)
LEMMA ListsLeaveScan ==
  ASSUME NEW file, Len(file) \in Nat
  PROVE  \A i \in 1..Len(file) + 1, j \in 0..Len(file) :
           i <= j + 1 /\ Listed(file, i, j) /\ Scanned(file)[i - 1].error = Null =>
             Scanned(file)[j].error = Null /\ Scanned(file)[j].open = Scanned(file)[i - 1].open
<1> DEFINE N == Len(file)
           Fine(m) == Scanned(file)[m].error = Null
           Open(m) == Scanned(file)[m].open
           Kept(i, j) == Fine(i - 1) => Fine(j) /\ Open(j) = Open(i - 1)
           P(n) == \A i \in 1..N + 1, j \in 0..N : i <= j + 1 /\ j - i < n /\ Listed(file, i, j) => Kept(i, j)
           M == {n \in Nat : P(n)}
<1>1. 0 \in M
  <2>1. \A i \in 1..N + 1, j \in 0..N : i <= j + 1 /\ j - i < 0 => i - 1 = j
    OBVIOUS
  <2> QED
    BY <2>1
<1>2. ASSUME NEW n \in Nat, n \in M PROVE n + 1 \in M
  <2>1. P(n)
    BY <1>2
  <2> SUFFICES ASSUME NEW i \in 1..N + 1, NEW j \in 0..N, i <= j + 1, j - i < n + 1,
                      Listed(file, i, j), Fine(i - 1)
               PROVE  Fine(j) /\ Open(j) = Open(i - 1)
    OBVIOUS
  <2>2. CASE i > j
    <3>1. i - 1 = j
      BY <2>2
    <3> QED
      BY <3>1
  <2>3. CASE i <= j
    <3>1. i \in 1..N /\ i + 1 \in 1..N + 1 /\ i + 1 <= j + 1 /\ j - (i + 1) < n /\ (i + 1) - 1 = i
      BY <2>3
    <3>2. Follows(Scanned(file)[i - 1], file[i], i, Scanned(file)[i])
          /\ Scanned(file)[i - 1] \in ScanState
      BY <3>1, ScanFollows
    <3>3. CASE ~Opens(file[i]) /\ file[i].head \notin Closers \cup {"ELSE"} /\ Listed(file, i + 1, j)
      <4>1. Fine(i) /\ Open(i) = Open(i - 1)
        BY <3>2, <3>3 DEF Follows
      <4>2. Kept(i + 1, j)
        BY <2>1, <3>1, <3>3
      <4> QED
        BY <3>1, <4>1, <4>2
    <3>4. CASE /\ Opens(file[i])
               /\ \E k \in (i + 1)..j :
                    /\ file[k].head = Closer(file[i].head) /\ Listed(file, k + 1, j)
                    /\ \/ Listed(file, i + 1, k - 1)
                       \/ /\ file[i].head = "IF"
                          /\ \E e \in (i + 1)..(k - 1) :
                               /\ file[e].head = "ELSE"
                               /\ Listed(file, i + 1, e - 1) /\ Listed(file, e + 1, k - 1)
      <4>1. PICK k \in (i + 1)..j :
               /\ file[k].head = Closer(file[i].head) /\ Listed(file, k + 1, j)
               /\ \/ Listed(file, i + 1, k - 1)
                  \/ /\ file[i].head = "IF"
                     /\ \E e \in (i + 1)..(k - 1) :
                          /\ file[e].head = "ELSE"
                          /\ Listed(file, i + 1, e - 1) /\ Listed(file, e + 1, k - 1)
        BY <3>4
      <4> DEFINE word == <<file[i].head, i>>
      <4>2. Fine(i) /\ Open(i) = Append(Open(i - 1), word)
        BY <3>2, <3>4 DEF Follows
      <4>3. Open(i - 1) \in Seq(Openers \X Nat) /\ word \in Openers \X Nat
        <5>1. file[i].head \in Openers /\ i \in Nat
          BY <3>1, <3>4 DEF Opens
        <5>2. \A s \in ScanState : s.open \in Seq(Openers \X Nat)
          BY DEF ScanState
        <5> QED
          BY <3>2, <5>1, <5>2
      <4>4. /\ Open(i) # <<>> /\ Open(i)[Len(Open(i))] = word
            /\ SubSeq(Open(i), 1, Len(Open(i)) - 1) = Open(i - 1)
        <5>1. \A X, q, x : q \in Seq(X) /\ x \in X =>
                 /\ Append(q, x) # <<>> /\ Append(q, x)[Len(Append(q, x))] = x
                 /\ SubSeq(Append(q, x), 1, Len(Append(q, x)) - 1) = q
          <6> SUFFICES ASSUME NEW X, NEW q \in Seq(X), NEW x \in X
                       PROVE  /\ Append(q, x) # <<>> /\ Append(q, x)[Len(Append(q, x))] = x
                              /\ SubSeq(Append(q, x), 1, Len(Append(q, x)) - 1) = q
            OBVIOUS
          <6>1. Len(Append(q, x)) = Len(q) + 1 /\ Append(q, x)[Len(q) + 1] = x /\ Append(q, x) # <<>>
            OBVIOUS
          <6>2. SubSeq(Append(q, x), 1, Len(q)) = q
            OBVIOUS
          <6> QED
            BY <6>1, <6>2
        <5> DEFINE p == Open(i - 1)
                   q == Open(i)
        <5>2. q = Append(p, word) /\ p \in Seq(Openers \X Nat) /\ word \in Openers \X Nat
          BY <4>2, <4>3
        <5> HIDE DEF word, p, q
        <5>3. LET a == Append(p, word)
              IN  a # <<>> /\ a[Len(a)] = word /\ SubSeq(a, 1, Len(a) - 1) = p
          BY <5>1, <5>2
        <5>4. q # <<>> /\ q[Len(q)] = word /\ SubSeq(q, 1, Len(q) - 1) = p
          BY <5>2, <5>3
        <5> QED
          BY <5>4 DEF p, q
      <4>5. k \in 1..N /\ k - 1 \in 0..N /\ i + 1 <= (k - 1) + 1 /\ (k - 1) - (i + 1) < n
        BY <3>1
      <4>6. Fine(k - 1) /\ Open(k - 1) = Open(i)
        <5>1. CASE Listed(file, i + 1, k - 1)
          <6>1. Kept(i + 1, k - 1)
            BY <2>1, <3>1, <4>5, <5>1
          <6> QED
            BY <3>1, <4>2, <6>1
        <5>2. CASE /\ file[i].head = "IF"
                   /\ \E e \in (i + 1)..(k - 1) :
                        /\ file[e].head = "ELSE"
                        /\ Listed(file, i + 1, e - 1) /\ Listed(file, e + 1, k - 1)
          <6>1. PICK e \in (i + 1)..(k - 1) :
                   /\ file[e].head = "ELSE"
                   /\ Listed(file, i + 1, e - 1) /\ Listed(file, e + 1, k - 1)
            BY <5>2
          <6>2. /\ e \in 1..N /\ e - 1 \in 0..N /\ i + 1 <= (e - 1) + 1 /\ (e - 1) - (i + 1) < n
                /\ e + 1 \in 1..N + 1 /\ e + 1 <= (k - 1) + 1 /\ (k - 1) - (e + 1) < n /\ (e + 1) - 1 = e
            BY <3>1, <4>5
          <6>3. Kept(i + 1, e - 1)
            BY <2>1, <3>1, <6>1, <6>2
          <6>4. Fine(e - 1) /\ Open(e - 1) = Open(i)
            BY <3>1, <4>2, <6>3
          <6>5. Follows(Scanned(file)[e - 1], file[e], e, Scanned(file)[e])
            BY <6>2, ScanFollows
          <6>6. Open(e - 1) # <<>> /\ Open(e - 1)[Len(Open(e - 1))][1] = "IF"
            <7>1. Open(i) # <<>> /\ Open(i)[Len(Open(i))][1] = file[i].head
              BY <4>4
            <7> HIDE DEF Open
            <7> QED
              BY <5>2, <6>4, <7>1
          <6>7. Fine(e) /\ Open(e) = Open(e - 1)
            BY <6>1, <6>4, <6>5, <6>6 DEF Follows
          <6>8. Kept(e + 1, k - 1)
            BY <2>1, <4>5, <6>1, <6>2
          <6> QED
            BY <6>2, <6>4, <6>7, <6>8
        <5> QED
          BY <4>1, <5>1, <5>2
      <4>7. Follows(Scanned(file)[k - 1], file[k], k, Scanned(file)[k])
        BY <4>5, ScanFollows
      <4>8. file[k].head \in Closers /\ ~Opens(file[k])
        BY <3>4, <4>1, CloserFacts DEF Opens
      <4>9. Open(k - 1) # <<>> /\ file[k].head = Closer(Open(k - 1)[Len(Open(k - 1))][1])
        <5>1. Open(i) # <<>> /\ Open(i)[Len(Open(i))][1] = file[i].head
          BY <4>4
        <5> HIDE DEF Open
        <5> QED
          BY <4>1, <4>6, <5>1
      <4>10. Fine(k) /\ Open(k) = SubSeq(Open(k - 1), 1, Len(Open(k - 1)) - 1)
        BY <4>6, <4>7, <4>8, <4>9 DEF Follows
      <4>11. Fine(k) /\ Open(k) = Open(i - 1)
        BY <4>4, <4>6, <4>10
      <4>12. k + 1 \in 1..N + 1 /\ k + 1 <= j + 1 /\ j - (k + 1) < n /\ (k + 1) - 1 = k
        BY <3>1
      <4>13. Kept(k + 1, j)
        BY <2>1, <4>1, <4>12
      <4> QED
        BY <4>11, <4>12, <4>13
    <3> QED
      <4>1. ~(i > j)
        BY <2>3
      <4> HIDE DEF Fine, Open
      <4> QED
        BY <3>3, <3>4, <4>1, ListsAre
  <2> QED
    BY <2>2, <2>3
<1>3. Nat \subseteq M
  <2> HIDE DEF M
  <2> QED
    BY <1>1, <1>2, SetInduction
<1> SUFFICES ASSUME NEW i \in 1..N + 1, NEW j \in 0..N, i <= j + 1, Listed(file, i, j)
             PROVE  Kept(i, j)
  BY DEF Kept
<1>4. j - i < N + 1 /\ N + 1 \in Nat
  OBVIOUS
<1>5. P(N + 1)
  BY <1>3, <1>4
<1> HIDE DEF Kept
<1> QED
  BY <1>4, <1>5

(* What is open changes at the top only.                                   *)
TopOnly(p, line, i, q) ==
  /\ Len(p) \in Nat /\ Len(q) \in Nat
  /\ \A x \in 1..Len(p) : x <= Len(q) => q[x] = p[x]
  /\ Opens(line) => Len(q) = Len(p) + 1 /\ q[Len(q)] = <<line.head, i>>
  /\ line.head = "ELSE" => Len(q) = Len(p) /\ Len(p) > 0 /\ p[Len(p)][1] = "IF"
  /\ ~Opens(line) /\ line.head \in Closers =>
       Len(q) = Len(p) - 1 /\ Len(p) > 0 /\ line.head = Closer(p[Len(p)][1])
  /\ ~Opens(line) /\ line.head \notin Closers \cup {"ELSE"} => Len(q) = Len(p)

LEMMA OpenAtTop ==
  ASSUME NEW file, Len(file) \in Nat, NEW i \in 1..Len(file), Scanned(file)[i].error = Null
  PROVE  TopOnly(Scanned(file)[i - 1].open, file[i], i, Scanned(file)[i].open)
<1> DEFINE s == Scanned(file)[i - 1]
           t == Scanned(file)[i]
           p == s.open
           q == t.open
<1>1. s \in ScanState /\ t \in ScanState /\ Follows(s, file[i], i, t)
  BY ScanFollows
<1>2. p \in Seq(Openers \X Nat) /\ q \in Seq(Openers \X Nat) /\ i \in Nat
  BY <1>1 DEF ScanState
<1>3. Len(p) \in Nat /\ Len(q) \in Nat /\ (p # <<>> => Len(p) > 0)
  <2> HIDE DEF p, q
  <2> QED
    BY <1>2
<1>s. SUFFICES TopOnly(p, file[i], i, q)
  OBVIOUS
<1>0. /\ Opens(file[i]) => q = Append(p, <<file[i].head, i>>)
      /\ file[i].head = "ELSE" => q = p /\ p # <<>> /\ p[Len(p)][1] = "IF"
      /\ ~Opens(file[i]) /\ file[i].head \in Closers =>
           /\ p # <<>> /\ file[i].head = Closer(p[Len(p)][1])
           /\ q = SubSeq(p, 1, Len(p) - 1)
      /\ ~Opens(file[i]) /\ file[i].head \notin Closers \cup {"ELSE"} => q = p
  BY <1>1 DEF Follows
<1> HIDE DEF p, q, s, t
<1>4. CASE Opens(file[i])
  <2> DEFINE w == <<file[i].head, i>>
  <2>1. q = Append(p, w)
    BY <1>0, <1>4
  <2>2. w \in Openers \X Nat
    BY <1>2, <1>4 DEF Opens
  <2>3. file[i].head # "ELSE"
    BY <1>4, CloserFacts DEF Opens
  <2> HIDE DEF w
  <2>4. Len(q) = Len(p) + 1 /\ q[Len(p) + 1] = w /\ \A x \in 1..Len(p) : q[x] = p[x]
    BY <1>2, <2>1, <2>2
  <2> QED
    BY <1>3, <1>4, <2>2, <2>3, <2>4, CloserFacts DEF TopOnly, w, Opens
<1>5. CASE ~Opens(file[i]) /\ file[i].head \in Closers
  <2>1. q = SubSeq(p, 1, Len(p) - 1) /\ p # <<>> /\ file[i].head = Closer(p[Len(p)][1])
    BY <1>0, <1>5
  <2>2. file[i].head # "ELSE"
    BY <1>5, CloserFacts
  <2>3. Len(q) = Len(p) - 1 /\ \A x \in 1..Len(q) : q[x] = p[x]
    <3>1. Len(p) > 0
      BY <1>3, <2>1
    <3> DEFINE k == Len(p) - 1
    <3>2. 1 \in Int /\ k \in Int /\ k >= 0 /\ q = SubSeq(p, 1, k)
      BY <1>3, <2>1, <3>1
    <3>3. \A x \in 1..k : p[x] \in Openers \X Nat
      BY <1>2, <1>3
    <3> HIDE DEF k
    <3>4. /\ Len(SubSeq(p, 1, k)) = IF 1 <= k THEN k - 1 + 1 ELSE 0
          /\ \A x \in 1..(k - 1 + 1) : SubSeq(p, 1, k)[x] = p[1 + x - 1]
      BY ONLY <3>2, <3>3, SubSeqProperties
    <3>5. Len(q) = k
      BY <3>2, <3>4
    <3>6. k - 1 + 1 = k /\ \A x \in 1..k : 1 + x - 1 = x
      BY <3>2
    <3> QED
      BY <3>2, <3>4, <3>5, <3>6 DEF k
  <2> QED
    <3>1. \A x \in 1..Len(p) : x <= Len(q) => q[x] = p[x]
      BY <1>3, <2>3
    <3> QED
      BY <1>3, <1>5, <2>1, <2>2, <2>3, <3>1 DEF TopOnly
<1>6. CASE ~Opens(file[i]) /\ file[i].head \notin Closers
  <2>1. q = p
    BY <1>0, <1>6
  <2>2. file[i].head = "ELSE" => p # <<>> /\ p[Len(p)][1] = "IF"
    BY <1>0, <1>6
  <2> QED
    BY <1>3, <1>6, <2>1, <2>2 DEF TopOnly
<1> QED
  BY <1>4, <1>5, <1>6

(* What the scan never comes down to stays as it was.                      *)
LEMMA Beneath ==
  ASSUME NEW file, Len(file) \in Nat, NEW a \in 0..Len(file), NEW b \in a..Len(file), NEW d \in Nat,
         Scanned(file)[b].error = Null,
         \A m \in a..b : d <= Len(Scanned(file)[m].open)
  PROVE  \A m \in a..b : \A x \in 1..d : Scanned(file)[m].open[x] = Scanned(file)[a].open[x]
<1> DEFINE Open(m) == Scanned(file)[m].open
           M == {n \in Nat : a + n <= b => \A x \in 1..d : Open(a + n)[x] = Open(a)[x]}
<1>1. 0 \in M
  OBVIOUS
<1>2. ASSUME NEW n \in Nat, n \in M PROVE n + 1 \in M
  <2> SUFFICES ASSUME a + (n + 1) <= b, NEW x \in 1..d PROVE Open(a + (n + 1))[x] = Open(a)[x]
    OBVIOUS
  <2> DEFINE i == a + (n + 1)
  <2>1. i \in 1..Len(file) /\ i - 1 = a + n /\ i \in 0..b /\ i \in a..b /\ i - 1 \in a..b /\ b \in 0..Len(file)
    OBVIOUS
  <2>2. Open(a + n)[x] = Open(a)[x]
    BY <1>2, <2>1
  <2> HIDE DEF i
  <2>3. Scanned(file)[i].error = Null
    BY <2>1, NoErrorBefore
  <2>4. /\ Len(Open(i - 1)) \in Nat /\ Len(Open(i)) \in Nat
        /\ \A y \in 1..Len(Open(i - 1)) : y <= Len(Open(i)) => Open(i)[y] = Open(i - 1)[y]
    <3>1. TopOnly(Scanned(file)[i - 1].open, file[i], i, Scanned(file)[i].open)
      BY <2>1, <2>3, OpenAtTop
    <3> QED
      BY <3>1 DEF TopOnly
  <2>5. d <= Len(Open(i - 1)) /\ d <= Len(Open(i))
    BY <2>1
  <2> HIDE DEF Open
  <2>6. Open(i)[x] = Open(i - 1)[x]
    BY <2>4, <2>5
  <2> QED
    BY <2>1, <2>2, <2>6 DEF i
<1> HIDE DEF M
<1>3. Nat \subseteq M
  BY <1>1, <1>2, SetInduction
<1> SUFFICES ASSUME NEW m \in a..b PROVE \A x \in 1..d : Open(m)[x] = Open(a)[x]
  OBVIOUS
<1>4. m - a \in Nat /\ a + (m - a) = m /\ m <= b
  OBVIOUS
<1>5. m - a \in M
  BY <1>3, <1>4
<1> HIDE DEF Open
<1> QED
  BY <1>4, <1>5 DEF M

(* A list of blocks, an ELSE at the same depth, and another list.          *)
Split(file, i, j) ==
  \E e \in i..j : /\ file[e].head = "ELSE"
                  /\ Len(Scanned(file)[e - 1].open) = Len(Scanned(file)[i - 1].open)
                  /\ Listed(file, i, e - 1) /\ Listed(file, e + 1, j)

(* A span without an error that ends where it began and comes down no      *)
(* further is a list of blocks, but for ELSE lines of an IF around it.     *)
LEMMA SpansAreLists ==
  ASSUME NEW file, Len(file) \in Nat, ~SecondElse(file), DOMAIN file = 1..Len(file)
  PROVE  \A i \in 1..Len(file) + 1, j \in 0..Len(file) :
           /\ i <= j + 1 /\ Scanned(file)[j].error = Null
           /\ Len(Scanned(file)[j].open) = Len(Scanned(file)[i - 1].open)
           /\ \A m \in (i - 1)..j : Len(Scanned(file)[i - 1].open) <= Len(Scanned(file)[m].open)
           => Listed(file, i, j) \/ Split(file, i, j)
<1> DEFINE N == Len(file)
           Fine(m) == Scanned(file)[m].error = Null
           Open(m) == Scanned(file)[m].open
           Level(i, j) == /\ i <= j + 1 /\ Fine(j) /\ Len(Open(j)) = Len(Open(i - 1))
                          /\ \A m \in (i - 1)..j : Len(Open(i - 1)) <= Len(Open(m))
           P(n) == \A i \in 1..N + 1, j \in 0..N :
                     Level(i, j) /\ j - i < n => Listed(file, i, j) \/ Split(file, i, j)
           M == {n \in Nat : P(n)}
<1>1. ASSUME NEW m \in 0..N PROVE Len(Open(m)) \in Nat
  <2>1. Open(m) \in Seq(Openers \X Nat)
    BY ScanTypes DEF ScanState
  <2> HIDE DEF Open
  <2> QED
    BY <2>1
<1>2. ASSUME NEW j \in 0..N, Fine(j), NEW i \in 1..j
      PROVE  LET p == Open(i - 1)
                 q == Open(i)
             IN  /\ Fine(i)
                 /\ Opens(file[i]) => Len(q) = Len(p) + 1 /\ q[Len(q)] = <<file[i].head, i>>
                 /\ file[i].head = "ELSE" => Len(q) = Len(p) /\ Len(p) > 0 /\ p[Len(p)][1] = "IF"
                 /\ ~Opens(file[i]) /\ file[i].head \in Closers =>
                      Len(q) = Len(p) - 1 /\ Len(p) > 0 /\ file[i].head = Closer(p[Len(p)][1])
                 /\ ~Opens(file[i]) /\ file[i].head \notin Closers \cup {"ELSE"} => Len(q) = Len(p)
  <2>1. i \in 0..j /\ i \in 1..N
    OBVIOUS
  <2>2. Fine(i)
    BY <1>2, <2>1, NoErrorBefore
  <2>3. TopOnly(Scanned(file)[i - 1].open, file[i], i, Scanned(file)[i].open)
    BY <2>1, <2>2, OpenAtTop
  <2> QED
    BY <2>2, <2>3 DEF TopOnly
<1>3. ASSUME NEW i \in 1..N + 1, NEW j \in 0..N, i > j PROVE Listed(file, i, j)
  BY <1>3, ListsAre
<1>4. ASSUME NEW i \in 1..N, NEW j \in i..N, ~Opens(file[i]), file[i].head \notin Closers \cup {"ELSE"},
             NEW b \in i..j, Listed(file, i + 1, b)
      PROVE  Listed(file, i, b)
  <2>1. i \in 1..N + 1 /\ b \in 0..N
    OBVIOUS
  <2>2. \A a \in 1..N + 1, c \in 0..N :
           ~Opens(file[a]) /\ file[a].head \notin Closers \cup {"ELSE"} /\ Listed(file, a + 1, c) => Listed(file, a, c)
    BY ListsAre
  <2> HIDE DEF N
  <2> QED
    BY <1>4, <2>1, <2>2
<1> HIDE DEF Fine, Open
<1>5. 0 \in M
  <2> SUFFICES ASSUME NEW i \in 1..N + 1, NEW j \in 0..N, j - i < 0 PROVE Listed(file, i, j)
    OBVIOUS
  <2>1. i > j
    OBVIOUS
  <2> QED
    BY <1>3, <2>1
<1>6. ASSUME NEW n \in Nat, n \in M PROVE n + 1 \in M
  <2>1. P(n)
    BY <1>6
  <2> SUFFICES ASSUME NEW i \in 1..N + 1, NEW j \in 0..N, Level(i, j), j - i < n + 1
               PROVE  Listed(file, i, j) \/ Split(file, i, j)
    OBVIOUS
  <2> DEFINE d == Len(Open(i - 1))
  <2>2. CASE i > j
    BY <1>3, <2>2
  <2>3. CASE i <= j
    <3>1. i \in 1..N /\ i + 1 \in 1..N + 1 /\ j \in i..N /\ i \in 1..j /\ (i + 1) - 1 = i /\ j - (i + 1) < n
      BY <2>3
    <3>2. Fine(j) /\ Len(Open(j)) = d /\ \A m \in i..j : d <= Len(Open(m))
      BY <2>3
    <3>3. d \in Nat
      BY <1>1, <3>1
    <3>4. CASE Len(Open(i)) = d
      <4>1. Level(i + 1, j)
        BY <3>1, <3>2, <3>4
      <4>2. Listed(file, i + 1, j) \/ Split(file, i + 1, j)
        BY <2>1, <3>1, <4>1
      <4>3. CASE file[i].head = "ELSE"
        <5>1. CASE Listed(file, i + 1, j)
          <6>1. Listed(file, i, i - 1)
            BY <1>3, <3>1
          <6> QED
            BY <2>3, <4>3, <5>1, <6>1 DEF Split
        <5>2. CASE Split(file, i + 1, j)
          <6>1. PICK e \in (i + 1)..j : file[e].head = "ELSE" /\ Listed(file, i + 1, e - 1)
            BY <5>2 DEF Split
          <6>2. i < e /\ i \in DOMAIN file /\ e \in DOMAIN file
            BY <3>1
          <6> QED
            BY <4>3, <6>1, <6>2 DEF SecondElse, Listed
        <5> QED
          BY <4>2, <5>1, <5>2
      <4>4. CASE file[i].head # "ELSE"
        <5>1. ~Opens(file[i]) /\ file[i].head \notin Closers \cup {"ELSE"}
          <6> HIDE DEF d
          <6>1. Fine(j) /\ Len(Open(i)) = Len(Open(i - 1)) /\ Len(Open(i)) \in Nat
            BY <3>2, <3>3, <3>4 DEF d
          <6> QED
            BY <1>2, <3>1, <4>4, <6>1
        <5>2. CASE Listed(file, i + 1, j)
          <6>1. i \in 1..N /\ j \in i..N /\ j \in i..j
            BY <3>1
          <6> QED
            BY <1>4, <5>1, <5>2, <6>1
        <5>3. CASE Split(file, i + 1, j)
          <6>1. PICK e \in (i + 1)..j :
                   /\ file[e].head = "ELSE" /\ Len(Open(e - 1)) = Len(Open(i))
                   /\ Listed(file, i + 1, e - 1) /\ Listed(file, e + 1, j)
            BY <3>1, <5>3 DEF Split, Open
          <6>2. Listed(file, i, e - 1)
            <7>1. e - 1 \in i..j
              OBVIOUS
            <7> QED
              BY <1>4, <3>1, <5>1, <6>1, <7>1
          <6>3. Len(Open(e - 1)) = d /\ e \in i..j
            BY <3>4, <6>1
          <6> QED
            BY <6>1, <6>2, <6>3 DEF Split, Open
        <5> QED
          BY <4>2, <5>2, <5>3
      <4> QED
        BY <4>3, <4>4
    <3>5. CASE Len(Open(i)) # d
      <4>1. Opens(file[i]) /\ Len(Open(i)) = d + 1 /\ Open(i)[d + 1] = <<file[i].head, i>>
        <5>1. d <= Len(Open(i))
          BY <3>1, <3>2
        <5> HIDE DEF d
        <5>2. Len(Open(i - 1)) = d
          BY DEF d
        <5> QED
          BY <1>2, <3>1, <3>2, <3>3, <3>5, <5>1, <5>2
      <4>2. i # j
        BY <3>2, <3>5
      <4> DEFINE K == {m \in (i + 1)..j : Len(Open(m)) = d}
      <4>3. K \subseteq Nat /\ j \in K
        BY <3>1, <3>2, <4>2
      <4>4. PICK k \in K : \A m \in K : k <= m
        <5> HIDE DEF K
        <5> QED
          BY <4>3, LeastExists
      <4>5. /\ k \in (i + 1)..j /\ k \in 1..j /\ k \in 1..N /\ Len(Open(k)) = d
            /\ k - 1 \in i..j /\ k - 1 \in 0..N /\ k + 1 \in 1..N + 1
        BY <3>1
      <4>6. ASSUME NEW m \in i..(k - 1) PROVE d + 1 <= Len(Open(m))
        <5>1. d <= Len(Open(m)) /\ Len(Open(m)) \in Nat
          BY <1>1, <3>1, <3>2, <4>5
        <5>2. Len(Open(m)) # d
          <6>1. CASE m = i
            BY <3>5, <6>1
          <6>2. CASE m # i
            <7>1. m \in (i + 1)..j /\ ~(k <= m)
              BY <4>5, <6>2
            <7> QED
              BY <4>4, <7>1
          <6> QED
            BY <6>1, <6>2
        <5> HIDE DEF d
        <5> QED
          BY <3>3, <5>1, <5>2
      <4>7. Fine(k - 1) /\ Fine(k)
        <5>1. k - 1 \in 0..j /\ k \in 0..j
          BY <4>5
        <5> QED
          BY <3>2, <5>1, NoErrorBefore DEF Fine
      (* The line that comes back to where i began closes what i opened.   *)
      <4>8. \A m \in i..(k - 1) : Open(m)[d + 1] = <<file[i].head, i>>
        <5>1. /\ i \in 0..N /\ k - 1 \in i..N /\ d + 1 \in Nat /\ d + 1 \in 1..d + 1
          BY <3>1, <3>3, <4>5
        <5>2. \A m \in i..(k - 1) : d + 1 <= Len(Scanned(file)[m].open)
          BY <4>6 DEF Open
        <5>3. Scanned(file)[k - 1].error = Null
          BY <4>7 DEF Fine
        <5> HIDE DEF d
        <5>4. \A m \in i..(k - 1) : \A x \in 1..d + 1 : Scanned(file)[m].open[x] = Scanned(file)[i].open[x]
          BY <5>1, <5>2, <5>3, Beneath
        <5>5. \A m \in i..(k - 1) : Open(m)[d + 1] = Open(i)[d + 1]
          BY <5>1, <5>4 DEF Open
        <5> QED
          BY <4>1, <5>5
      <4>9. /\ Len(Open(k - 1)) = d + 1 /\ ~Opens(file[k]) /\ file[k].head \in Closers
            /\ file[k].head = Closer(Open(k - 1)[d + 1][1])
        <5>1. d + 1 <= Len(Open(k - 1)) /\ Len(Open(k - 1)) \in Nat
          BY <1>1, <4>5, <4>6
        <5>2. Fine(j) /\ k \in 1..j /\ Len(Open(k)) = d
          BY <3>2, <4>5
        <5> HIDE DEF d, K
        <5>3. Len(Open(k)) < Len(Open(k - 1))
          BY <3>3, <5>1, <5>2
        <5>4. ~Opens(file[k]) /\ file[k].head \in Closers
          BY <1>2, <3>3, <5>1, <5>2, <5>3
        <5>5. Len(Open(k)) = Len(Open(k - 1)) - 1
              /\ file[k].head = Closer(Open(k - 1)[Len(Open(k - 1))][1])
          BY <1>2, <5>2, <5>4
        <5>6. Len(Open(k - 1)) = d + 1
          BY <3>3, <5>1, <5>2, <5>5
        <5> QED
          BY <5>4, <5>5, <5>6
      <4>10. file[k].head = Closer(file[i].head)
        <5>1. Open(k - 1)[d + 1] = <<file[i].head, i>>
          BY <4>5, <4>8
        <5> QED
          BY <4>9, <5>1
      <4>11. Level(i + 1, k - 1) /\ (k - 1) - (i + 1) < n
        <5>1. i + 1 <= (k - 1) + 1 /\ (k - 1) - (i + 1) < n
          BY <3>1, <4>5
        <5>2. \A m \in ((i + 1) - 1)..(k - 1) : Len(Open((i + 1) - 1)) <= Len(Open(m))
          BY <3>1, <4>1, <4>6
        <5> QED
          BY <3>1, <4>1, <4>7, <4>9, <5>1, <5>2
      <4>12. Listed(file, i + 1, k - 1) \/ Split(file, i + 1, k - 1)
        BY <2>1, <3>1, <4>5, <4>11
      <4>13. Level(k + 1, j) /\ j - (k + 1) < n /\ (k + 1) - 1 = k
        <5>1. k + 1 <= j + 1 /\ j - (k + 1) < n /\ (k + 1) - 1 = k
          BY <3>1, <4>5
        <5>2. \A m \in ((k + 1) - 1)..j : Len(Open((k + 1) - 1)) <= Len(Open(m))
          <6>1. \A m \in k..j : m \in i..j
            BY <4>5
          <6> QED
            BY <3>2, <4>5, <5>1, <6>1
        <5> QED
          BY <3>2, <4>5, <5>1, <5>2
      <4>14. Listed(file, k + 1, j) \/ Split(file, k + 1, j)
        BY <2>1, <4>5, <4>13
      (* Whatever list follows, the structure from i to k begins it.       *)
      <4>15. ASSUME NEW b \in k..j, Listed(file, k + 1, b)
             PROVE  Listed(file, i, b)
        <5>1. k \in (i + 1)..b /\ i \in 1..N + 1 /\ b \in 0..N
          BY <3>1, <4>5
        <5>2. \/ Listed(file, i + 1, k - 1)
              \/ /\ file[i].head = "IF"
                 /\ \E e \in (i + 1)..(k - 1) :
                      file[e].head = "ELSE" /\ Listed(file, i + 1, e - 1) /\ Listed(file, e + 1, k - 1)
          <6>1. CASE Split(file, i + 1, k - 1)
            <7>1. PICK e \in (i + 1)..(k - 1) :
                     /\ file[e].head = "ELSE" /\ Len(Open(e - 1)) = Len(Open(i))
                     /\ Listed(file, i + 1, e - 1) /\ Listed(file, e + 1, k - 1)
              BY <3>1, <6>1 DEF Split, Open
            <7>2. e \in 1..j /\ e - 1 \in i..(k - 1) /\ Len(Open(e - 1)) = d + 1
              <8>1. i \in Int /\ k \in Int /\ j \in Int /\ 1 <= i /\ k <= j
                BY <3>1, <4>5
              <8>2. Len(Open(e - 1)) = d + 1
                BY <4>1, <7>1
              <8>3. e \in (i + 1)..(k - 1)
                BY <7>1
              <8>4. e \in 1..j /\ e - 1 \in i..(k - 1)
                BY <8>1, <8>3
              <8> QED
                BY <8>2, <8>4
            <7>3. Open(e - 1)[Len(Open(e - 1))][1] = "IF"
              BY <1>2, <3>2, <7>1, <7>2
            <7>4. Open(e - 1)[d + 1] = <<file[i].head, i>>
              BY <4>8, <7>2
            <7>5. file[i].head = "IF"
              BY <7>2, <7>3, <7>4
            <7> QED
              BY <7>1, <7>5
          <6> QED
            BY <4>12, <6>1
        <5> QED
          BY <4>1, <4>10, <4>15, <5>1, <5>2, ListsAre
      <4>16. CASE Listed(file, k + 1, j)
        BY <4>5, <4>15, <4>16
      <4>17. CASE Split(file, k + 1, j)
        <5>1. PICK e \in (k + 1)..j :
                 /\ file[e].head = "ELSE" /\ Len(Open(e - 1)) = Len(Open(k))
                 /\ Listed(file, k + 1, e - 1) /\ Listed(file, e + 1, j)
          BY <4>13, <4>17 DEF Split, Open
        <5>2. e - 1 \in k..j /\ e \in i..j /\ Len(Open(e - 1)) = d
          BY <4>5, <5>1
        <5>3. Listed(file, i, e - 1)
          BY <4>15, <5>1, <5>2
        <5> QED
          BY <5>1, <5>2, <5>3 DEF Split, Open
      <4> QED
        BY <4>14, <4>16, <4>17
    <3> QED
      BY <3>4, <3>5
  <2> QED
    BY <2>2, <2>3
<1>7. Nat \subseteq M
  <2> HIDE DEF M
  <2> QED
    BY <1>5, <1>6, SetInduction
<1> SUFFICES ASSUME NEW i \in 1..N + 1, NEW j \in 0..N, Level(i, j)
             PROVE  Listed(file, i, j) \/ Split(file, i, j)
  BY DEF Level, Open, Fine
<1>8. j - i < N + 1 /\ N + 1 \in Nat
  OBVIOUS
<1>9. P(N + 1)
  BY <1>7, <1>8
<1> HIDE DEF Level
<1> QED
  BY <1>8, <1>9

(* Without a structure nothing is ever open, and nothing divides or closes.*)
LEMMA NothingOpens ==
  ASSUME NEW file, Len(file) \in Nat,
         Scanned(file)[Len(file)].error = Null, ~Scanned(file)[Len(file)].structured
  PROVE  \A i \in 1..Len(file) : ~Opens(file[i]) /\ file[i].head \notin Closers \cup {"ELSE"}
<1> DEFINE N == Len(file)
           Open(m) == Scanned(file)[m].open
           B == {m \in Nat : m <= N => ~Scanned(file)[N - m].structured}
           M == {m \in Nat : m <= N => Len(Open(m)) = 0}
<1>1. \A i \in 0..N : Scanned(file)[i].error = Null
  <2>1. N \in 0..Len(file)
    OBVIOUS
  <2> QED
    BY <2>1, NoErrorBefore
<1>2. \A i \in 1..N : i - 1 \in 0..N /\ i \in 0..N
  OBVIOUS
<1>3. Nat \subseteq B
  <2>1. 0 \in B
    OBVIOUS
  <2>2. ASSUME NEW m \in Nat, m \in B PROVE m + 1 \in B
    <3> SUFFICES ASSUME m + 1 <= N PROVE ~Scanned(file)[N - (m + 1)].structured
      OBVIOUS
    <3> DEFINE i == N - m
    <3>1. i \in 1..N /\ i - 1 = N - (m + 1) /\ ~Scanned(file)[i].structured
      BY <2>2
    <3> HIDE DEF i
    <3>2. Scanned(file)[i].structured =
            (Scanned(file)[i - 1].structured \/ (Scanned(file)[i - 1].error = Null /\ Opens(file[i])))
      BY <3>1, ScanFollows
    <3> QED
      BY <3>1, <3>2
  <2> HIDE DEF B
  <2> QED
    BY <2>1, <2>2, SetInduction
<1>4. \A i \in 0..N : ~Scanned(file)[i].structured
  <2> SUFFICES ASSUME NEW i \in 0..N PROVE ~Scanned(file)[i].structured
    OBVIOUS
  <2>1. N - i \in Nat /\ N - i <= N /\ N - (N - i) = i
    OBVIOUS
  <2> QED
    BY <1>3, <2>1 DEF B
<1>5. ASSUME NEW i \in 1..N PROVE ~Opens(file[i])
  <2>1. Scanned(file)[i].structured =
          (Scanned(file)[i - 1].structured \/ (Scanned(file)[i - 1].error = Null /\ Opens(file[i])))
    BY ScanFollows
  <2> QED
    BY <1>1, <1>2, <1>4, <2>1
<1>6. ASSUME NEW i \in 1..N PROVE TopOnly(Open(i - 1), file[i], i, Open(i))
  BY <1>1, <1>2, OpenAtTop
<1> HIDE DEF Open
<1>7. Nat \subseteq M
  <2>1. 0 \in M
    <3>1. Open(0) = <<>>
      BY ScanWalk DEF Open, NewScan
    <3> QED
      BY <3>1
  <2>2. ASSUME NEW m \in Nat, m \in M PROVE m + 1 \in M
    <3> SUFFICES ASSUME m + 1 <= N PROVE Len(Open(m + 1)) = 0
      OBVIOUS
    <3> DEFINE i == m + 1
    <3>1. i \in 1..N /\ Len(Open(i - 1)) = 0
      BY <2>2
    <3> HIDE DEF i
    <3>2. TopOnly(Open(i - 1), file[i], i, Open(i)) /\ ~Opens(file[i])
      BY <1>5, <1>6, <3>1
    <3>3. file[i].head \notin Closers \cup {"ELSE"}
      BY <3>1, <3>2 DEF TopOnly
    <3>4. Len(Open(i)) = 0
      BY <3>1, <3>2, <3>3 DEF TopOnly
    <3> QED
      BY <3>4 DEF i
  <2> HIDE DEF M
  <2> QED
    BY <2>1, <2>2, SetInduction
<1>8. ASSUME NEW i \in 1..N PROVE file[i].head \notin Closers \cup {"ELSE"}
  <2>1. i - 1 \in Nat /\ i - 1 <= N
    OBVIOUS
  <2>2. Len(Open(i - 1)) = 0
    BY <1>7, <2>1 DEF M
  <2> QED
    BY <1>5, <1>6, <2>2 DEF TopOnly
<1> QED
  BY <1>5, <1>8

(* What check_structures says of a file.                                   *)
LEMMA ScanIsExact ==
  ASSUME NEW file, Len(file) \in Nat, DOMAIN file = 1..Len(file),
         \A i \in DOMAIN file : file[i].head \in Openers \cup Closers \cup {"ELSE", Null},
         NEW scan, scan = CheckStructures(file)
  PROVE  /\ GrammarAccepts(file) => scan.error = Null
         /\ scan.error = Null => GrammarAccepts(file) \/ SecondElse(file)
         /\ scan.error = Null /\ ~scan.structured =>
              \A i \in DOMAIN file : file[i].head = Null \/ file[i].goto
<1> DEFINE N == Len(file)
           done == Scanned(file)[N]
<1>1. N \in 0..N /\ 0 \in 0..N /\ 1 \in 1..N + 1 /\ 1 <= N + 1 /\ 1 - 1 = 0
  OBVIOUS
<1>2. done \in ScanState
  BY <1>1, ScanTypes
<1>3. Scanned(file)[0] = NewScan /\ NewScan.error = Null /\ NewScan.open = <<>>
  BY ScanWalk DEF NewScan
<1>4. GrammarAccepts(file) <=> Listed(file, 1, N)
  <2> DEFINE L == Nested(file)
  <2>1. L \in [Spans(file) -> BOOLEAN]
    <3>1. \E f \in [Spans(file) -> BOOLEAN] : f = L
      BY ListsExist DEF Nested
    <3> QED
      BY <3>1
  <2>2. <<1, N>> \in Spans(file)
    BY <1>1 DEF Spans
  <2>3. L[<<1, N>>] \in BOOLEAN
    <3> HIDE DEF L
    <3> QED
      BY <2>1, <2>2
  <2> QED
    BY <2>3 DEF GrammarAccepts, Listed
<1>5. /\ scan.error = Null <=> done.error = Null /\ done.open = <<>>
      /\ scan.structured = done.structured
  <2>1. scan = IF done.error = Null /\ done.open # <<>> THEN [done EXCEPT !.error = Last(done.open)[2]] ELSE done
    BY DEF CheckStructures
  <2>2. DOMAIN done = {"open", "structured", "error"} /\ done.open \in Seq(Openers \X Nat)
    BY <1>2 DEF ScanState
  <2> HIDE DEF done
  <2>3. done.open # <<>> => Last(done.open)[2] # Null
    <3>1. \A X, q : q \in Seq(X) /\ q # <<>> => q[Len(q)] \in X
      OBVIOUS
    <3>2. \A n \in Nat : n # Null
      BY LinesAssumption
    <3> QED
      BY <2>2, <3>1, <3>2 DEF Last
  <2>4. CASE done.error = Null /\ done.open # <<>>
    <3>1. scan = [done EXCEPT !.error = Last(done.open)[2]]
      BY <2>1, <2>4
    <3>2. scan.error = Last(done.open)[2] /\ scan.structured = done.structured
      BY <2>2, <3>1
    <3> QED
      BY <2>3, <2>4, <3>2
  <2>5. CASE ~(done.error = Null /\ done.open # <<>>)
    <3>1. scan = done
      BY <2>1, <2>5
    <3> QED
      BY <2>5, <3>1
  <2> QED
    BY <2>4, <2>5
<1>6. ASSUME Listed(file, 1, N) PROVE scan.error = Null
  <2>1. done.error = Null /\ done.open = Scanned(file)[0].open
    BY <1>1, <1>3, <1>6, ListsLeaveScan
  <2> QED
    BY <1>3, <1>5, <2>1
<1>7. ASSUME scan.error = Null, ~SecondElse(file) PROVE Listed(file, 1, N)
  <2>1. done.error = Null /\ done.open = <<>>
    BY <1>5, <1>7
  <2>2. \A m \in 0..N : Scanned(file)[m].error = Null /\ Len(Scanned(file)[m].open) \in Nat
    <3>1. \A m \in 0..N : Scanned(file)[m].error = Null
      BY <1>1, <2>1, NoErrorBefore
    <3>2. \A s \in ScanState : Len(s.open) \in Nat
      BY DEF ScanState
    <3> QED
      BY <3>1, <3>2, ScanTypes
  <2>3. Len(done.open) = 0 /\ Len(Scanned(file)[0].open) = 0
    BY <1>3, <2>1
  <2>4. \A m \in 0..N : Len(Scanned(file)[0].open) <= Len(Scanned(file)[m].open)
    BY <2>2, <2>3
  <2>5. Listed(file, 1, N) \/ Split(file, 1, N)
    BY <1>1, <1>7, <2>1, <2>3, <2>4, SpansAreLists
  <2>6. CASE Split(file, 1, N)
    <3>1. PICK e \in 1..N : file[e].head = "ELSE" /\ Len(Scanned(file)[e - 1].open) = Len(Scanned(file)[0].open)
      BY <1>1, <2>6 DEF Split
    <3>2. Scanned(file)[e].error = Null /\ e \in 0..N
      BY <2>2
    <3>3. TopOnly(Scanned(file)[e - 1].open, file[e], e, Scanned(file)[e].open)
      BY <3>2, OpenAtTop
    <3> QED
      BY <2>3, <3>1, <3>3 DEF TopOnly
  <2> QED
    BY <2>5, <2>6
<1>8. ASSUME scan.error = Null, ~scan.structured, NEW i \in DOMAIN file
      PROVE  file[i].head = Null \/ file[i].goto
  <2>1. done.error = Null /\ ~done.structured
    BY <1>5, <1>8
  <2>2. ~Opens(file[i]) /\ file[i].head \notin Closers \cup {"ELSE"}
    BY <2>1, NothingOpens
  <2> QED
    BY <2>2 DEF Opens
<1> QED
  BY <1>4, <1>6, <1>7, <1>8

(* Of every file of every input, in whatever order the files come.         *)
THEOREM ScanHolds == Spec => []ScanExact
<1>1. Init => Sound(grammar)
  <2> SUFFICES ASSUME Init PROVE Sound(grammar)
    OBVIOUS
  <2>1. PICK files \in Inputs : grammar = NewRun(files, FALSE)
    BY DEF Init
  <2> QED
    BY <2>1, SoundStart
<1>2. Sound(grammar) /\ [Next]_vars => Sound(grammar)'
  <2> SUFFICES ASSUME Sound(grammar), [Next]_vars PROVE Sound(grammar')
    OBVIOUS
  <2>1. grammar' = grammar \/ (grammar.status = "running" /\ Step(grammar, grammar'))
    BY DEF Next, GrammarStep, vars
  <2> QED
    BY <2>1, StepMoves
<1>3. Sound(grammar) => ScanExact
  <2> SUFFICES ASSUME Sound(grammar)
               PROVE  LET p    == Program(grammar)
                          scan == CheckStructures(p)
                      IN  /\ GrammarAccepts(p) => scan.error = Null
                          /\ scan.error = Null => GrammarAccepts(p) \/ SecondElse(p)
                          /\ scan.error = Null /\ ~scan.structured =>
                               \A i \in DOMAIN p : p[i].head = Null \/ p[i].goto
    BY DEF ScanExact
  <2> DEFINE p == Program(grammar)
  <2>1. grammar.files \in Inputs /\ grammar.file \in DOMAIN grammar.files /\ p = grammar.files[grammar.file]
    BY DEF Sound, Program
  <2>2. IsSequence(p) /\ \A i \in DOMAIN p : p[i].head \in Openers \cup Closers \cup {"ELSE", Null}
    BY <2>1, InputsAssumption
  <2> HIDE DEF p
  <2>3. Len(p) \in Nat /\ DOMAIN p = 1..Len(p)
    BY <2>2 DEF IsSequence
  <2> QED
    BY <2>2, <2>3, ScanIsExact DEF p
<1> QED
  BY <1>1, <1>2, <1>3, PTL DEF Spec

-----------------------------------------------------------------------------
(* Types.                                                                  *)
Typed(s) == IsState(s) /\ StateOK(s)

LEMMA ColumnFacts ==
  /\ "M" \in Columns /\ Axes \cup Blocks \subseteq Columns
  /\ \A c \in {"M", "T", "call", "comment"} : c \notin Axes \cup Blocks
  /\ \A g \in DOMAIN Vocabulary : Vocabulary[g] \notin Axes \cup Blocks \cup {"M"}
<1>1. \A g \in DOMAIN Vocabulary : Vocabulary[g] \in {Vocabulary[h] : h \in DOMAIN Vocabulary}
  OBVIOUS
<1> QED
  BY <1>1, LinesAssumption DEF Columns, Names

LEMMA PutTyped ==
  ASSUME NEW s, Typed(s), NEW c, NEW v, c \in Axes \cup Blocks => v \in Number,
         c = "M" => IsSequence(v) /\ Len(v) \in 1..MCodesPerRow
  PROVE  Typed(Put(s, c, v)) /\ Put(s, c, v).fault = s.fault
<1>1. IsState(Put(s, c, v)) /\ DOMAIN s = StateFields /\ DOMAIN s.row = RowFields
  BY RowUpdatesKeepShape DEF Typed, IsState
<1> DEFINE t == Put(s, c, v)
<1>2. /\ t.axes = s.axes /\ t.translation = s.translation /\ t.symbols = s.symbols /\ t.strings = s.strings
      /\ t.flow = s.flow /\ t.fault = s.fault /\ t.row.line = s.row.line /\ t.row.changes = s.row.changes
      /\ t.row.cells = [s.row.cells EXCEPT ![c] = v]
  BY <1>1 DEF Put, StateFields, RowFields
<1> HIDE DEF t
<1>3. DOMAIN t.row.cells = Columns /\ \A k \in Axes \cup Blocks : t.row.cells[k] \in Number
  BY <1>2, ColumnFacts DEF Typed, StateOK
<1>4. LET codes == t.row.cells["M"] IN codes = Null \/ (IsSequence(codes) /\ Len(codes) \in 1..MCodesPerRow)
  BY <1>2, ColumnFacts DEF Typed, StateOK
<1>5. StateOK(t)
  BY <1>2, <1>3, <1>4 DEF Typed, StateOK
<1> QED
  BY <1>1, <1>2, <1>5 DEF t, Typed

LEMMA RecordedTyped ==
  ASSUME NEW s, Typed(s), NEW name \in Names, NEW v \in Int
  PROVE  Typed(Recorded(s, name, v)) /\ Recorded(s, name, v).fault = s.fault
<1>1. IsState(Recorded(s, name, v)) /\ DOMAIN s = StateFields /\ DOMAIN s.row = RowFields
  BY RowUpdatesKeepShape DEF Typed, IsState
<1> DEFINE t == Recorded(s, name, v)
<1>2. /\ t.axes = s.axes /\ t.translation = s.translation /\ t.symbols = s.symbols /\ t.strings = s.strings
      /\ t.flow = s.flow /\ t.fault = s.fault /\ t.row.line = s.row.line /\ t.row.cells = s.row.cells
      /\ t.row.changes = Append(s.row.changes, <<name, v>>)
  BY <1>1 DEF Recorded, StateFields, RowFields
<1> HIDE DEF t
<1>3. t.row.changes \in Seq(Names \X Int)
  BY <1>2 DEF Typed, StateOK
<1>4. StateOK(t)
  BY <1>2, <1>3 DEF Typed, StateOK
<1> QED
  BY <1>1, <1>2, <1>4 DEF t, Typed

LEMMA TablesTyped ==
  ASSUME NEW s, Typed(s)
  PROVE  /\ \A f \in Faults \cup {Null} : Typed(Fails(s, f)) /\ Fails(s, f).fault = f
         /\ \A a, v : v \in Number => Typed(UpdateAxis(s, a, v)) /\ UpdateAxis(s, a, v).fault = s.fault
         /\ \A x, v : v \in Number => Typed([s EXCEPT !.symbols[x] = v]) /\ [s EXCEPT !.symbols[x] = v].fault = s.fault
         /\ \A x, v : v \in Seq(STRING) => Typed([s EXCEPT !.strings[x] = v]) /\ [s EXCEPT !.strings[x] = v].fault = s.fault
         /\ \A q \in [Names -> Number] : Typed([s EXCEPT !.symbols = q]) /\ [s EXCEPT !.symbols = q].fault = s.fault
         /\ \A q \in [Axes -> Int] : Typed([s EXCEPT !.translation = q]) /\ [s EXCEPT !.translation = q].fault = s.fault
         /\ \A q : q.tag \in {"continue", "end", "jump"} => Typed([s EXCEPT !.flow = q]) /\ [s EXCEPT !.flow = q].fault = s.fault
         /\ \A names : Typed(WithZero(s, names)) /\ WithZero(s, names).fault = s.fault
<1> USE DEF Typed
<1>1. DOMAIN s = StateFields
  BY DEF IsState
<1>2. ASSUME NEW f \in Faults \cup {Null}
      PROVE  Typed(Fails(s, f)) /\ Fails(s, f).fault = f
  BY <1>1, <1>2 DEF Fails, StateOK, StateFields, IsState
<1>3. ASSUME NEW a, NEW v \in Number
      PROVE  Typed(UpdateAxis(s, a, v)) /\ UpdateAxis(s, a, v).fault = s.fault
  <2>1. [s.axes EXCEPT ![a] = v] \in [Axes -> Number]
    BY DEF StateOK
  <2> QED
    BY <1>1, <2>1 DEF UpdateAxis, StateOK, StateFields, IsState
<1>4. ASSUME NEW x, NEW v \in Number
      PROVE  Typed([s EXCEPT !.symbols[x] = v]) /\ [s EXCEPT !.symbols[x] = v].fault = s.fault
  <2>1. [s.symbols EXCEPT ![x] = v] \in [Names -> Number]
    BY DEF StateOK
  <2> QED
    BY <1>1, <2>1 DEF StateOK, StateFields, IsState
<1>5. ASSUME NEW x, NEW v \in Seq(STRING)
      PROVE  Typed([s EXCEPT !.strings[x] = v]) /\ [s EXCEPT !.strings[x] = v].fault = s.fault
  <2> DEFINE q == [s.strings EXCEPT ![x] = v]
  <2>1. DOMAIN q = Names /\ \A y \in Names : q[y] = Null \/ q[y] \in Seq(STRING)
    BY DEF StateOK
  <2> HIDE DEF q
  <2>2. [s EXCEPT !.strings[x] = v] = [s EXCEPT !.strings = q]
    BY DEF q
  <2> QED
    BY <1>1, <2>1, <2>2 DEF StateOK, StateFields, IsState
<1>6. ASSUME NEW q \in [Names -> Number]
      PROVE  Typed([s EXCEPT !.symbols = q]) /\ [s EXCEPT !.symbols = q].fault = s.fault
  BY <1>1 DEF StateOK, StateFields, IsState
<1>7. ASSUME NEW q \in [Axes -> Int]
      PROVE  Typed([s EXCEPT !.translation = q]) /\ [s EXCEPT !.translation = q].fault = s.fault
  BY <1>1 DEF StateOK, StateFields, IsState
<1>8. ASSUME NEW q, q.tag \in {"continue", "end", "jump"}
      PROVE  Typed([s EXCEPT !.flow = q]) /\ [s EXCEPT !.flow = q].fault = s.fault
  BY <1>1, <1>8 DEF StateOK, StateFields, IsState
<1>9. ASSUME NEW names
      PROVE  Typed(WithZero(s, names)) /\ WithZero(s, names).fault = s.fault
  <2> DEFINE q == [v \in Names |-> IF v \in names THEN 0 ELSE s.symbols[v]]
  <2>1. q \in [Names -> Number]
    BY DEF StateOK, Number
  <2> HIDE DEF q
  <2>2. WithZero(s, names) = IF names = {} THEN s ELSE [s EXCEPT !.symbols = q]
    BY DEF WithZero, q
  <2> HIDE DEF Typed
  <2> QED
    BY <1>6, <2>1, <2>2
<1> HIDE DEF Typed
<1> QED
  BY <1>2, <1>3, <1>4, <1>5, <1>6, <1>7, <1>8, <1>9

LEMMA RowsTyped ==
  ASSUME NEW s, Typed(s)
  PROVE  /\ \A n \in Nat : Typed(StartRow(s, n)) /\ StartRow(s, n).fault = s.fault
         /\ \A n : Typed(Numbered(s, n)) /\ Numbered(s, n).fault = s.fault
         /\ \A n : Typed(Commented(s, n)) /\ Commented(s, n).fault = s.fault
         /\ Typed([s EXCEPT !.flow = Continue]) /\ Typed([s EXCEPT !.row = NoRow, !.flow = Continue])
<1>1. DOMAIN s = StateFields /\ DOMAIN s.row = RowFields
  BY DEF Typed, IsState
<1>2. Continue.tag = "continue"
  BY DEF Continue
<1> HIDE DEF Continue
<1>3. ASSUME NEW n \in Nat
      PROVE  Typed(StartRow(s, n)) /\ StartRow(s, n).fault = s.fault
         /\ Typed([s EXCEPT !.row = [NoRow EXCEPT !.line = n], !.flow = Continue])
  <2> DEFINE row == [NoRow EXCEPT !.line = n]
  <2>1. /\ DOMAIN row = RowFields /\ row.line = n /\ row.changes = <<>>
        /\ row.cells = [c \in Columns |-> Null]
    BY DEF NoRow, RowFields
  <2>2. /\ row.line \in Nat /\ row.changes \in Seq(Names \X Int)
        /\ DOMAIN row.cells = Columns /\ \A k \in Axes \cup Blocks : row.cells[k] \in Number
        /\ row.cells["M"] = Null
    <3>1. Null \in Number /\ <<>> \in Seq(Names \X Int)
      BY DEF Number
    <3>2. \A c \in Columns : row.cells[c] = Null
      BY <2>1
    <3> HIDE DEF row
    <3> QED
      BY <2>1, <3>1, <3>2, ColumnFacts
  <2> HIDE DEF row
  <2>3. Typed([s EXCEPT !.row = row, !.flow = Continue]) /\ [s EXCEPT !.row = row, !.flow = Continue].fault = s.fault
    BY <1>1, <1>2, <2>1, <2>2 DEF Typed, StateOK, IsState, StateFields
  <2> QED
    BY <2>3 DEF StartRow, row
<1>4. Typed([s EXCEPT !.row = NoRow, !.flow = Continue])
  <2>1. NoRow = [NoRow EXCEPT !.line = 0]
    BY DEF NoRow
  <2> QED
    BY <1>3, <2>1
<1>5. ASSUME NEW n
      PROVE  Typed(Numbered(s, n)) /\ Numbered(s, n).fault = s.fault
  <2> DEFINE t == [s EXCEPT !.row.n = n]
  <2>1. /\ DOMAIN t = StateFields /\ DOMAIN t.row = RowFields
        /\ t.axes = s.axes /\ t.translation = s.translation /\ t.symbols = s.symbols /\ t.strings = s.strings
        /\ t.flow = s.flow /\ t.fault = s.fault /\ t.row.line = s.row.line /\ t.row.cells = s.row.cells
        /\ t.row.changes = s.row.changes
    BY <1>1 DEF StateFields, RowFields
  <2> HIDE DEF t
  <2>2. Typed(t) /\ t.fault = s.fault
    BY <2>1 DEF Typed, StateOK, IsState
  <2> QED
    BY <2>2 DEF Numbered, t
<1>6. ASSUME NEW n
      PROVE  Typed(Commented(s, n)) /\ Commented(s, n).fault = s.fault
  <2>1. "comment" \notin Axes \cup Blocks /\ "comment" # "M"
    BY ColumnFacts
  <2> QED
    BY <2>1, PutTyped DEF Commented
<1>7. Typed([s EXCEPT !.flow = Continue])
  BY <1>2, TablesTyped
<1> QED
  BY <1>3, <1>4, <1>5, <1>6, <1>7

LEMMA SequenceIs ==
  ASSUME NEW S, NEW q \in Seq(S)
  PROVE  IsSequence(q)
<1>1. Len(q) \in Nat /\ DOMAIN q = 1..Len(q) /\ q = [i \in 1..Len(q) |-> q[i]]
  OBVIOUS
<1>2. \A i \in 1..Len(q) : q[i] \in Range(q)
  BY <1>1 DEF Range
<1> QED
  BY <1>1, <1>2 DEF IsSequence

LEMMA MCodeTyped ==
  ASSUME NEW s, Typed(s), NEW code
  PROVE  Typed(WithMCode(s, code))
<1> DEFINE there == s.row.cells["M"]
           t     == InsertM(s, code)
<1>1. there = Null \/ (IsSequence(there) /\ Len(there) \in 1..MCodesPerRow)
  BY DEF Typed, StateOK
<1>2. ASSUME there = Null PROVE Typed(t)
  <2>1. IsSequence(<<code>>) /\ Len(<<code>>) = 1
    <3>1. <<code>> \in Seq({code})
      OBVIOUS
    <3> QED
      BY <3>1, SequenceIs
  <2>2. Typed(Put(s, "M", <<code>>))
    BY <2>1, PutTyped, ColumnFacts DEF MCodesPerRow
  <2> QED
    BY <1>2, <2>2 DEF InsertM
<1>3. ASSUME there # Null, Len(there) < MCodesPerRow PROVE Typed(t)
  <2> DEFINE all == Append(there, code)
             S   == Range(there) \cup {code}
  <2>1. there \in Seq(S)
    <3>1. \A X, Y, q : q \in Seq(X) => q \in Seq(X \cup Y)
      OBVIOUS
    <3> QED
      BY <1>1, <1>3, <3>1 DEF IsSequence
  <2>2. all \in Seq(S) /\ Len(all) = Len(there) + 1
    <3> HIDE DEF S, there
    <3>1. code \in S
      BY DEF S
    <3> QED
      BY <2>1, <3>1
  <2>3. IsSequence(all)
    <3> HIDE DEF S, all
    <3> QED
      BY <2>2, SequenceIs
  <2>4. Typed(Put(s, "M", all))
    <3>1. Len(all) \in 1..MCodesPerRow
      <4> HIDE DEF all, there
      <4> QED
        BY <1>1, <1>3, <2>2 DEF MCodesPerRow
    <3> HIDE DEF all
    <3> QED
      BY <2>3, <3>1, PutTyped, ColumnFacts
  <2> QED
    BY <1>3, <2>4 DEF InsertM
<1>4. ASSUME there # Null, ~(Len(there) < MCodesPerRow) PROVE Typed(t)
  <2>1. t = Fails(s, "TooManyMCommands")
    BY <1>4 DEF InsertM
  <2> QED
    BY <2>1, TablesTyped DEF Faults
<1> HIDE DEF t
<1>5. Typed(t)
  BY <1>2, <1>3, <1>4
<1> QED
  BY <1>5, TablesTyped DEF WithMCode, EndProgram, Continue, t

LEMMA FaultOfRange ==
  ASSUME NEW s, NEW t
  PROVE  FaultOf(s, t) \in Faults \cup {Null} /\ (FaultOf(s, t) = Null => Unreadable(s, t) = Null)
<1>1. Unreadable(s, t) \in Faults \cup {Null}
  BY DEF Unreadable, Faults
<1>2. "DivisionByZero" \in Faults /\ "DivisionByZero" # Null
  BY LinesAssumption DEF Faults
<1> QED
  BY <1>1, <1>2 DEF FaultOf

(* Reading stops at the first operand that fails, or nowhere.              *)
LEMMA ReadingTyped ==
  ASSUME NEW s, Typed(s), NEW terms, IsSequence(terms)
  PROVE  /\ Typed(Reading(s, terms))
         /\ Reading(s, terms).fault = Null =>
              s.fault = Null /\ \A i \in DOMAIN terms : FaultOf(s, terms[i]) = Null
         /\ Reading(s, terms).axes = s.axes /\ Reading(s, terms).translation = s.translation
         /\ Reading(s, terms).strings = s.strings
<1> DEFINE stops  == {i \in DOMAIN terms : FaultOf(s, terms[i]) # Null}
           passed == {i \in DOMAIN terms : Unreadable(s, terms[i]) = Null /\ \A j \in stops : i <= j}
           zeroed == {terms[i].name : i \in {k \in passed : /\ terms[k].read = "variable"
                                                             /\ s.symbols[terms[k].name] = Null}}
           t      == WithZero(s, zeroed)
           m      == Min(stops)
<1>1. Reading(s, terms) = IF stops = {} THEN t ELSE Fails(t, FaultOf(s, terms[m]))
  BY DEF Reading
<1>2. stops \subseteq Nat
  BY DEF IsSequence
<1>3. Typed(t) /\ t.fault = s.fault
  <2> HIDE DEF zeroed
  <2> QED
    BY TablesTyped
<1>4. t.axes = s.axes /\ t.translation = s.translation /\ t.strings = s.strings
  <2> HIDE DEF zeroed
  <2> QED
    BY DEF WithZero, Typed, IsState, StateFields
<1>5. ASSUME stops # {}
      PROVE  FaultOf(s, terms[m]) \in Faults /\ FaultOf(s, terms[m]) # Null
  <2>1. m \in stops
    <3>1. \E k \in stops : \A e \in stops : k <= e
      <4> HIDE DEF stops
      <4> QED
        BY <1>2, <1>5, LeastExists
    <3> HIDE DEF stops
    <3> QED
      BY <3>1 DEF Min
  <2> HIDE DEF m
  <2> QED
    BY <2>1, FaultOfRange
<1> HIDE DEF t, m
<1>6. CASE stops = {}
  BY <1>1, <1>3, <1>4, <1>6
<1>7. CASE stops # {}
  <2> DEFINE f == FaultOf(s, terms[m])
  <2> HIDE DEF stops, f
  <2>1. Reading(s, terms) = Fails(t, f) /\ f \in Faults /\ f # Null
    BY <1>1, <1>5, <1>7 DEF f
  <2>2. Typed(Fails(t, f)) /\ Fails(t, f).fault = f
    BY <1>3, <2>1, TablesTyped
  <2>3. Fails(t, f).axes = t.axes /\ Fails(t, f).translation = t.translation /\ Fails(t, f).strings = t.strings
    BY <1>3 DEF Fails, Typed, IsState, StateFields
  <2> QED
    BY <1>4, <2>1, <2>2, <2>3
<1> QED
  BY <1>6, <1>7

LEMMA OperandInt ==
  ASSUME NEW s, Typed(s), NEW t, OperandOK(t)
  PROVE  Operand(s, t) \in Int
<1>1. ASSUME t.read # "number"
      PROVE  Read(s, t) \in Int
  <2>1. CASE t.read = "variable"
    <3>1. s.symbols[t.name] \in Number
      BY <2>1 DEF OperandOK, Typed, StateOK
    <3> QED
      BY <2>1, <3>1 DEF Read, Number
  <2>2. CASE t.read \in {"$AA_IW", "$AA_IM"}
    <3>1. s.axes[t.name] \in Number /\ s.translation[t.name] \in Int
      BY <2>2 DEF OperandOK, Typed, StateOK
    <3> QED
      BY <2>2, <3>1 DEF Read, Number, MachineOf
  <2> QED
    BY <1>1, <2>1, <2>2 DEF OperandOK
<1>2. t.num \in Int
  BY DEF OperandOK
<1>3. \A a, b \in Int : a * b \in Int
  OBVIOUS
<1> QED
  BY <1>1, <1>2, <1>3 DEF Operand

LEMMA ValueInt ==
  ASSUME NEW s, Typed(s), NEW terms, ExpressionOK(terms),
         \A i \in DOMAIN terms : FaultOf(s, terms[i]) = Null
  PROVE  Tiered(terms, Operands(s, terms)) \in Int
<1> DEFINE values == Operands(s, terms)
<1>1. \A i \in DOMAIN terms : values[i] = Operand(s, terms[i]) /\ values[i] \in Int
  BY OperandInt DEF Operands, ExpressionOK
<1>2. ASSUME NEW i \in DOMAIN terms, i > 1, terms[i].op \in {"/", "DIV", "MOD"}
      PROVE  values[i] # 0
  <2>1. CASE terms[i].op = "DIV"
    <3>1. "DivisionByZero" # Null
      BY LinesAssumption DEF Faults
    <3> QED
      BY <1>1, <2>1, <3>1, FaultOfRange DEF FaultOf
  <2>2. CASE terms[i].op \in {"/", "MOD"}
    BY <1>1, <2>2 DEF ExpressionOK, OperandOK, Operand
  <2> QED
    BY <1>2, <2>1, <2>2
<1> HIDE DEF values
<1>3. Tiered(terms, values) \in Int
  BY <1>1, <1>2, ExpressionOperators, TieredInt
<1> QED
  BY <1>3 DEF values

LEMMA EvaluateTyped ==
  ASSUME NEW s, Typed(s), NEW terms, ExpressionOK(terms)
  PROVE  /\ Typed(Evaluate(s, terms).s) /\ Evaluate(s, terms).v \in Int
         /\ Evaluate(s, terms).s.axes = s.axes
<1>1. IsSequence(terms)
  BY DEF ExpressionOK
<1> QED
  BY <1>1, ReadingTyped, ValueInt DEF Evaluate

-----------------------------------------------------------------------------
(* Joining sequences.                                                      *)
LEMMA FlattenIs ==
  ASSUME NEW S, NEW seqs \in Seq(Seq(S)), seqs # <<>>
  PROVE  \E f : /\ FlattenSeq(seqs) = f[Len(seqs)]
                /\ \A i \in 1..Len(seqs) : f[i] = IF i = 1 THEN seqs[i] ELSE f[i - 1] \o seqs[i]
<1> DEFINE n == Len(seqs)
           D == 1..n
           Of(f, i) == IF i = 1 THEN seqs[i] ELSE f[i - 1] \o seqs[i]
           Known(f, m) == f = [i \in D |-> f[i]] /\ \A i \in D : i <= m => f[i] = Of(f, i)
           M == {m \in Nat : \E f : Known(f, m)}
           c == CHOOSE f : f = [i \in D |-> Of(f, i)]
<1>1. n \in Nat /\ Len(seqs) # 0
  OBVIOUS
<1>2. 0 \in M
  <2> DEFINE f == [i \in D |-> 0]
  <2>1. f = [i \in D |-> f[i]] /\ \A i \in D : ~(i <= 0)
    BY <1>1
  <2> HIDE DEF f, D, Of
  <2> QED
    BY <2>1
<1>3. ASSUME NEW m \in Nat, m \in M PROVE m + 1 \in M
  <2>1. PICK f : Known(f, m)
    BY <1>3
  <2> DEFINE g == [i \in D |-> IF i <= m THEN f[i] ELSE Of(f, i)]
  <2>2. g = [i \in D |-> g[i]] /\ \A i \in D : i <= m => g[i] = f[i]
    <3> HIDE DEF Of
    <3> QED
      OBVIOUS
  <2>3. \A i \in D : i <= m + 1 => g[i] = Of(f, i)
    <3> HIDE DEF Of
    <3> QED
      BY <1>1, <2>1
  <2> HIDE DEF g
  <2>4. ASSUME NEW i \in D, i <= m + 1 PROVE Of(f, i) = Of(g, i)
    <3>1. i # 1 => i - 1 \in D /\ i - 1 <= m
      BY <1>1, <2>4
    <3> QED
      BY <2>2, <3>1
  <2>5. Known(g, m + 1)
    <3> HIDE DEF Of
    <3> QED
      BY <2>2, <2>3, <2>4
  <2> HIDE DEF Known
  <2> QED
    BY <2>5
<1>4. n \in M
  <2> HIDE DEF M, n
  <2> QED
    BY <1>1, <1>2, <1>3, SetInduction
<1>5. PICK f : Known(f, n)
  BY <1>4
<1>6. \A i \in D : f[i] = Of(f, i)
  <2> HIDE DEF Of
  <2> QED
    BY <1>1, <1>5
<1>7. f = [i \in D |-> Of(f, i)]
  <2> HIDE DEF Of
  <2> QED
    BY <1>5, <1>6
<1>8. c = [i \in D |-> Of(c, i)]
  <2> HIDE DEF Of
  <2> QED
    BY <1>7
<1>9. FlattenSeq(seqs) = c[n]
  BY <1>1 DEF FlattenSeq
<1>10. \A i \in D : c[i] = Of(c, i)
  <2> HIDE DEF Of, c
  <2> QED
    BY <1>8
<1> HIDE DEF c
<1> QED
  BY <1>9, <1>10

LEMMA FlattenTyped ==
  ASSUME NEW S, NEW seqs \in Seq(Seq(S))
  PROVE  /\ FlattenSeq(seqs) \in Seq(S)
         /\ \A i \in DOMAIN seqs : Range(seqs[i]) \subseteq Range(FlattenSeq(seqs))
<1> DEFINE n == Len(seqs)
<1>1. n \in Nat /\ DOMAIN seqs = 1..n /\ \A i \in 1..n : seqs[i] \in Seq(S)
  OBVIOUS
<1>2. CASE seqs = <<>>
  <2>1. n = 0 /\ seqs \in Seq(S)
    BY <1>2
  <2>2. FlattenSeq(seqs) = seqs /\ DOMAIN seqs = {}
    BY <1>1, <2>1 DEF FlattenSeq
  <2> QED
    BY <2>1, <2>2
<1>3. CASE seqs # <<>>
  <2>1. PICK f : /\ FlattenSeq(seqs) = f[n]
                 /\ \A i \in 1..n : f[i] = IF i = 1 THEN seqs[i] ELSE f[i - 1] \o seqs[i]
    BY <1>3, FlattenIs
  <2> DEFINE Joined(k) == f[k] \in Seq(S) /\ \A i \in 1..k : Range(seqs[i]) \subseteq Range(f[k])
             M == {k \in Nat : k + 1 <= n => Joined(k + 1)}
  <2>2. 0 \in M
    <3>1. ASSUME 1 <= n PROVE Joined(1)
      <4>1. 1 \in 1..n /\ f[1] = seqs[1]
        BY <1>1, <2>1, <3>1
      <4> QED
        BY <1>1, <4>1
    <3> QED
      BY <3>1
  <2>3. ASSUME NEW k \in Nat, k \in M PROVE k + 1 \in M
    <3> SUFFICES ASSUME k + 2 <= n PROVE Joined(k + 2)
      OBVIOUS
    <3>1. k + 1 \in 1..n /\ k + 2 \in 1..n /\ Joined(k + 1) /\ (k + 2) - 1 = k + 1 /\ k + 2 # 1
      BY <1>1, <2>3
    <3>2. f[k + 2] = f[k + 1] \o seqs[k + 2]
      BY <2>1, <3>1
    <3>3. f[k + 1] \in Seq(S) /\ seqs[k + 2] \in Seq(S)
      BY <1>1, <3>1
    <3>4. \A x, y \in Seq(S) : x \o y \in Seq(S) /\ Range(x) \subseteq Range(x \o y) /\ Range(y) \subseteq Range(x \o y)
      <4> SUFFICES ASSUME NEW x \in Seq(S), NEW y \in Seq(S)
                   PROVE  x \o y \in Seq(S) /\ Range(x) \subseteq Range(x \o y) /\ Range(y) \subseteq Range(x \o y)
        OBVIOUS
      <4> DEFINE z == x \o y
      <4>1. /\ z \in Seq(S) /\ Len(z) = Len(x) + Len(y)
            /\ \A i \in 1..Len(x) : z[i] = x[i]
            /\ \A i \in 1..Len(y) : z[Len(x) + i] = y[i]
        OBVIOUS
      <4>2. Len(x) \in Nat /\ Len(y) \in Nat /\ DOMAIN x = 1..Len(x) /\ DOMAIN y = 1..Len(y) /\ DOMAIN z = 1..Len(z)
        BY <4>1
      <4> HIDE DEF z
      <4>3. Range(x) \subseteq Range(z)
        <5> SUFFICES ASSUME NEW i \in 1..Len(x) PROVE x[i] \in Range(z)
          BY <4>2 DEF Range
        <5>1. i \in DOMAIN z /\ z[i] = x[i]
          BY <4>1, <4>2
        <5> QED
          BY <5>1 DEF Range
      <4>4. Range(y) \subseteq Range(z)
        <5> SUFFICES ASSUME NEW i \in 1..Len(y) PROVE y[i] \in Range(z)
          BY <4>2 DEF Range
        <5>1. Len(x) + i \in DOMAIN z /\ z[Len(x) + i] = y[i]
          BY <4>1, <4>2
        <5> QED
          BY <5>1 DEF Range
      <4> QED
        BY <4>1, <4>3, <4>4 DEF z
    <3>5. \A i \in 1..(k + 2) : i \in 1..(k + 1) \/ i = k + 2
      OBVIOUS
    <3> QED
      BY <3>1, <3>2, <3>3, <3>4, <3>5
  <2>4. n - 1 \in M /\ n - 1 \in Nat
    <3> HIDE DEF M
    <3>1. n - 1 \in Nat
      BY <1>1, <1>3
    <3> QED
      BY <2>2, <2>3, <3>1, SetInduction
  <2>5. Joined(n)
    <3> HIDE DEF Joined
    <3> QED
      BY <1>1, <2>4
  <2> QED
    BY <1>1, <2>1, <2>5
<1> QED
  BY <1>2, <1>3

(* A number prints as a text of one piece.                                 *)
Printable == \A n \in Int : ToString(n) \in STRING

LEMMA TextTyped ==
  ASSUME NEW s, Typed(s), NEW texts, IsSequence(texts), TextOK(texts), Printable
  PROVE  Typed(TextOf(s, texts).s) /\ TextOf(s, texts).v \in Seq(STRING)
<1> DEFINE isText(t) == t.name = Null \/ s.strings[t.name] # Null
           number(t) == IF isText(t) THEN Term("+", "number", Null, 0) ELSE Term("+", "variable", t.name, 1)
           piece(t)  == CASE t.name = Null -> t.literal
                          [] t.name # Null /\ isText(t) -> s.strings[t.name]
                          [] OTHER -> <<ToString(Read(s, number(t)))>>
           numbers == [i \in DOMAIN texts |-> number(texts[i])]
           pieces  == [i \in DOMAIN texts |-> piece(texts[i])]
<1>1. TextOf(s, texts) = [s |-> Reading(s, numbers), v |-> FlattenSeq(pieces)]
  BY DEF TextOf
<1>2. Len(texts) \in Nat /\ DOMAIN texts = 1..Len(texts)
  BY DEF IsSequence
<1>3. IsSequence(numbers)
  <2> DEFINE S == {number(texts[i]) : i \in DOMAIN texts}
  <2>1. numbers \in Seq(S)
    <3> HIDE DEF number
    <3> QED
      BY <1>2
  <2> HIDE DEF S, numbers
  <2> QED
    BY <2>1, SequenceIs
<1>4. ASSUME NEW i \in DOMAIN texts PROVE piece(texts[i]) \in Seq(STRING)
  <2> DEFINE t == texts[i]
  <2>1. CASE t.name = Null
    BY <2>1 DEF TextOK
  <2>2. CASE t.name # Null /\ s.strings[t.name] # Null
    <3>1. t.name \in Names
      BY <2>2 DEF TextOK
    <3> QED
      BY <2>2, <3>1 DEF Typed, StateOK
  <2>3. CASE t.name # Null /\ s.strings[t.name] = Null
    <3>1. t.name \in Names
      BY <2>3 DEF TextOK
    <3>2. number(t) = Term("+", "variable", t.name, 1)
      BY <2>3
    <3>3. Read(s, number(t)) \in Int
      <4>1. s.symbols[t.name] \in Number
        BY <3>1 DEF Typed, StateOK
      <4> QED
        BY <3>2, <4>1 DEF Read, Term, Number
    <3>4. piece(t) = <<ToString(Read(s, number(t)))>>
      BY <2>3
    <3> HIDE DEF number, piece, t
    <3>5. ToString(Read(s, number(t))) \in STRING
      BY <3>3 DEF Printable
    <3>6. <<ToString(Read(s, number(t)))>> \in Seq(STRING)
      BY <3>5
    <3> QED
      BY <3>4, <3>6 DEF t
  <2> QED
    BY <2>1, <2>2, <2>3
<1>5. pieces \in Seq(Seq(STRING))
  <2> HIDE DEF piece
  <2> QED
    BY <1>2, <1>4
<1> HIDE DEF numbers, pieces
<1>6. FlattenSeq(pieces) \in Seq(STRING)
  BY <1>5, FlattenTyped
<1>7. Typed(Reading(s, numbers))
  BY <1>3, ReadingTyped
<1> QED
  BY <1>1, <1>6, <1>7

-----------------------------------------------------------------------------
(* Assignments.                                                            *)
LEMMA StoringTyped ==
  ASSUME NEW s, Typed(s), NEW key
  PROVE  /\ \A text \in Seq(STRING) : Typed(StoredText(s, key, text))
         /\ \A v \in Int : Typed(StoredNumber(s, key, v))
         /\ \A v \in Int : key \in Names => Typed(Emitted(s, key, v))
<1>1. ASSUME NEW text \in Seq(STRING) PROVE Typed(StoredText(s, key, text))
  BY TablesTyped DEF StoredText, Faults
<1>2. ASSUME NEW v \in Int PROVE Typed(StoredNumber(s, key, v))
  BY TablesTyped DEF StoredNumber, Number, Faults
<1>3. ASSUME NEW v \in Int, key \in Names PROVE Typed(Emitted(s, key, v))
  <2>1. CASE key \in Axes
    <3>1. v + s.translation[key] \in Number
      BY <2>1 DEF Typed, StateOK, Number
    <3>2. Emitted(s, key, v) = Put(s, key, v + s.translation[key])
      BY <2>1, LinesAssumption DEF Emitted
    <3> QED
      BY <2>1, <3>1, <3>2, PutTyped, ColumnFacts
  <2>2. CASE key \in Blocks
    <3>1. Emitted(s, key, v) = Put(s, key, v)
      BY <2>2, LinesAssumption DEF Emitted
    <3> QED
      BY <2>2, <3>1, PutTyped, ColumnFacts DEF Number
  <2>3. CASE key \notin Axes \cup Blocks
    BY <1>3, <2>3, RecordedTyped DEF Emitted
  <2> QED
    BY <2>1, <2>2, <2>3
<1> QED
  BY <1>1, <1>2, <1>3

LEMMA TextAssigned ==
  ASSUME NEW s, Typed(s), NEW w, AssignmentOK(w), IsSequence(w.texts), IsText(s, w), Printable
  PROVE  Typed(AssignedText(s, w))
<1> DEFINE r == IF w.texts # <<>> THEN TextOf(s, w.texts) ELSE [s |-> s, v |-> s.strings[w.terms[1].name]]
<1>1. Typed(r.s) /\ r.v \in Seq(STRING)
  <2>1. CASE w.texts # <<>>
    BY <2>1, TextTyped DEF IsText, AssignmentOK
  <2>2. CASE w.texts = <<>>
    <3>1. /\ ExpressionOK(w.terms) /\ Len(w.terms) = 1 /\ w.terms[1].read = "variable"
          /\ s.strings[w.terms[1].name] # Null
      BY <2>2 DEF IsText, AssignmentOK
    <3>2. 1 \in DOMAIN w.terms
      BY <3>1 DEF ExpressionOK, IsSequence
    <3>3. w.terms[1].name \in Names
      BY <3>1, <3>2 DEF ExpressionOK, OperandOK
    <3> QED
      BY <2>2, <3>1, <3>3 DEF Typed, StateOK
  <2> QED
    BY <2>1, <2>2
<1>2. AssignedText(s, w) = IF r.s.fault # Null THEN r.s ELSE StoredText(r.s, w.key, r.v)
  BY DEF AssignedText, After
<1> HIDE DEF r
<1> QED
  BY <1>1, <1>2, StoringTyped

LEMMA NumberTyped ==
  ASSUME NEW s, Typed(s), NEW w, w.tag \in {"address", "set"}, AssignmentOK(w), ~IsText(s, w)
  PROVE  Typed(NumberOf(s, w).s) /\ NumberOf(s, w).v \in Int
<1>1. CASE w.tag = "address"
  BY <1>1 DEF NumberOf, AssignmentOK
<1>2. CASE w.tag = "set"
  <2> DEFINE r == Evaluate(s, w.terms)
  <2>1. ExpressionOK(w.terms)
    BY <1>2 DEF IsText, AssignmentOK
  <2>2. Typed(r.s) /\ r.v \in Int
    BY <2>1, EvaluateTyped
  <2>3. r = [s |-> r.s, v |-> r.v]
    BY DEF Evaluate
  <2>4. NumberOf(s, w) = IF w.inc THEN [r EXCEPT !.v = Incremented(r.s, w.key, @)] ELSE r
    BY <1>2 DEF NumberOf
  <2> HIDE DEF r
  <2>5. Incremented(r.s, w.key, r.v) \in Int
    BY <2>2 DEF Incremented, Local, Typed, StateOK, Number
  <2>6. CASE w.inc
    <3>1. NumberOf(s, w) = [s |-> r.s, v |-> Incremented(r.s, w.key, r.v)]
      BY <2>3, <2>4, <2>6
    <3> QED
      BY <2>2, <2>5, <3>1
  <2> QED
    BY <2>2, <2>4, <2>6
<1> QED
  BY <1>1, <1>2

LEMMA AssignmentTyped ==
  ASSUME NEW s, Typed(s), NEW w, w.tag \in {"address", "set"}, AssignmentOK(w), IsSequence(w.texts), Printable
  PROVE  /\ Typed(Assignment(s, w).s) /\ Assignment(s, w).v \in Int \cup {Null}
         /\ Typed(Assign(s, w))
<1> DEFINE r == NumberOf(s, w)
           q == Stored(r, w.key)
<1>1. CASE IsText(s, w)
  BY <1>1, TextAssigned DEF Assignment, Assign
<1>2. CASE ~IsText(s, w)
  <2>1. Typed(r.s) /\ r.v \in Int
    BY <1>2, NumberTyped
  <2> HIDE DEF r
  <2>2. Typed(q.s) /\ q.v \in Int
    BY <2>1, StoringTyped DEF Stored
  <2>3. Assignment(s, w) = q /\ Assign(s, w) = IF q.s.fault # Null THEN q.s ELSE Emitted(q.s, w.key, q.v)
    BY <1>2 DEF Assignment, Assign, After, r
  <2> HIDE DEF q
  <2>4. w.key \in Names
    BY DEF AssignmentOK
  <2> QED
    BY <2>2, <2>3, <2>4, StoringTyped
<1> QED
  BY <1>1, <1>2

LEMMA OneReplaced ==
  ASSUME NEW S, NEW q \in Seq(S), NEW k, NEW x \in S
  PROVE  [q EXCEPT ![k] = x] \in Seq(S)
<1>1. Len(q) \in Nat /\ q \in [1..Len(q) -> S]
  OBVIOUS
<1>2. [q EXCEPT ![k] = x] \in [1..Len(q) -> S]
  BY <1>1
<1> QED
  BY <1>1, <1>2, SeqDef

LEMMA CharTyped ==
  ASSUME NEW s, Typed(s), NEW w, w.key \in Names, w.num \in Nat, IsSequence(w.texts), TextOK(w.texts), Printable
  PROVE  Typed(CharWrite(s, w))
<1> DEFINE t   == TextOf(s, w.texts).s
           v   == TextOf(s, w.texts).v
           old == s.strings[w.key]
           new == [t.strings[w.key] EXCEPT ![w.num + 1] = v[1]]
           u   == [t EXCEPT !.strings[w.key] = new]
<1>1. Typed(t) /\ v \in Seq(STRING)
  BY TextTyped
<1>2. CharWrite(s, w) = IF t.fault # Null THEN t
                        ELSE CASE old = Null \/ Len(v) # 1 -> Fails(t, "CharWrite")
                               [] old # Null /\ Len(v) = 1 /\ w.num >= Len(old) -> Fails(t, "IndexOutOfRange")
                               [] OTHER -> u
  <2>1. [t EXCEPT !.strings[w.key][w.num + 1] = v[1]] = u
    OBVIOUS
  <2> QED
    BY <2>1 DEF CharWrite, After
<1>3. t.strings = s.strings
  <2> DEFINE number(x) == IF x.name = Null \/ s.strings[x.name] # Null
                          THEN Term("+", "number", Null, 0) ELSE Term("+", "variable", x.name, 1)
             numbers   == [i \in DOMAIN w.texts |-> number(w.texts[i])]
  <2>1. t = Reading(s, numbers)
    BY DEF TextOf
  <2>2. Len(w.texts) \in Nat /\ DOMAIN w.texts = 1..Len(w.texts)
    BY DEF IsSequence
  <2>3. numbers \in Seq({number(w.texts[i]) : i \in DOMAIN w.texts})
    <3> HIDE DEF number
    <3> QED
      BY <2>2
  <2>4. IsSequence(numbers)
    <3> HIDE DEF numbers
    <3> QED
      BY <2>3, SequenceIs
  <2> HIDE DEF numbers, t
  <2> QED
    BY <2>1, <2>4, ReadingTyped
<1> HIDE DEF t, v
<1>4. ASSUME old # Null, Len(v) = 1 PROVE Typed(u)
  <2>1. v[1] \in STRING
    <3>1. 1 \in 1..Len(v)
      BY <1>4
    <3> QED
      BY <1>1, <3>1, ElementOfSeq
  <2>2. t.strings[w.key] \in Seq(STRING)
    BY <1>3, <1>4 DEF Typed, StateOK
  <2>3. new \in Seq(STRING)
    BY <2>1, <2>2, OneReplaced
  <2> HIDE DEF new
  <2> QED
    BY <1>1, <2>3, TablesTyped
<1> HIDE DEF u
<1>5. Typed(Fails(t, "CharWrite")) /\ Typed(Fails(t, "IndexOutOfRange"))
  BY <1>1, TablesTyped DEF Faults
<1> HIDE DEF old
<1> QED
  BY <1>1, <1>2, <1>4, <1>5

-----------------------------------------------------------------------------
(* Folds from the left: FoldLeft takes the greatest index of a set off.    *)
LEMMA MaxFacts ==
  ASSUME NEW m \in Nat
  PROVE  /\ \A t \in SUBSET (1..m) : t # {} => Max(t) \in t
         /\ \A t \in SUBSET (1..m + 1) : m + 1 \in t => Max(t) = m + 1
<1>1. ASSUME NEW t \in SUBSET (1..m), t # {} PROVE Max(t) \in t
  <2> DEFINE D == {m - x : x \in t}
  <2>0. \A x \in t : x \in 1..m
    OBVIOUS
  <2>1. D \subseteq Nat /\ D # {}
    <3>1. \A x \in 1..m : m - x \in Nat
      OBVIOUS
    <3>2. PICK x \in t : TRUE
      BY <1>1
    <3>3. m - x \in D
      OBVIOUS
    <3> QED
      BY <2>0, <3>1, <3>3
  <2>2. PICK d \in D : \A e \in D : d <= e
    <3> HIDE DEF D
    <3> QED
      BY <2>1, LeastExists
  <2>3. PICK x \in t : d = m - x
    BY <2>2
  <2>4. \A y \in t : x >= y
    <3> SUFFICES ASSUME NEW y \in t PROVE x >= y
      OBVIOUS
    <3>1. m - y \in D /\ x \in 1..m /\ y \in 1..m
      BY <2>0
    <3>2. m - x <= m - y
      <4> HIDE DEF D
      <4> QED
        BY <2>2, <2>3, <3>1
    <3> QED
      BY <3>1, <3>2
  <2> QED
    BY <2>4 DEF Max
<1>2. ASSUME NEW t \in SUBSET (1..m + 1), m + 1 \in t PROVE Max(t) = m + 1
  <2>1. \A y \in t : m + 1 >= y /\ y \in Int
    OBVIOUS
  <2>2. \E x \in t : \A y \in t : x >= y
    BY <1>2, <2>1
  <2>3. Max(t) \in t /\ \A y \in t : Max(t) >= y
    BY <2>2 DEF Max
  <2> QED
    <3> DEFINE x == Max(t)
    <3>1. x \in t /\ x >= m + 1
      BY <1>2, <2>3
    <3> HIDE DEF x
    <3>2. m + 1 >= x /\ x \in Int
      BY <2>1, <3>1
    <3>3. x = m + 1
      BY <3>1, <3>2
    <3> QED
      BY <3>3 DEF x
<1> QED
  BY <1>1, <1>2

IsFold(f, base, n, G) ==
  \A t \in SUBSET (1..n) : f[t] = IF t = {} THEN base ELSE G[<<Max(t), f[t \ {Max(t)}]>>]

LEMMA FoldExists ==
  ASSUME NEW V, NEW base \in V, NEW n \in Nat, NEW G \in [(1..n) \X V -> V]
  PROVE  \E f \in [SUBSET (1..n) -> V] : IsFold(f, base, n, G)
<1> DEFINE D == SUBSET (1..n)
           Of(f, t) == IF t = {} THEN base ELSE G[<<Max(t), f[t \ {Max(t)}]>>]
           Known(f, m) == \A t \in D : t \subseteq 1..m => f[t] = Of(f, t)
           M == {m \in Nat : m <= n => \E f \in [D -> V] : Known(f, m)}
<1>1. 0 \in M
  <2> DEFINE f == [t \in D |-> base]
  <2>1. f \in [D -> V]
    OBVIOUS
  <2>2. \A t \in D : t \subseteq 1..0 => t = {} /\ f[t] = base
    OBVIOUS
  <2> HIDE DEF f
  <2>3. Known(f, 0)
    BY <2>2
  <2> HIDE DEF Known
  <2> QED
    BY <2>1, <2>3
<1>2. ASSUME NEW m \in Nat, m \in M PROVE m + 1 \in M
  <2> SUFFICES ASSUME m + 1 <= n PROVE \E f \in [D -> V] : Known(f, m + 1)
    <3> HIDE DEF Known, D
    <3> QED
      OBVIOUS
  <2>1. PICK f \in [D -> V] : Known(f, m)
    <3>1. m <= n
      OBVIOUS
    <3> HIDE DEF Known, D
    <3> QED
      BY <1>2, <3>1
  <2> DEFINE g == [t \in D |-> IF m + 1 \in t THEN G[<<m + 1, f[t \ {m + 1}]>>] ELSE f[t]]
  <2>2. g \in [D -> V]
    <3>1. m + 1 \in 1..n /\ \A t \in D : t \ {m + 1} \in D
      OBVIOUS
    <3> QED
      BY <3>1
  <2>3. \A t \in D : g[t] = IF m + 1 \in t THEN G[<<m + 1, f[t \ {m + 1}]>>] ELSE f[t]
    OBVIOUS
  <2> HIDE DEF g
  <2>4. ASSUME NEW t \in D, t \subseteq 1..m + 1 PROVE g[t] = Of(g, t)
    <3>1. CASE m + 1 \in t
      <4>1. Max(t) = m + 1
        BY <2>4, <3>1, MaxFacts
      <4>2. g[t \ {m + 1}] = f[t \ {m + 1}]
        BY <2>3
      <4> QED
        BY <2>3, <3>1, <4>1, <4>2
    <3>2. CASE m + 1 \notin t
      <4>1. t \subseteq 1..m
        BY <2>4, <3>2
      <4>2. g[t] = Of(f, t)
        BY <2>1, <2>3, <3>2, <4>1
      <4>3. f[t \ {Max(t)}] = g[t \ {Max(t)}]
        BY <2>3, <3>2
      <4> QED
        BY <4>2, <4>3
    <3> QED
      BY <3>1, <3>2
  <2>5. Known(g, m + 1)
    BY <2>4
  <2> HIDE DEF Known
  <2> QED
    BY <2>2, <2>5
<1>3. n \in M
  <2> HIDE DEF M
  <2> QED
    BY <1>1, <1>2, SetInduction
<1>4. PICK f \in [D -> V] : Known(f, n)
  <2> HIDE DEF Known, D
  <2> QED
    BY <1>3
<1>5. \A t \in D : t \subseteq 1..n
  OBVIOUS
<1>6. IsFold(f, base, n, G)
  BY <1>4, <1>5 DEF IsFold
<1> HIDE DEF Known
<1> QED
  BY <1>4, <1>6

LEMMA FoldStays ==
  ASSUME NEW V, NEW n \in Nat, NEW f, f[{}] \in V,
         \A t \in SUBSET (1..n) : t # {} /\ f[t \ {Max(t)}] \in V => f[t] \in V
  PROVE  f[1..n] \in V
<1> DEFINE M == {m \in Nat : m <= n => f[1..m] \in V}
<1>1. 0 \in M
  <2>1. 1..0 = {}
    OBVIOUS
  <2> QED
    BY <2>1
<1>2. ASSUME NEW m \in Nat, m \in M PROVE m + 1 \in M
  <2> SUFFICES ASSUME m + 1 <= n PROVE f[1..m + 1] \in V
    OBVIOUS
  <2>1. m + 1 \in 1..m + 1 /\ (1..m + 1) \ {m + 1} = 1..m /\ 1..m + 1 \in SUBSET (1..n)
    OBVIOUS
  <2>2. Max(1..m + 1) = m + 1
    BY <2>1, MaxFacts
  <2>7. f[1..m] \in V
    <3>1. m <= n
      OBVIOUS
    <3> QED
      BY <1>2, <3>1
  <2> DEFINE t == 1..m + 1
  <2>6. t \in SUBSET (1..n) /\ m + 1 \in t /\ t \ {m + 1} = 1..m /\ Max(t) = m + 1
    BY <2>1, <2>2
  <2> HIDE DEF t
  <2>3. t \in SUBSET (1..n) /\ t # {} /\ t \ {Max(t)} = 1..m
    BY <2>6
  <2>4. f[t \ {Max(t)}] \in V
    BY <2>3, <2>7
  <2>5. f[t] \in V
    BY <2>3, <2>4
  <2> QED
    BY <2>5 DEF t
<1>3. n \in M
  <2> HIDE DEF M
  <2> QED
    BY <1>1, <1>2, SetInduction
<1> QED
  BY <1>3

Offsets == Axes \X Int
Frames  == [Axes -> Int]

LEMMA OffsetsMove ==
  ASSUME NEW w, NEW frame \in Frames, NEW offsets \in Seq(Offsets)
  PROVE  MovedBy(w, frame, offsets) \in Frames
<1> DEFINE n == Len(offsets)
           Moved(q, o) == [q EXCEPT ![o[1]] = IF w.key = "TRANS" THEN o[2] ELSE @ + o[2]]
           Of(f, t) == IF t = {} THEN frame ELSE Moved(f[t \ {Max(t)}], offsets[Max(t)])
           G == [iv \in (1..n) \X Frames |-> Moved(iv[2], offsets[iv[1]])]
           c == CHOOSE f : f = [t \in SUBSET DOMAIN offsets |-> Of(f, t)]
<1>1. n \in Nat /\ DOMAIN offsets = 1..n /\ \A i \in 1..n : offsets[i] \in Offsets
  OBVIOUS
<1>2. \A i \in 1..n, q \in Frames : Moved(q, offsets[i]) \in Frames
  BY <1>1 DEF Frames, Offsets
<1>3. MovedBy(w, frame, offsets) = c[DOMAIN offsets]
  BY DEF MovedBy, FoldLeft, MapThenFoldSet
<1> HIDE DEF Moved
<1>4. G \in [(1..n) \X Frames -> Frames] /\ \A i \in 1..n, q \in Frames : G[<<i, q>>] = Moved(q, offsets[i])
  BY <1>2
<1> HIDE DEF G
<1>5. PICK f \in [SUBSET (1..n) -> Frames] : IsFold(f, frame, n, G)
  <2> HIDE DEF n, c, Of
  <2> QED
    BY <1>1, <1>4, FoldExists
<1>6. \A t \in SUBSET (1..n) : f[t] = Of(f, t)
  <2> SUFFICES ASSUME NEW t \in SUBSET (1..n), t # {}
               PROVE  f[t] = Moved(f[t \ {Max(t)}], offsets[Max(t)])
    BY <1>5 DEF IsFold
  <2>1. Max(t) \in 1..n /\ f[t \ {Max(t)}] \in Frames
    BY <1>1, <1>5, MaxFacts
  <2> QED
    BY <1>4, <1>5, <2>1 DEF IsFold
<1>7. f = [t \in SUBSET DOMAIN offsets |-> Of(f, t)]
  <2> HIDE DEF Of, n
  <2> QED
    BY <1>1, <1>6
<1>8. c = [t \in SUBSET DOMAIN offsets |-> Of(c, t)]
  <2> HIDE DEF Of
  <2> QED
    BY <1>7
<1>9. \A t \in SUBSET (1..n) : c[t] = Of(c, t)
  <2> HIDE DEF Of, c, n
  <2> QED
    BY <1>1, <1>8
<1> HIDE DEF c
<1>10. c[{}] \in Frames
  <2>1. {} \in SUBSET (1..n)
    OBVIOUS
  <2>2. c[{}] = frame
    BY <1>9, <2>1
  <2> QED
    BY <2>2
<1>11. \A t \in SUBSET (1..n) : t # {} /\ c[t \ {Max(t)}] \in Frames => c[t] \in Frames
  <2> SUFFICES ASSUME NEW t \in SUBSET (1..n), t # {}, c[t \ {Max(t)}] \in Frames PROVE c[t] \in Frames
    OBVIOUS
  <2>1. Max(t) \in 1..n
    BY <1>1, MaxFacts
  <2>2. c[t] = Moved(c[t \ {Max(t)}], offsets[Max(t)])
    BY <1>9
  <2> QED
    BY <1>2, <2>1, <2>2
<1>12. c[1..n] \in Frames
  <2> HIDE DEF n, Of
  <2> QED
    BY <1>1, <1>10, <1>11, FoldStays
<1> QED
  BY <1>1, <1>3, <1>12

-----------------------------------------------------------------------------
(* The constant the driver folds a right-hand side into.                   *)
LEMMA FoldConstInt ==
  ASSUME NEW terms, NEW n \in Nat, DOMAIN terms = 1..n,
         \A i \in 1..n : terms[i].num \in Int /\ (terms[i].op = "/" => terms[i].num # 0)
  PROVE  FoldConst(terms) \in Int
<1> DEFINE V == [sum : Int, product : Int]
           value(t) == IF t.neg THEN -t.num ELSE t.num
           On(acc, t) ==
             CASE t.op = "*" -> [acc EXCEPT !.product = @ * value(t)]
               [] t.op = "/" -> [acc EXCEPT !.product = Truncated(@, value(t))]
               [] OTHER -> [sum |-> acc.sum + acc.product, product |-> IF t.op = "-" THEN -value(t) ELSE value(t)]
           none == [sum |-> 0, product |-> 0]
           Of(f, t) == IF t = {} THEN none ELSE On(f[t \ {Max(t)}], terms[Max(t)])
           G == [iv \in (1..n) \X V |-> On(iv[2], terms[iv[1]])]
           c == CHOOSE f : f = [t \in SUBSET DOMAIN terms |-> Of(f, t)]
<1>1. none \in V
  OBVIOUS
<1>2. ASSUME NEW i \in 1..n, NEW q \in V PROVE On(q, terms[i]) \in V
  <2> DEFINE x == value(terms[i])
  <2>1. x \in Int /\ (terms[i].op = "/" => x # 0)
    OBVIOUS
  <2> HIDE DEF x
  <2>2. On(q, terms[i]) =
          CASE terms[i].op = "*" -> [q EXCEPT !.product = @ * x]
            [] terms[i].op = "/" -> [q EXCEPT !.product = Truncated(@, x)]
            [] OTHER -> [sum |-> q.sum + q.product, product |-> IF terms[i].op = "-" THEN -x ELSE x]
    BY DEF x
  <2>3. CASE terms[i].op = "*"
    <3>1. q.product * x \in Int
      BY <2>1
    <3> QED
      BY <2>2, <2>3, <3>1
  <2>4. CASE terms[i].op = "/"
    <3>1. Truncated(q.product, x) \in Int
      BY <2>1, <2>4, TruncatedInt
    <3> QED
      BY <2>2, <2>4, <3>1
  <2>5. CASE terms[i].op \notin {"*", "/"}
    BY <2>1, <2>2, <2>5
  <2> HIDE DEF On
  <2> QED
    BY <2>3, <2>4, <2>5
<1>3. FoldConst(terms) = c[DOMAIN terms].sum + c[DOMAIN terms].product
  BY DEF FoldConst, FoldLeft, MapThenFoldSet
<1> HIDE DEF On, none
<1>4. G \in [(1..n) \X V -> V] /\ \A i \in 1..n, q \in V : G[<<i, q>>] = On(q, terms[i])
  BY <1>2
<1> HIDE DEF G
<1>5. PICK f \in [SUBSET (1..n) -> V] : IsFold(f, none, n, G)
  <2> HIDE DEF c, Of, V
  <2> QED
    BY <1>1, <1>4, FoldExists
<1>6. \A t \in SUBSET (1..n) : f[t] = Of(f, t)
  <2> HIDE DEF V
  <2> SUFFICES ASSUME NEW t \in SUBSET (1..n), t # {}
               PROVE  f[t] = On(f[t \ {Max(t)}], terms[Max(t)])
    BY <1>5 DEF IsFold
  <2>1. Max(t) \in 1..n /\ f[t \ {Max(t)}] \in V
    BY <1>5, MaxFacts
  <2> QED
    BY <1>4, <1>5, <2>1 DEF IsFold
<1> HIDE DEF V
<1>7. f = [t \in SUBSET DOMAIN terms |-> Of(f, t)]
  <2> HIDE DEF Of
  <2> QED
    BY <1>6
<1>8. c = [t \in SUBSET DOMAIN terms |-> Of(c, t)]
  <2> HIDE DEF Of
  <2> QED
    BY <1>7
<1>9. \A t \in SUBSET (1..n) : c[t] = Of(c, t)
  <2> HIDE DEF Of, c
  <2> QED
    BY <1>8
<1> HIDE DEF c
<1>10. c[{}] \in V
  <2>1. {} \in SUBSET (1..n)
    OBVIOUS
  <2>2. c[{}] = none
    BY <1>9, <2>1
  <2> QED
    BY <1>1, <2>2
<1>11. \A t \in SUBSET (1..n) : t # {} /\ c[t \ {Max(t)}] \in V => c[t] \in V
  <2> SUFFICES ASSUME NEW t \in SUBSET (1..n), t # {}, c[t \ {Max(t)}] \in V PROVE c[t] \in V
    OBVIOUS
  <2>1. Max(t) \in 1..n
    BY MaxFacts
  <2>2. c[t] = On(c[t \ {Max(t)}], terms[Max(t)])
    BY <1>9
  <2> QED
    BY <1>2, <2>1, <2>2
<1>12. c[1..n] \in V
  <2> HIDE DEF Of
  <2> QED
    BY <1>10, <1>11, FoldStays
<1> QED
  BY <1>3, <1>12 DEF V

LEMMA ClaimedConstant ==
  ASSUME NEW w, ExpressionOK(w.terms), ClaimsSet(w), ~w.terms[1].paren
  PROVE  FoldConst(SubSeq(w.terms, 1, ValueTerms(w.terms))) \in Int
<1> DEFINE terms == w.terms
           n     == ValueTerms(terms)
           stops == {i \in DOMAIN terms : terms[i].read # "number" \/ terms[i].paren
                                            \/ (i > 1 /\ terms[i].op \notin Arithmetic)}
<1>1. Len(terms) \in Nat /\ DOMAIN terms = 1..Len(terms) /\ terms \in Seq(Range(terms))
  BY DEF ExpressionOK, IsSequence
<1>2. n = IF stops = {} THEN Len(terms) ELSE Min(stops) - 1
  BY DEF ValueTerms, Folded
<1>3. n \in Nat /\ n <= Len(terms)
  <2>1. CASE stops = {}
    BY <1>1, <1>2, <2>1
  <2>2. CASE stops # {}
    <3>1. \E k \in stops : \A e \in stops : k <= e
      <4>1. stops \subseteq Nat
        BY <1>1
      <4> HIDE DEF stops
      <4> QED
        BY <2>2, <4>1, LeastExists
    <3>2. Min(stops) \in stops
      <4> HIDE DEF stops
      <4> QED
        BY <3>1 DEF Min
    <3> DEFINE m == Min(stops)
    <3>3. m \in 1..Len(terms)
      BY <1>1, <3>2
    <3> HIDE DEF stops, n
    <3>4. n = m - 1
      BY <1>2, <2>2
    <3> HIDE DEF m, terms
    <3> QED
      BY <1>1, <3>3, <3>4
  <2> QED
    BY <2>1, <2>2
<1> DEFINE q == SubSeq(terms, 1, n)
<1>4. DOMAIN q = 1..n /\ \A i \in 1..n : q[i] = terms[i] /\ i \in DOMAIN terms
  <2> HIDE DEF n, terms
  <2> QED
    BY <1>1, <1>3
<1>5. \A i \in 1..n : q[i].num \in Int /\ (q[i].op = "/" => q[i].num # 0)
  <2> HIDE DEF n, q
  <2> QED
    BY <1>4 DEF ExpressionOK, OperandOK
<1> HIDE DEF q, n
<1>6. FoldConst(q) \in Int
  BY <1>3, <1>4, <1>5, FoldConstInt
<1> QED
  BY <1>6 DEF q, n

-----------------------------------------------------------------------------
(* Definitions.                                                            *)
LEMMA SetAllTyped ==
  ASSUME NEW s, Typed(s), NEW keys \in Seq(Variables), NEW values \in Seq(Number), Len(values) <= Len(keys)
  PROVE  Typed(SetAll(s, keys, values))
<1> DEFINE given   == {i \in DOMAIN values : values[i] # Null}
           one(i)  == IF i \in given THEN <<<<keys[i], values[i]>>>> ELSE <<>>
           all     == [i \in DOMAIN values |-> one(i)]
           change  == FlattenSeq(all)
           symbols == [v \in Names |-> IF \E i \in given : keys[i] = v
                                       THEN values[CHOOSE i \in given : keys[i] = v] ELSE s.symbols[v]]
           t       == [s EXCEPT !.symbols = symbols, !.row.changes = @ \o change]
<1>1. SetAll(s, keys, values) = t
  BY DEF SetAll
<1>2. Len(values) \in Nat /\ DOMAIN values = 1..Len(values) /\ \A i \in DOMAIN values : values[i] \in Number
  OBVIOUS
<1>3. \A i \in DOMAIN values : keys[i] \in Names
  <2>1. \A i \in DOMAIN values : i \in 1..Len(keys)
    BY <1>2
  <2>2. \A i \in 1..Len(keys) : keys[i] \in Variables
    BY ElementOfSeq
  <2> QED
    BY <2>1, <2>2 DEF Names
<1>4. change \in Seq(Names \X Int)
  <2>1. ASSUME NEW i \in DOMAIN values PROVE one(i) \in Seq(Names \X Int)
    <3>1. CASE i \in given
      <4> DEFINE p == <<keys[i], values[i]>>
      <4>1. p \in Names \X Int
        BY <1>2, <1>3, <3>1 DEF Number
      <4>2. one(i) = <<p>>
        BY <3>1
      <4> HIDE DEF p, one
      <4> QED
        BY <4>1, <4>2
    <3>2. CASE i \notin given
      BY <3>2
    <3> QED
      BY <3>1, <3>2
  <2> HIDE DEF one
  <2>2. all \in Seq(Seq(Names \X Int))
    BY <1>2, <2>1
  <2> HIDE DEF all
  <2> QED
    BY <2>2, FlattenTyped
<1>5. symbols \in [Names -> Number]
  <2> SUFFICES ASSUME NEW v \in Names PROVE symbols[v] \in Number
    OBVIOUS
  <2>1. CASE \E i \in given : keys[i] = v
    <3> DEFINE i == CHOOSE i \in given : keys[i] = v
    <3>1. i \in given
      BY <2>1
    <3>2. symbols[v] = values[i]
      BY <2>1
    <3> HIDE DEF i, symbols
    <3> QED
      BY <1>2, <3>1, <3>2
  <2>2. CASE ~\E i \in given : keys[i] = v
    <3>1. symbols[v] = s.symbols[v] /\ s.symbols[v] \in Number
      BY <2>2 DEF Typed, StateOK
    <3> QED
      BY <3>1
  <2> QED
    BY <2>1, <2>2
<1> HIDE DEF change, symbols
<1>6. DOMAIN s = StateFields /\ DOMAIN s.row = RowFields
  BY DEF Typed, IsState
<1>7. /\ DOMAIN t = StateFields /\ DOMAIN t.row = RowFields
      /\ t.axes = s.axes /\ t.translation = s.translation /\ t.symbols = symbols /\ t.strings = s.strings
      /\ t.flow = s.flow /\ t.fault = s.fault /\ t.row.line = s.row.line /\ t.row.cells = s.row.cells
      /\ t.row.changes = s.row.changes \o change
  BY <1>6 DEF StateFields, RowFields
<1> HIDE DEF t
<1>8. s.row.changes \o change \in Seq(Names \X Int)
  BY <1>4 DEF Typed, StateOK
<1>9. Typed(t)
  BY <1>5, <1>7, <1>8 DEF Typed, StateOK, IsState
<1> QED
  BY <1>1, <1>9

LEMMA ValueArrayTyped ==
  ASSUME NEW s, Typed(s), NEW items, IsSequence(items),
         \A i \in DOMAIN items : IF items[i].tag = "gap" THEN items[i].terms = <<>> ELSE ExpressionOK(items[i].terms)
  PROVE  /\ Typed(ValueArray(s, items).s)
         /\ ValueArray(s, items).s.fault = Null => ValueArray(s, items).v \in Seq(Number)
<1> DEFINE seqs     == [i \in DOMAIN items |-> items[i].terms]
           flat     == FlattenSeq(seqs)
           t        == Reading(s, flat)
           value(w) == IF w.tag = "gap" THEN Null ELSE Tiered(w.terms, Operands(s, w.terms))
           S        == UNION {Range(items[i].terms) : i \in DOMAIN items}
<1>1. /\ ValueArray(s, items).s = t
      /\ t.fault = Null => ValueArray(s, items).v = [i \in DOMAIN items |-> value(items[i])]
  BY DEF ValueArray
<1>2. Len(items) \in Nat /\ DOMAIN items = 1..Len(items)
  BY DEF IsSequence
<1>3. ASSUME NEW i \in DOMAIN items PROVE items[i].terms \in Seq(S)
  <2>1. items[i].terms \in Seq(Range(items[i].terms))
    <3>1. CASE items[i].tag = "gap"
      <4>1. items[i].terms = <<>>
        BY <3>1
      <4>2. \A X : <<>> \in Seq(X)
        OBVIOUS
      <4> QED
        BY <4>1, <4>2, Zenon
    <3>2. CASE items[i].tag # "gap"
      BY <3>2 DEF ExpressionOK, IsSequence
    <3> QED
      BY <3>1, <3>2
  <2>2. Range(items[i].terms) \subseteq S
    OBVIOUS
  <2> DEFINE q == items[i].terms
  <2> HIDE DEF S
  <2>3. \A X, Y, x : x \in Seq(X) /\ X \subseteq Y => x \in Seq(Y)
    OBVIOUS
  <2> QED
    BY <2>1, <2>2, <2>3
<1>4. seqs \in Seq(Seq(S))
  <2> HIDE DEF S
  <2> QED
    BY <1>2, <1>3
<1>5. flat \in Seq(S) /\ \A i \in DOMAIN items : Range(items[i].terms) \subseteq Range(flat)
  <2>1. \A i \in DOMAIN items : seqs[i] = items[i].terms /\ i \in DOMAIN seqs
    OBVIOUS
  <2> HIDE DEF S, seqs
  <2> QED
    BY <1>4, <2>1, FlattenTyped
<1> HIDE DEF flat, S
<1>6. IsSequence(flat)
  BY <1>5, SequenceIs
<1>7. Typed(t)
  BY <1>6, ReadingTyped
<1>8. ASSUME t.fault = Null, NEW i \in DOMAIN items PROVE value(items[i]) \in Number
  <2>1. CASE items[i].tag = "gap"
    BY <2>1 DEF Number
  <2>2. CASE items[i].tag # "gap"
    <3> DEFINE terms == items[i].terms
    <3>1. \A j \in DOMAIN flat : FaultOf(s, flat[j]) = Null
      BY <1>6, <1>8, ReadingTyped
    <3>2. ASSUME NEW k \in DOMAIN terms PROVE FaultOf(s, terms[k]) = Null
      <4>1. terms[k] \in Range(flat)
        BY <1>5 DEF Range
      <4>2. PICK j \in DOMAIN flat : flat[j] = terms[k]
        BY <4>1 DEF Range
      <4> QED
        BY <3>1, <4>2
    <3>3. Tiered(terms, Operands(s, terms)) \in Int
      BY <2>2, <3>2, ValueInt
    <3> QED
      BY <2>2, <3>3 DEF Number
  <2> QED
    BY <2>1, <2>2
<1> HIDE DEF value, t
<1>9. ASSUME t.fault = Null PROVE [i \in DOMAIN items |-> value(items[i])] \in Seq(Number)
  BY <1>2, <1>8, <1>9
<1> QED
  BY <1>1, <1>7, <1>9

LEMMA ElementsTyped ==
  ASSUME NEW w, ArrayOK(w)
  PROVE  ElementsUpTo(w) \in Seq(Variables) /\ Len(ElementsUpTo(w)) = w.num + 1
<1> DEFINE all == Elements[w.key]
           n   == w.num
<1>1. all \in Seq(Variables) /\ n \in Nat /\ n < Len(all)
  BY LinesAssumption DEF ArrayOK
<1> HIDE DEF all, n
<1>2. n + 1 \in 0..Len(all) /\ Len(all) \in Nat
  BY <1>1
<1>3. \A i \in 1..Len(all) : all[i] \in Variables
  BY <1>1, ElementOfSeq
<1>4. SubSeq(all, 1, n + 1) = [i \in 1..n + 1 |-> all[i]]
  BY <1>1, <1>2
<1>5. [i \in 1..n + 1 |-> all[i]] \in Seq(Variables) /\ Len([i \in 1..n + 1 |-> all[i]]) = n + 1
  <2>1. \A i \in 1..n + 1 : all[i] \in Variables
    BY <1>1, <1>2, <1>3
  <2> QED
    BY <1>1, <2>1
<1> QED
  BY <1>4, <1>5 DEF ElementsUpTo, all, n

LEMMA DefineItemTyped ==
  ASSUME NEW s, Typed(s), NEW type, NEW w, IsSequence(w.texts), Printable,
         IF w.tag \in {"array", "multi"} THEN ArrayOK(w) ELSE AssignmentOK(w)
  PROVE  Typed(DefineItem(s, type, w))
<1> DEFINE d    == DefineItem(s, type, w)
           keys == ElementsUpTo(w)
<1>1. ASSUME NEW t, Typed(t), NEW f \in Faults PROVE Typed(Fails(t, f))
  BY <1>1, TablesTyped
<1>2. ASSUME w.tag \in {"array", "multi"} PROVE Typed(d)
  <2>1. keys \in Seq(Variables) /\ Len(keys) = w.num + 1 /\ w.num \in Nat
    BY <1>2, ElementsTyped DEF ArrayOK
  <2>2. CASE w.tag = "array"
    <3> DEFINE zeros == [i \in DOMAIN keys |-> 0]
    <3>1. d = SetAll(s, keys, zeros)
      BY <2>2 DEF DefineItem
    <3> HIDE DEF keys
    <3>2. zeros \in Seq(Number) /\ Len(zeros) = Len(keys)
      <4>1. 0 \in Number
        BY DEF Number
      <4>2. Len(keys) \in Nat /\ DOMAIN keys = 1..Len(keys)
        BY <2>1
      <4> QED
        BY <4>1, <4>2
    <3>3. Len(zeros) <= Len(keys)
      BY <2>1, <3>2
    <3> HIDE DEF zeros, d
    <3> QED
      BY <2>1, <3>1, <3>2, <3>3, SetAllTyped
  <2>3. CASE w.tag = "multi"
    <3> DEFINE r == ValueArray(s, w.items)
    <3>1. Typed(r.s) /\ (r.s.fault = Null => r.v \in Seq(Number))
      BY <1>2, ValueArrayTyped DEF ArrayOK
    <3>2. d = IF r.s.fault # Null THEN r.s
              ELSE IF Len(r.v) > w.num + 1 THEN Fails(r.s, "InvalidElementCount") ELSE SetAll(r.s, keys, r.v)
      BY <2>3 DEF DefineItem, DefineMulti, After
    <3> HIDE DEF r, keys, d
    <3>3. ASSUME r.s.fault = Null, ~(Len(r.v) > w.num + 1) PROVE Typed(SetAll(r.s, keys, r.v))
      <4>1. Len(r.v) <= Len(keys)
        BY <2>1, <3>1, <3>3
      <4> QED
        BY <2>1, <3>1, <3>3, <4>1, SetAllTyped
    <3>4. Typed(Fails(r.s, "InvalidElementCount"))
      BY <1>1, <3>1 DEF Faults
    <3> QED
      BY <3>1, <3>2, <3>3, <3>4
  <2> QED
    BY <1>2, <2>2, <2>3
<1>3. ASSUME w.tag \notin {"array", "multi"} PROVE Typed(d)
  <2>1. AssignmentOK(w) /\ w.key \in Names
    BY <1>3 DEF AssignmentOK
  <2>2. Typed(Fails(s, "AxisUsedAsVariable")) /\ Typed(Fails(s, "ReservedName"))
    BY <1>1 DEF Faults
  <2>3. ASSUME w.tag \in {"address", "set"} PROVE Typed(DefineInitialised(s, type, w))
    <3> DEFINE r == Assignment(s, w)
    <3>1. Typed(r.s) /\ r.v \in Int \cup {Null}
      BY <2>1, <2>3, AssignmentTyped
    <3>2. DefineInitialised(s, type, w) =
            IF r.s.fault # Null THEN r.s
            ELSE CASE (r.v = Null) # (type = "STRING") -> Fails(r.s, "TypeMismatch")
                   [] r.v = Null /\ type = "STRING"    -> r.s
                   [] r.v # Null /\ type # "STRING"    -> Recorded(r.s, w.key, r.v)
      BY DEF DefineInitialised, After
    <3> HIDE DEF r
    <3>3. Typed(Fails(r.s, "TypeMismatch"))
      BY <1>1, <3>1 DEF Faults
    <3>4. ASSUME r.v # Null PROVE Typed(Recorded(r.s, w.key, r.v))
      <4>1. r.v \in Int
        BY <3>1, <3>4
      <4> QED
        BY <2>1, <3>1, <4>1, RecordedTyped
    <3>5. CASE r.v = Null
      BY <3>1, <3>2, <3>3, <3>5
    <3>6. CASE r.v # Null
      BY <3>1, <3>2, <3>3, <3>4, <3>6
    <3> QED
      BY <3>5, <3>6
  <2>4. Typed([s EXCEPT !.strings[w.key] = <<>>])
    <3> DEFINE none == <<>>
    <3>1. none \in Seq(STRING)
      OBVIOUS
    <3> HIDE DEF none
    <3>2. \A x : Typed([s EXCEPT !.strings[x] = none])
      BY <3>1, TablesTyped
    <3> QED
      BY <3>2 DEF none
  <2>5. Typed(Recorded([s EXCEPT !.symbols[w.key] = 0], w.key, 0))
    <3> DEFINE t == [s EXCEPT !.symbols[w.key] = 0]
    <3>1. Typed(t)
      <4>1. 0 \in Number
        BY DEF Number
      <4>2. \A x, v : v \in Number => Typed([s EXCEPT !.symbols[x] = v])
        BY TablesTyped
      <4> QED
        BY <4>1, <4>2
    <3> HIDE DEF t
    <3>2. Typed(Recorded(t, w.key, 0))
      BY <2>1, <3>1, RecordedTyped
    <3> QED
      BY <3>2 DEF t
  <2> QED
    BY <1>3, <2>2, <2>3, <2>4, <2>5 DEF DefineItem
<1> QED
  BY <1>2, <1>3

-----------------------------------------------------------------------------
(* Frame instructions.                                                     *)
LEMMA FrameValuesTyped ==
  ASSUME NEW s, Typed(s), NEW items, Len(items) \in Nat, Printable,
         \A i \in 1..Len(items) :
           items[i].tag \in {"address", "set"} /\ AssignmentOK(items[i]) /\ IsSequence(items[i].texts)
  PROVE  LET r == FrameValues(s, items)
         IN  Typed(r.s) /\ (r.s.fault = Null => r.v \in Seq(Offsets))
<1> DEFINE n == Len(items)
           OK(r) == Typed(r.s) /\ (r.s.fault = Null => r.v \in Seq(Offsets))
<1>1. PICK c : FrameWalk(c, s, items) /\ FrameValues(s, items) = c[n]
  BY FrameWalks
<1>2. \A i \in 0..n : c[i] = IF i = 0 THEN [s |-> s, v |-> <<>>] ELSE FrameNext(c[i - 1], items[i])
  BY <1>1 DEF FrameWalk
<1> DEFINE K == {k \in Nat : k <= n => OK(c[k])}
<1>3. 0 \in K
  <2>1. c[0] = [s |-> s, v |-> <<>>]
    BY <1>2
  <2>2. c[0].s = s /\ c[0].v = <<>> /\ <<>> \in Seq(Offsets)
    BY <2>1
  <2>3. OK(c[0])
    BY <2>2
  <2> HIDE DEF OK
  <2> QED
    BY <2>3
<1>4. ASSUME NEW k \in Nat, k \in K PROVE k + 1 \in K
  <2> SUFFICES ASSUME k + 1 <= n PROVE OK(c[k + 1])
    <3> HIDE DEF OK
    <3> QED
      OBVIOUS
  <2> DEFINE r == c[k]
             w == items[k + 1]
             a == Assignment(r.s, w)
             o == Offset(a, w.key, r.v)
  <2>1. k + 1 \in 0..n /\ k + 1 # 0 /\ (k + 1) - 1 = k /\ k + 1 \in 1..n /\ k <= n
    OBVIOUS
  <2>2. c[k + 1] = IF r.s.fault # Null THEN r ELSE o
    <3>1. c[k + 1] = FrameNext(r, w)
      BY <1>2, <2>1
    <3> QED
      BY <3>1 DEF FrameNext
  <2>3. OK(r)
    <3> HIDE DEF OK
    <3> QED
      BY <1>4, <2>1
  <2>4. Typed(a.s) /\ a.v \in Int \cup {Null}
    <3>1. w.tag \in {"address", "set"} /\ AssignmentOK(w) /\ IsSequence(w.texts)
      BY <2>1
    <3> HIDE DEF r, w
    <3> QED
      BY <2>3, <3>1, AssignmentTyped
  <2>5. a = [s |-> a.s, v |-> a.v]
    BY AssignmentIs
  <2> HIDE DEF r, w, a
  <2>6. Typed(Fails(a.s, "TextInFrame")) /\ Fails(a.s, "TextInFrame").fault # Null
        /\ Typed(Fails(a.s, "UnexpectedAxis")) /\ Fails(a.s, "UnexpectedAxis").fault # Null
    <3>1. "TextInFrame" \in Faults /\ "UnexpectedAxis" \in Faults
      BY DEF Faults
    <3>2. \A f \in Faults : f # Null
      BY LinesAssumption
    <3> DEFINE u == a.s
    <3>3. Typed(u)
      BY <2>4
    <3> HIDE DEF u
    <3>4. \A f \in Faults : Typed(Fails(u, f)) /\ Fails(u, f).fault = f
      BY <3>3, TablesTyped
    <3> QED
      BY <3>1, <3>2, <3>4 DEF u
  <2>7. ASSUME r.s.fault = Null PROVE OK(o)
    <3>1. /\ r.v \in Seq(Offsets)
          /\ a.v # Null /\ w.key \in Axes => Append(r.v, <<w.key, a.v>>) \in Seq(Offsets)
      <4>1. r.v \in Seq(Offsets)
        BY <2>3, <2>7
      <4> DEFINE p == <<w.key, a.v>>
      <4>2. a.v # Null /\ w.key \in Axes => p \in Offsets
        BY <2>4 DEF Offsets
      <4> HIDE DEF p
      <4>3. a.v # Null /\ w.key \in Axes => Append(r.v, p) \in Seq(Offsets)
        BY <4>1, <4>2
      <4> QED
        BY <4>1, <4>3 DEF p
    <3>2. \/ a.s.fault # Null /\ o = a
          \/ a.s.fault = Null /\ o.s = Fails(a.s, "TextInFrame")
          \/ a.s.fault = Null /\ o.s = Fails(a.s, "UnexpectedAxis")
          \/ /\ a.s.fault = Null /\ a.v # Null /\ w.key \in Axes
             /\ o.s = a.s /\ o.v = Append(r.v, <<w.key, a.v>>)
      BY <2>5, OffsetIs
    <3> HIDE DEF o
    <3> QED
      BY <2>4, <2>6, <3>1, <3>2
  <2> HIDE DEF o
  <2> QED
    BY <2>2, <2>3, <2>7
<1>5. n \in K
  <2> HIDE DEF K
  <2> QED
    BY <1>3, <1>4, SetInduction
<1>6. OK(c[n])
  <2> HIDE DEF OK
  <2> QED
    BY <1>5
<1> QED
  BY <1>1, <1>6

LEMMA FrameTyped ==
  ASSUME NEW s, Typed(s), NEW w, Len(w.items) \in Nat, Printable,
         \A i \in 1..Len(w.items) :
           w.items[i].tag \in {"address", "set"} /\ AssignmentOK(w.items[i]) /\ IsSequence(w.items[i].texts)
  PROVE  Typed(Frame(s, w))
<1> DEFINE u == ResetTranslations(s)
           q == IF w.key = "TRANS" THEN u ELSE s
           x == FrameValues(q, w.items)
           r == FrameAssignments(q, w.items)
<1>1. Typed(u) /\ Typed(Fails(s, "UnsupportedStatement"))
  <2>1. [a \in Axes |-> 0] \in [Axes -> Int]
    OBVIOUS
  <2> QED
    BY <2>1, TablesTyped DEF ResetTranslations, Faults
<1>2. Typed(q)
  BY <1>1
<1>3. Typed(x.s) /\ (x.s.fault = Null => x.v \in Seq(Offsets))
  <2> HIDE DEF q
  <2> QED
    BY <1>2, FrameValuesTyped
<1>4. Typed(r.s) /\ r.s.fault = x.s.fault /\ r.v = x.v
  <2> DEFINE axes == IF x.s.fault \in {Null, "TextInFrame", "UnexpectedAxis"} THEN q.axes ELSE x.s.axes
  <2> HIDE DEF q
  <2>1. /\ IsState(r.s) /\ r.s.row = q.row /\ r.s.translation = q.translation /\ r.s.flow = q.flow /\ r.v = x.v
        /\ r.s.symbols = x.s.symbols /\ r.s.strings = x.s.strings /\ r.s.fault = x.s.fault
        /\ r.s.axes = axes
    BY <1>2 DEF FrameAssignments, Typed, IsState, StateFields
  <2> HIDE DEF r, x
  <2>2. axes \in [Axes -> Number]
    BY <1>2, <1>3 DEF Typed, StateOK
  <2> HIDE DEF axes
  <2> QED
    BY <1>2, <1>3, <2>1, <2>2 DEF Typed, StateOK
<1>5. Typed(Translate(s, w))
  <2> DEFINE f == MovedBy(w, r.s.translation, r.v)
  <2>1. Translate(s, w) = IF r.s.fault # Null THEN r.s ELSE [r.s EXCEPT !.translation = f]
    BY DEF Translate, After
  <2>2. r.s.fault = Null => f \in [Axes -> Int]
    <3>1. r.s.translation \in Frames
      BY <1>4 DEF Typed, StateOK, Frames
    <3> HIDE DEF r, x
    <3> QED
      BY <1>3, <1>4, <3>1, OffsetsMove DEF Frames
  <2> HIDE DEF r, f
  <2> QED
    BY <1>4, <2>1, <2>2, TablesTyped
<1> HIDE DEF u, q, x, r
<1>6. Frame(s, w) \in {Translate(s, w), Fails(s, "UnsupportedStatement"), s, u}
  BY DEF Frame, u
<1> QED
  BY <1>1, <1>5, <1>6

-----------------------------------------------------------------------------
(* The words, as the grammar and as the driver read them.                  *)
Written(w) ==
  /\ w.tag \in Tags /\ IsSequence(w.items) /\ IsSequence(w.texts) /\ WordOK(w)
  /\ w.tag = "define" => Len(w.items) = 1
  /\ \A i \in DOMAIN w.items : IsSequence(w.items[i].texts)

LEMMA StatementTyped ==
  ASSUME NEW s, Typed(s), NEW w, Written(w), NEW visible, Printable
  PROVE  Typed(Statement(s, w, visible))
<1> DEFINE t == Statement(s, w, visible)
<1>1. Len(w.items) \in Nat /\ DOMAIN w.items = 1..Len(w.items) /\ IsSequence(w.texts)
  BY DEF Written, IsSequence
<1>2. ASSUME NEW f \in Faults PROVE Typed(Fails(s, f))
  BY TablesTyped
<1>3. CASE w.tag \in {"address", "set"}
  BY <1>3, AssignmentTyped DEF Statement, Written, WordOK
<1>4. CASE w.tag = "char"
  <2>1. t = CharWrite(s, w)
    BY <1>4 DEF Statement
  <2>2. w.key \in Names /\ w.num \in Nat /\ TextOK(w.texts)
    BY <1>4 DEF Written, WordOK
  <2> QED
    BY <1>1, <2>1, <2>2, CharTyped
<1>5. CASE w.tag \in {"g", "bare"}
  <2>1. ASSUME NEW code \in DOMAIN Vocabulary, NEW v PROVE Typed(Put(s, Vocabulary[code], v))
    BY ColumnFacts, PutTyped
  <2>2. \A v : Typed(Put(s, "call", v))
    BY ColumnFacts, PutTyped
  <2>3. Typed(Fails(s, "UnknownGCommand")) /\ Typed(Fails(s, "UnsupportedStatement"))
    BY <1>2 DEF Faults
  <2>4. Typed(GCommand(s, w.key)) /\ Typed(BareWord(s, w.key))
    BY <2>1, <2>2, <2>3 DEF GCommand, BareWord
  <2> QED
    BY <1>5, <2>4 DEF Statement
<1>6. CASE w.tag = "m"
  BY <1>6, MCodeTyped DEF Statement
<1>7. CASE w.tag \in {"args", "tool", "multi"}
  <2>1. t \in {Put(s, "call", w.key), Put(s, "T", w.texts[1].literal), Fails(s, "UnexpectedRule")}
    BY <1>7 DEF Statement
  <2>2. \A v : Typed(Put(s, "call", v)) /\ Typed(Put(s, "T", v))
    BY ColumnFacts, PutTyped
  <2>3. Typed(Fails(s, "UnexpectedRule"))
    BY <1>2 DEF Faults
  <2> HIDE DEF t
  <2> QED
    BY <2>1, <2>2, <2>3 DEF t
<1>8. CASE w.tag = "define"
  <2> DEFINE item == w.items[1]
  <2>1. t = DefineItem(s, w.kw, item)
    BY <1>8 DEF Statement, Define
  <2>2. IsSequence(item.texts)
    BY <1>1, <1>8 DEF Written
  <2>3. IF item.tag \in {"array", "multi"} THEN ArrayOK(item) ELSE AssignmentOK(item)
    BY <1>8 DEF Written, WordOK
  <2> HIDE DEF item
  <2> QED
    BY <2>1, <2>2, <2>3, DefineItemTyped
<1>9. CASE w.tag = "frame"
  <2>1. t = Frame(s, w)
    BY <1>9 DEF Statement
  <2>2. \A i \in 1..Len(w.items) :
          w.items[i].tag \in {"address", "set"} /\ AssignmentOK(w.items[i]) /\ IsSequence(w.items[i].texts)
    BY <1>1, <1>9 DEF Written, WordOK
  <2> QED
    BY <1>1, <2>1, <2>2, FrameTyped
<1>10. CASE w.tag = "jump"
  <2> DEFINE e == Evaluate(s, w.terms).s
             f == [tag |-> "jump", kw |-> w.kw, key |-> w.key]
  <2>1. t \in {s, e, [e EXCEPT !.flow = f]}
    BY <1>10 DEF Statement, Jump, After
  <2>2. Typed(e)
    BY <1>10, EvaluateTyped DEF Written, WordOK
  <2>3. f.tag \in {"continue", "end", "jump"}
    OBVIOUS
  <2> HIDE DEF e, f, t
  <2>4. Typed([e EXCEPT !.flow = f])
    BY <2>2, <2>3, TablesTyped
  <2>5. Typed(t)
    BY <2>1, <2>2, <2>4
  <2> QED
    BY <2>5 DEF t
<1> QED
  BY <1>3, <1>4, <1>5, <1>6, <1>7, <1>8, <1>9, <1>10 DEF Written, Tags

LEMMA DriverAssignTyped ==
  ASSUME NEW s, Typed(s), NEW key \in Names, NEW v \in Int
  PROVE  Typed(DriverAssign(s, key, v))
<1>1. CASE key \in Axes
  <2> DEFINE t == UpdateAxis(s, key, v)
             x == v + s.translation[key]
  <2>1. Typed(t) /\ x \in Number
    <3>1. v \in Number /\ s.translation[key] \in Int
      BY <1>1 DEF Typed, StateOK, Number
    <3> QED
      BY <3>1, TablesTyped DEF Number
  <2>2. DriverAssign(s, key, v) = Put(t, key, x)
    BY <1>1, LinesAssumption DEF DriverAssign
  <2> HIDE DEF t, x
  <2> QED
    BY <1>1, <2>1, <2>2, PutTyped, ColumnFacts
<1>2. CASE key \in Blocks
  <2>1. DriverAssign(s, key, v) = Put(s, key, v)
    BY <1>2, LinesAssumption DEF DriverAssign
  <2> QED
    BY <1>2, <2>1, PutTyped, ColumnFacts DEF Number
<1>3. CASE key \notin Axes \cup Blocks
  <2> DEFINE t == Recorded(s, key, v)
  <2>1. Typed(t) /\ Typed(Fails(s, "StringVariable"))
    BY RecordedTyped, TablesTyped DEF Faults
  <2>2. DriverAssign(s, key, v) \in {Fails(s, "StringVariable"), [t EXCEPT !.symbols[key] = v]}
    BY <1>3 DEF DriverAssign
  <2> HIDE DEF t
  <2>3. Typed([t EXCEPT !.symbols[key] = v])
    BY <2>1, TablesTyped DEF Number
  <2> QED
    BY <2>1, <2>2, <2>3
<1> QED
  BY <1>1, <1>2, <1>3

LEMMA ExecuteTyped ==
  ASSUME NEW s, Typed(s), NEW w, Written(w), ClaimsWord(w)
  PROVE  Typed(Execute(s, w))
<1> DEFINE d == Decoded(w)
           t == Driven(s, d)
<1>1. Typed(t)
  <2>1. CASE w.tag = "address"
    <3>1. t = DriverAssign(s, w.key, w.num)
      BY <2>1 DEF Decoded, Driven, Simple
    <3>2. w.key \in Names /\ w.num \in Int
      BY <2>1 DEF Written, WordOK, AssignmentOK
    <3> QED
      BY <3>1, <3>2, DriverAssignTyped
  <2>2. CASE w.tag = "m"
    <3>1. t = WithMCode(s, w.key)
      BY <2>2 DEF Decoded, Driven, Simple
    <3> QED
      BY <3>1, MCodeTyped
  <2>3. CASE w.tag \in {"g", "bare"}
    <3>1. t = Put(s, "call", w.key) \/ (w.key \in DOMAIN Vocabulary /\ t = Put(s, Vocabulary[w.key], w.key))
      BY <2>3 DEF Decoded, Driven, Simple, ClaimsWord
    <3> HIDE DEF t
    <3> QED
      BY <3>1, PutTyped, ColumnFacts DEF t
  <2>4. CASE w.tag = "set" /\ ~w.terms[1].paren
    <3> DEFINE v == FoldConst(SubSeq(w.terms, 1, ValueTerms(w.terms)))
    <3>1. t = DriverAssign(s, w.key, v)
      BY <2>4 DEF Decoded, Driven, Simple
    <3>2. w.key \in Names /\ ExpressionOK(w.terms) /\ ClaimsSet(w)
      BY <2>4 DEF Written, WordOK, AssignmentOK, ClaimsWord, ClaimsSet
    <3>3. v \in Int
      BY <2>4, <3>2, ClaimedConstant
    <3> HIDE DEF v, t
    <3> QED
      BY <3>1, <3>2, <3>3, DriverAssignTyped DEF t
  <2>5. CASE w.tag = "set" /\ w.terms[1].paren
    <3> DEFINE p == Product(w)
               r == DriverRead(s, p)
               v == IF p.inc /\ Local(r.s, p.key) # Null THEN Local(r.s, p.key) + r.v ELSE r.v
    <3>1. t = IF r.s.fault # Null THEN r.s ELSE DriverAssign(r.s, w.key, v)
      BY <2>5 DEF Decoded, Driven, Product, DriverAssignDynamic, After
    <3>2. w.key \in Names /\ ExpressionOK(w.terms) /\ ClaimsSet(w)
      BY <2>5 DEF Written, WordOK, AssignmentOK, ClaimsWord, ClaimsSet
    <3>3. /\ p.num \in Int /\ p.key = w.key
          /\ p.name # Null => p.name \in Names
      <4>1. 1 \in DOMAIN w.terms
        BY <3>2 DEF ExpressionOK, IsSequence
      <4>2. OperandOK(w.terms[1]) /\ IsProduct(w.terms[1])
        BY <2>5, <3>2, <4>1 DEF ExpressionOK, ClaimsSet
      <4> QED
        BY <4>2 DEF Product, OperandOK, IsProduct
    <3> HIDE DEF p
    <3>4. Typed(r.s) /\ r.v \in Int
      <4>1. CASE p.name = Null
        BY <3>3, <4>1 DEF DriverRead
      <4>2. CASE p.name # Null /\ s.symbols[p.name] # Null
        <5>1. s.symbols[p.name] \in Int
          BY <3>3, <4>2 DEF Typed, StateOK, Number
        <5>2. s.symbols[p.name] * p.num \in Int
          BY <3>3, <5>1
        <5> QED
          BY <4>2, <5>2 DEF DriverRead
      <4>3. CASE p.name # Null /\ s.symbols[p.name] = Null
        <5>1. Typed(WithZero(s, {p.name})) /\ Typed(Fails(s, "UndefinedVariable"))
          BY TablesTyped DEF Faults
        <5>2. 0 * p.num \in Int
          BY <3>3
        <5> QED
          BY <4>3, <5>1, <5>2 DEF DriverRead
      <4> QED
        BY <4>1, <4>2, <4>3
    <3> HIDE DEF r
    <3>5. v \in Int
      BY <3>2, <3>3, <3>4 DEF Local, Typed, StateOK, Number
    <3> HIDE DEF v, t
    <3>6. Typed(DriverAssign(r.s, w.key, v))
      BY <3>2, <3>4, <3>5, DriverAssignTyped
    <3> QED
      BY <3>1, <3>4, <3>6 DEF t
  <2> QED
    BY <2>1, <2>2, <2>3, <2>4, <2>5 DEF ClaimsWord
<1>2. Execute(s, w) = t \/ Execute(s, w) = Put(t, "call", CallBehind(w))
  BY DEF Execute
<1> HIDE DEF t
<1>3. Typed(Put(t, "call", CallBehind(w)))
  BY <1>1, PutTyped, ColumnFacts
<1> QED
  BY <1>1, <1>2, <1>3

-----------------------------------------------------------------------------
(* One run.                                                                *)
LEMMA WordsWritten ==
  ASSUME NEW r, Sound(r), r.line \in 1..Lines(r), NEW i \in 1..Len(Words(r))
  PROVE  Written(Words(r)[i])
<1> DEFINE l == Source(r)
<1>1. /\ l = r.files[r.file][r.line] /\ r.files \in Inputs /\ r.file \in DOMAIN r.files
      /\ r.line \in DOMAIN r.files[r.file]
      /\ DOMAIN l.words = 1..Len(l.words) /\ Len(Words(r)) = Len(l.words)
      /\ Words(r)[i] = l.words[i] \/ Words(r)[i] = GluedWord
  BY WordsAre
<1>2. ASSUME NEW j \in DOMAIN l.words PROVE Written(l.words[j])
  <2> DEFINE w == l.words[j]
  <2>1. w \in WordsOf(r.files)
    BY <1>1, WordIsIn
  <2>2. /\ w.tag \in Tags /\ IsSequence(w.items) /\ (w.tag = "define" => Len(w.items) = 1)
        /\ \A v \in {w} \cup Range(w.items) : IsSequence(v.terms) /\ IsSequence(v.texts)
        /\ WordOK(w)
    BY <1>1, <2>1, InputsAssumption
  <2> HIDE DEF w
  <2>3. \A k \in DOMAIN w.items : w.items[k] \in Range(w.items)
    BY DEF Range
  <2> QED
    BY <2>2, <2>3 DEF Written, w
<1>3. Written(GluedWord)
  BY DEF GluedWord, NoWord, Written, WordOK, Tags, IsSequence, Range
<1> HIDE DEF l
<1> QED
  BY <1>1, <1>2, <1>3

LEMMA DestinationIn ==
  ASSUME NEW r, Lines(r) \in Nat
  PROVE  Destination(r) \in 0..Lines(r)
<1> DEFINE targets == TargetsOf(r, r.state.flow.key)
           ahead   == {i \in targets : i > r.line}
           behind  == {i \in targets : i <= r.line}
<1>1. ahead \subseteq 1..Lines(r) /\ behind \subseteq 1..Lines(r)
  BY DEF TargetsOf
<1>2. Destination(r) = CASE r.state.flow.kw # "GOTOB" /\ ahead # {} -> Min(ahead)
                         [] r.state.flow.kw # "GOTOF" /\ behind # {} /\ (r.state.flow.kw = "GOTOB" \/ ahead = {}) -> Max(behind)
                         [] OTHER -> 0
  BY DEF Destination
<1> HIDE DEF ahead, behind
<1>3. ahead # {} => Min(ahead) \in 1..Lines(r)
  <2> SUFFICES ASSUME ahead # {} PROVE Min(ahead) \in 1..Lines(r)
    OBVIOUS
  <2>1. ahead \subseteq Nat
    BY <1>1
  <2>2. \E k \in ahead : \A e \in ahead : k <= e
    BY <2>1, LeastExists
  <2>3. Min(ahead) \in ahead
    BY <2>2 DEF Min
  <2> QED
    BY <1>1, <2>3
<1>4. behind # {} => Max(behind) \in 1..Lines(r)
  BY <1>1, MaxFacts
<1>5. 0 \in 0..Lines(r) /\ \A x : x \in 1..Lines(r) => x \in 0..Lines(r)
  OBVIOUS
<1> QED
  BY <1>2, <1>3, <1>4, <1>5

TypedRun(r) == Sound(r) /\ Typed(r.state) /\ RunOK(r)

LEMMA TypedStart ==
  ASSUME NEW files \in Inputs, NEW fast
  PROVE  TypedRun(NewRun(files, fast))
<1> DEFINE r == NewRun(files, fast)
<1>1. Sound(r)
  BY SoundStart
<1>2. /\ r.files = files /\ r.file = 1 /\ r.line = 0 /\ r.word = 0 /\ r.jumps = 0 /\ r.state = NewState
      /\ Lines(r) = Len(files[1])
  BY DEF NewRun, Lines, Program
<1>3. 1 \in DOMAIN files /\ Len(files[1]) \in Nat
  BY InputsAssumption DEF IsSequence
<1>4. Typed(NewState)
  <2> DEFINE t == NewState
  <2>1. /\ DOMAIN t = StateFields /\ DOMAIN t.row = RowFields
        /\ t.axes = [a \in Axes |-> Null] /\ t.translation = [a \in Axes |-> 0]
        /\ t.symbols = [v \in Names |-> CASE v = "TRUE" -> 1 [] v = "FALSE" -> 0 [] OTHER -> Null]
        /\ t.strings = [v \in Names |-> Null] /\ t.flow.tag = "continue" /\ t.fault = Null
        /\ t.row.line = 0 /\ t.row.changes = <<>> /\ t.row.cells = [c \in Columns |-> Null]
    BY DEF NewState, NoRow, StateFields, RowFields, Continue
  <2> HIDE DEF t
  <2>2. t.axes \in [Axes -> Number] /\ t.translation \in [Axes -> Int] /\ t.symbols \in [Names -> Number]
    BY <2>1 DEF Number
  <2>3. DOMAIN t.strings = Names /\ \A v \in Names : t.strings[v] = Null
    BY <2>1
  <2>4. /\ t.row.line \in Nat /\ t.row.changes \in Seq(Names \X Int) /\ DOMAIN t.row.cells = Columns
        /\ \A k \in Axes \cup Blocks : t.row.cells[k] \in Number
        /\ t.row.cells["M"] = Null
    BY <2>1, ColumnFacts DEF Number
  <2> QED
    BY <2>1, <2>2, <2>3, <2>4 DEF Typed, IsState, StateOK, t
<1>5. 0 \in 0..Limit /\ 0 \in 0..(Len(files[1]) + 1)
  BY <1>3, LimitAssumption
<1> HIDE DEF r
<1>6. RunOK(r)
  BY <1>2, <1>3, <1>4, <1>5 DEF RunOK, Typed
<1> QED
  BY <1>1, <1>2, <1>4, <1>6 DEF TypedRun, r

LEMMA StepTyped ==
  ASSUME NEW r, NEW n, TypedRun(r), r.status = "running", Step(r, n), Printable
  PROVE  TypedRun(n)
<1> DEFINE s == r.state
           t == n.state
<1>1. /\ DOMAIN r = RunFields /\ r.files \in Inputs /\ r.file \in DOMAIN r.files
      /\ Sound(r) /\ Typed(s) /\ RunOK(r)
  BY DEF TypedRun, Sound
<1>2. Sound(n)
  BY <1>1, StepMoves
<1>3. /\ r.line \in 0..(Lines(r) + 1) /\ r.word \in Nat /\ r.jumps \in 0..Limit
      /\ Lines(r) \in Nat /\ Limit \in Nat
  BY <1>1, InputsAssumption, LimitAssumption DEF RunOK, Lines, Program, IsSequence
<1>4. ASSUME n.files = r.files, n.file = r.file, n.line \in 0..(Lines(r) + 1), n.word \in Nat,
             n.jumps \in 0..Limit, Typed(t)
      PROVE  TypedRun(n)
  <2>1. Lines(n) = Lines(r)
    BY <1>4 DEF Lines, Program
  <2> QED
    BY <1>1, <1>2, <1>4, <2>1 DEF TypedRun, RunOK, Typed
<1>5. CASE BeginFile(r, n)
  <2>1. /\ n.files = r.files /\ n.file = r.file /\ n.word = r.word /\ t = s
        /\ n.line \in {r.line, 1} /\ n.jumps \in {r.jumps, 0}
    BY <1>1, <1>5 DEF BeginFile, RunFields
  <2>2. 1 \in 0..(Lines(r) + 1) /\ 0 \in 0..Limit
    BY <1>3
  <2> QED
    BY <1>1, <1>3, <1>4, <2>1, <2>2
<1>6. CASE StartParsed(r, n) \/ StartDecoded(r, n)
  <2> DEFINE u == StartRow(s, r.line)
  <2>1. /\ n.files = r.files /\ n.file = r.file /\ n.word = 1 /\ n.line = r.line /\ n.jumps = r.jumps
        /\ t \in {Numbered(u, Parsed(r).n), u, [s EXCEPT !.flow = Continue]}
        /\ r.line \in 1..Lines(r)
    BY <1>1, <1>6 DEF StartParsed, StartDecoded, RunFields
  <2>2. r.line \in Nat
    BY <1>3, <2>1
  <2>3. Typed(u)
    BY <1>1, <2>2, RowsTyped
  <2>4. Typed([s EXCEPT !.flow = Continue])
    BY <1>1, RowsTyped
  <2> HIDE DEF u
  <2>5. Typed(Numbered(u, Parsed(r).n))
    BY <2>3, RowsTyped
  <2>6. Typed(t)
    BY <2>1, <2>3, <2>4, <2>5
  <2> QED
    BY <1>3, <1>4, <2>1, <2>6
<1>7. CASE ExecWord(r, n)
  <2> DEFINE w == Words(r)[r.word]
             u == Effect(r, w)
  <2>1. r.line \in 1..Lines(r) /\ r.word \in 1..Len(Words(r))
    BY <1>7 DEF ExecWord
  <2>2. Written(w) /\ (Claimed(r) => ClaimsWord(w))
    BY <1>1, <2>1, WordsWritten, WordsOfLine
  <2>3. Typed(u)
    <3>1. CASE Claimed(r)
      <4>1. u = Execute(s, w)
        BY <3>1 DEF Effect
      <4> HIDE DEF w, u
      <4> QED
        BY <1>1, <2>2, <3>1, <4>1, ExecuteTyped
    <3>2. CASE ~Claimed(r)
      <4>1. u = Statement(s, w, Visible(r))
        BY <3>2 DEF Effect
      <4> HIDE DEF w, u
      <4> QED
        BY <1>1, <2>2, <4>1, StatementTyped
    <3> QED
      BY <3>1, <3>2
  <2>4. /\ n.files = r.files /\ n.file = r.file /\ n.line = r.line /\ n.jumps = r.jumps /\ t = u
        /\ n.word \in {r.word, r.word + 1}
    BY <1>1, <1>7 DEF ExecWord, WordDone, RunFields
  <2>5. r.word + 1 \in Nat
    BY <1>3
  <2> HIDE DEF u
  <2> QED
    BY <1>3, <1>4, <2>3, <2>4, <2>5
<1>8. Typed(Closed(r)) /\ Typed([Closed(r) EXCEPT !.flow = Continue])
  <2> DEFINE x == IF Claimed(r) THEN Numbered(s, Parsed(r).n) ELSE s
  <2>1. Typed(x)
    BY <1>1, RowsTyped
  <2>2. Closed(r) = Commented(x, Parsed(r).comment)
    BY DEF Closed
  <2> HIDE DEF x
  <2>3. Typed(Closed(r))
    <3>1. \A c : Typed(Commented(x, c))
      BY <2>1, RowsTyped
    <3> QED
      BY <2>2, <3>1
  <2> QED
    BY <2>3, RowsTyped
<1>9. CASE EndLine(r, n)
  <2>1. /\ n.files = r.files /\ n.file = r.file /\ n.word = 0 /\ n.jumps = r.jumps /\ t = Closed(r)
        /\ n.line \in {Lines(r) + 1, r.line + 1} /\ r.line \in 1..Lines(r)
    BY <1>1, <1>9 DEF EndLine, AtLineEnd, RunFields
  <2>2. Lines(r) + 1 \in 0..(Lines(r) + 1) /\ r.line + 1 \in 0..(Lines(r) + 1)
    BY <1>3, <2>1
  <2> QED
    BY <1>3, <1>4, <1>8, <2>1, <2>2
<1>10. CASE TakeJump(r, n)
  <2> DEFINE to    == Destination(r)
             taken == IF to <= r.line THEN r.jumps + 1 ELSE r.jumps
             u     == [Closed(r) EXCEPT !.flow = Continue]
  <2>1. to \in 0..Lines(r)
    BY <1>3, DestinationIn
  <2>2. n = CASE to = 0 -> [r EXCEPT !.state = u, !.status = "JumpTargetNotFound"]
              [] to # 0 /\ to <= r.line /\ taken >= Limit -> [r EXCEPT !.state = u, !.status = "LoopLimit"]
              [] OTHER -> [r EXCEPT !.state = u, !.line = to, !.word = 0, !.jumps = taken]
    BY <1>10 DEF TakeJump
  <2> HIDE DEF to, u
  <2>3. /\ n.files = r.files /\ n.file = r.file /\ n.word \in {r.word, 0} /\ t = u
        /\ n.line \in {r.line, to}
        /\ n.jumps = r.jumps \/ (n.jumps = taken /\ ~(to # 0 /\ to <= r.line /\ taken >= Limit) /\ to # 0)
    <3>1. CASE to = 0 \/ (to # 0 /\ to <= r.line /\ taken >= Limit)
      <4>1. \E z : n = [r EXCEPT !.state = u, !.status = z]
        <5> HIDE DEF taken
        <5> QED
          BY <2>2, <3>1
      <4> QED
        BY <1>1, <4>1 DEF RunFields
    <3>2. CASE ~(to = 0 \/ (to # 0 /\ to <= r.line /\ taken >= Limit))
      <4> HIDE DEF taken
      <4>1. n = [r EXCEPT !.state = u, !.line = to, !.word = 0, !.jumps = taken]
        BY <2>2, <3>2
      <4> QED
        BY <1>1, <3>2, <4>1 DEF RunFields
    <3> QED
      BY <3>1, <3>2
  <2>4. n.jumps \in 0..Limit
    <3>1. CASE n.jumps = r.jumps
      BY <1>3, <3>1
    <3>2. CASE n.jumps # r.jumps
      <4>1. n.jumps = r.jumps + 1 /\ ~(r.jumps + 1 >= Limit)
        BY <2>3, <3>2
      <4> QED
        BY <1>3, <4>1
    <3> QED
      BY <3>1, <3>2
  <2>5. n.line \in 0..(Lines(r) + 1) /\ n.word \in Nat
    BY <1>3, <2>1, <2>3
  <2> QED
    BY <1>4, <1>8, <2>3, <2>4, <2>5 DEF u
<1>11. CASE EndFile(r, n)
  <2> DEFINE u == [s EXCEPT !.row = NoRow, !.flow = Continue]
  <2>1. Typed(u)
    BY <1>1, RowsTyped
  <2> HIDE DEF u
  <2>2. /\ n.files = r.files /\ n.file \in DOMAIN r.files /\ n.line = 0 /\ n.word = r.word
        /\ n.jumps = r.jumps /\ t = u
    <3>1. DOMAIN r.files = 1..Len(r.files) /\ Len(r.files) \in Nat
      BY <1>1, InputsAssumption DEF IsSequence
    <3>2. CASE r.file < Len(r.files)
      BY <1>1, <1>11, <3>1, <3>2 DEF EndFile, RunFields, u
    <3>3. CASE ~(r.file < Len(r.files))
      BY <1>1, <1>11, <3>3 DEF EndFile, RunFields, u
    <3> QED
      BY <3>2, <3>3
  <2>3. Lines(n) \in Nat
    BY <1>1, <2>2, InputsAssumption DEF Lines, Program, IsSequence
  <2>4. 0 \in 0..(Lines(n) + 1)
    BY <2>3
  <2>5. n.line \in 0..(Lines(n) + 1) /\ n.file \in DOMAIN n.files /\ n.word \in Nat /\ n.jumps \in 0..Limit
    BY <1>3, <2>2, <2>4
  <2> QED
    BY <1>2, <2>1, <2>2, <2>5 DEF TypedRun, RunOK, Typed
<1> QED
  BY <1>5, <1>6, <1>7, <1>9, <1>10, <1>11 DEF Step

-----------------------------------------------------------------------------
(* On every input the states of both runs keep their types, given that a   *)
(* number is printed as one string: the tables hold numbers and texts for  *)
(* the names they are for and nothing else, an axis column of the row holds*)
(* a number, the M cell at most five codes (insert_m_key), every error is  *)
(* one the interpreter reports, the cursor stays on the program, and the   *)
(* jumps within the limit (InterpreterState, iteration_limit).             *)
THEOREM LinesTyped == Printable => (Spec => []TypeOK)
<1> DEFINE Inv == TypedRun(grammar) /\ TypedRun(driver) /\ departed \in BOOLEAN
<1> SUFFICES ASSUME Printable PROVE Spec => []TypeOK
  OBVIOUS
<1>1. Init => Inv
  BY TypedStart DEF Init
<1>2. Inv /\ [Next]_vars => Inv'
  <2> SUFFICES ASSUME Inv, [Next]_vars PROVE Inv'
    OBVIOUS
  <2>1. CASE UNCHANGED vars
    BY <2>1 DEF vars
  <2>2. CASE Next
    <3>1. TypedRun(grammar')
      BY <2>2, StepTyped DEF Next, GrammarStep
    <3>2. TypedRun(driver')
      BY <2>2, StepTyped DEF Next, DriverStep
    <3>3. departed' \in BOOLEAN
      BY <2>2 DEF Next
    <3> QED
      BY <3>1, <3>2, <3>3
  <2> QED
    BY <2>1, <2>2
<1>3. Inv => TypeOK
  BY DEF TypedRun, TypeOK
<1> QED
  BY <1>1, <1>2, <1>3, PTL DEF Spec
=============================================================================
