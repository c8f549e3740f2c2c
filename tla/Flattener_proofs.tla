-------------------------- MODULE Flattener_proofs --------------------------
(***************************************************************************)
(* Curve flattening (Flattener, flatten.rs), for every kind of row and any *)
(* number of them: rows reach the sink in the order of their blocks, none is *)
(* lost or held back without need, feeds and stated end points survive, and *)
(* the tool path can be read back.                                         *)
(***************************************************************************)
EXTENDS Flattener, NcRows_proofs

-----------------------------------------------------------------------------
(* The inductive invariant: what has been let out follows the rows pushed, *)
(* those an active spline holds back excepted.                             *)

Numbered == \A i \in 1..Len(fed) : fed[i].line = i

LetOut == \E done \in Seq(Row) :
            Follows(out, done) /\ fed = IF finished THEN done ELSE done \o fl.buffer

Inv == TypeOK /\ FlatOK(fl) /\ Numbered /\ LetOut

LEMMA PushedRow ==
  ASSUME NEW kind \in Kinds, NEW n \in Nat
  PROVE  /\ [kind EXCEPT !.line = n] \in Row /\ [kind EXCEPT !.line = n].line = n
         /\ [kind EXCEPT !.line = n].cells = kind.cells
BY KindsAssumption DEF Row

LEMMA NumberedAscends ==
  ASSUME NEW rows, \A i \in 1..Len(rows) : rows[i].line = i
  PROVE  Ascending(rows)
BY DEF Ascending

LEMMA InitInv == Init => Inv
<1> SUFFICES ASSUME Init PROVE Inv
  OBVIOUS
<1>1. <<>> \in Seq(Row) /\ Len(<<>>) = 0 /\ <<>> \o <<>> = <<>>
  BY EmptySeq
<1>2. FlatOK(fl)
  BY NewFlattenerOK DEF Init
<1>3. TypeOK
  BY <1>1 DEF Init, TypeOK, NewFlattener, Words
<1>4. LetOut
  <2>1. Follows(out, <<>>) /\ fed = <<>> \o fl.buffer
    BY <1>1, FollowsNone DEF Init, NewFlattener
  <2> QED
    BY <1>1, <2>1 DEF LetOut, Init
<1> QED
  BY <1>1, <1>2, <1>3, <1>4 DEF Init, Inv, Numbered

LEMMA PushInv ==
  ASSUME Inv, NEW kind \in Kinds, PushRow(kind)
  PROVE  Inv'
<1> DEFINE n   == Len(fed)
           row == [kind EXCEPT !.line = n + 1]
           p   == Push(fl, row)
<1>1. fed \in Seq(Row) /\ n \in Nat /\ FlatOK(fl) /\ out \in Seq(Row) /\ fl \in FlatState
  BY LenNat DEF Inv, TypeOK, FlatOK
<1>2. row \in Row /\ row.line = n + 1 /\ row.cells = kind.cells
  <2>1. n + 1 \in Nat
    BY <1>1
  <2> HIDE DEF n
  <2> QED
    BY <2>1, PushedRow
<1>3. ~finished /\ finished' = FALSE /\ fed' = Append(fed, row) /\ fl' = p.fl /\ out' = out \o p.out
  BY DEF PushRow, Inv, TypeOK
<1> HIDE DEF row
<1>4. /\ fed' \in Seq(Row) /\ Len(fed') = n + 1 /\ fed'[n + 1] = row
      /\ \A i \in 1..n : fed'[i] = fed[i]
  BY <1>1, <1>2, <1>3, Grown
<1>5. Numbered'
  <2>1. \A i \in 1..n + 1 : i = n + 1 \/ i \in 1..n
    BY <1>1
  <2> QED
    BY <1>2, <1>4, <2>1 DEF Inv, Numbered
<1>6. Ascending(Append(fed, row))
  BY <1>3, <1>5, NumberedAscends DEF Numbered
<1>7. PICK done \in Seq(Row) : Follows(out, done) /\ fed = done \o fl.buffer
  BY <1>3 DEF Inv, LetOut
<1>8. /\ p.out \in Seq(Row)
      /\ \E more \in Seq(Row) : Follows(out \o p.out, more) /\ more \o p.fl.buffer = Append(fed, row)
  BY <1>1, <1>2, <1>6, <1>7, PushFollows
<1>9. /\ FlatOK(p.fl) /\ p.fl.motion = MotionAfter(fl, row) /\ p.fl.position = Positioned(fl, row)
      /\ p.fl.start \in {fl.start, fl.position}
  BY <1>1, <1>2, PushIs
<1> HIDE DEF p
<1>10. LetOut'
  BY <1>3, <1>8 DEF LetOut
<1>11. TypeOK'
  <2>1. out' \in Seq(Row)
    BY <1>1, <1>3, <1>8, ConcatProperties
  <2>2. fl'.buffer \in Seq(Row)
    BY <1>3, <1>9, FlatFields DEF FlatOK
  <2>3. row.cells["motion"] \in Words \cup {Null} /\ row.cells["X"] \in Values \cup {Null}
    BY <1>2, KindsAssumption
  <2>4. fl.motion \in Words /\ fl.position \in Values \cup {Null} /\ fl.start \in Values \cup {Null}
    BY DEF Inv, TypeOK
  <2>5. fl'.motion \in Words /\ fl'.position \in Values \cup {Null} /\ fl'.start \in Values \cup {Null}
    BY <1>3, <1>9, <2>3, <2>4 DEF MotionAfter, Positioned
  <2> QED
    BY <1>3, <1>4, <2>1, <2>2, <2>5 DEF TypeOK
<1> QED
  BY <1>3, <1>5, <1>9, <1>10, <1>11 DEF Inv

LEMMA FinishInv ==
  ASSUME Inv, Finish
  PROVE  Inv'
<1>1. /\ FlatOK(fl) /\ fl \in FlatState /\ fl.buffer \in Seq(Row) /\ out \in Seq(Row)
      /\ ~finished /\ finished' /\ fed' = fed /\ fl' = fl /\ out' = out \o FlushedSpline(fl)
  BY DEF Inv, TypeOK, FlatOK, Finish, Rest
<1>2. PICK done \in Seq(Row) : Follows(out, done) /\ fed = done \o fl.buffer
  BY <1>1 DEF Inv, LetOut
<1>3. Ascending(fed)
  BY NumberedAscends DEF Inv, Numbered
<1>4. FlushedSpline(fl) \in Seq(Row) /\ Follows(out \o FlushedSpline(fl), fed)
  BY <1>1, <1>2, <1>3, FlushFollows
<1>5. LetOut'
  BY <1>1, <1>4 DEF LetOut, Follows
<1>6. out' \in Seq(Row)
  BY <1>1, <1>4, ConcatProperties
<1> QED
  BY <1>1, <1>5, <1>6 DEF Inv, TypeOK, Numbered, Finish

LEMMA NextInv == Inv /\ [Next]_vars => Inv'
<1> SUFFICES ASSUME Inv, [Next]_vars PROVE Inv'
  OBVIOUS
<1>1. CASE UNCHANGED vars
  BY <1>1 DEF Inv, TypeOK, Numbered, LetOut, vars
<1>2. CASE \E kind \in Kinds : PushRow(kind)
  BY <1>2, PushInv
<1>3. CASE Finish
  BY <1>3, FinishInv
<1> QED
  BY <1>1, <1>2, <1>3 DEF Next

(* push and finish keep the invariant.                                     *)
THEOREM Inductive == Spec => []Inv
<1> QED
  BY InitInv, NextInv, PTL DEF Spec

-----------------------------------------------------------------------------
(* What the flattener keeps, holds back and lets out has the right types,  *)
(* whatever is pushed.                                                     *)
THEOREM Typed == Spec => []TypeOK
<1>1. Inv => TypeOK
  BY DEF Inv
<1> QED
  BY <1>1, Inductive, PTL

(* Only an active spline holds rows back, and they are the last pushed.    *)
THEOREM HoldsBack == Spec => []HeldBack
<1>1. Inv => HeldBack
  <2> SUFFICES ASSUME Inv PROVE HeldBack
    OBVIOUS
  <2>1. fl.buffer # <<>> => fl.motion \in Splines
    BY DEF Inv, FlatOK
  <2>2. ASSUME ~finished
        PROVE  /\ IsSuffix(fl.buffer, fed)
               /\ \A i \in 1..(Len(fed) - Len(fl.buffer)) : \E j \in DOMAIN out : out[j].line = i
    <3>1. PICK done \in Seq(Row) : Follows(out, done) /\ fed = done \o fl.buffer
      BY <2>2 DEF Inv, LetOut
    <3>2. fl.buffer \in Seq(Row) /\ out \in Seq(Row) /\ DOMAIN out = 1..Len(out)
      BY LenProperties DEF Inv, TypeOK
    <3>3. IsSuffix(fl.buffer, fed)
      BY <3>1, <3>2, SuffixOf
    <3>4. /\ Len(done) \in Nat /\ Len(fl.buffer) \in Nat /\ Len(fed) = Len(done) + Len(fl.buffer)
          /\ \A i \in 1..Len(done) + Len(fl.buffer) :
               fed[i] = IF i <= Len(done) THEN done[i] ELSE fl.buffer[i - Len(done)]
      BY <3>1, <3>2, LenNat, ConcatProperties
    <3>5. ASSUME NEW i \in 1..(Len(fed) - Len(fl.buffer)) PROVE \E j \in DOMAIN out : out[j].line = i
      <4>1. i \in 1..Len(done) /\ fed[i] = done[i] /\ i \in 1..Len(fed)
        BY <3>4
      <4>2. done[i].line = i
        BY <4>1 DEF Inv, Numbered
      <4> QED
        BY <3>1, <3>2, <4>1, <4>2 DEF Follows
    <3> QED
      BY <3>3, <3>5
  <2> QED
    BY <2>1, <2>2 DEF HeldBack
<1> QED
  BY <1>1, Inductive, PTL

(* No variable change is lost, repeated or moved past another, and the     *)
(* rows let out follow the program.                                        *)
THEOREM LosesNothing == Spec => []NothingLost
<1>1. Inv => NothingLost
  <2> SUFFICES ASSUME Inv, finished
               PROVE  /\ ChangesOf(out) = ChangesOf(fed)
                      /\ \A j, k \in DOMAIN out : j < k => out[j].line <= out[k].line
    BY DEF NothingLost
  <2>1. Follows(out, fed)
    BY DEF Inv, LetOut
  <2>2. DOMAIN out = 1..Len(out) /\ \A j, k \in 1..Len(out) : j < k => j <= k
    BY LenProperties DEF Inv, TypeOK
  <2> QED
    BY <2>1, <2>2 DEF Follows, Ascending
<1> QED
  BY <1>1, Inductive, PTL

(* Feed and speed read the same at every row let out as at the row pushed  *)
(* it came from.                                                           *)
THEOREM KeepsFeed == Spec => []FeedUnchanged
<1>1. Inv => FeedUnchanged
  <2> DEFINE before == MeantTable(fed).rows
             after  == MeantTable(out).rows
  <2> SUFFICES ASSUME Inv, finished, NEW j \in DOMAIN after, NEW i \in DOMAIN before,
                      before[i].line = after[j].line, NEW c \in {"F", "S"}
               PROVE  after[j].cells[c] = before[i].cells[c]
    BY DEF FeedUnchanged
  <2>1. Follows(out, fed) /\ fed \in Seq(Row) /\ out \in Seq(Row)
    BY DEF Inv, LetOut, Follows
  <2>2. \A rows \in Seq(Row) :
          /\ MeantTable(rows).rows = Picked(Meant(rows), Celled(rows))
          /\ Meant(rows) \in Seq(TableRow) /\ Len(Meant(rows)) = Len(rows)
          /\ MeantTable(rows).rows \in Seq(TableRow)
          /\ \A k \in 1..Len(rows) : /\ Meant(rows)[k].line = rows[k].line
                                     /\ Meant(rows)[k].cells[c] = LastIn(rows, k, c)
    <3> SUFFICES ASSUME NEW rows \in Seq(Row)
                 PROVE  /\ MeantTable(rows).rows = Picked(Meant(rows), Celled(rows))
                        /\ Meant(rows) \in Seq(TableRow) /\ Len(Meant(rows)) = Len(rows)
                        /\ MeantTable(rows).rows \in Seq(TableRow)
                        /\ \A k \in 1..Len(rows) : /\ Meant(rows)[k].line = rows[k].line
                                                   /\ Meant(rows)[k].cells[c] = LastIn(rows, k, c)
      OBVIOUS
    <3>1. MeantTable(rows).rows = Picked(Meant(rows), Celled(rows))
      BY DEF MeantTable
    <3>2. Meant(rows) \in Seq(TableRow) /\ Len(Meant(rows)) = Len(rows)
      BY MeantType
    <3>3. c \in Columns /\ c \in ForwardFilled
      BY DEF Columns, ForwardFilled
    <3>4. DOMAIN rows = 1..Len(rows)
      BY LenProperties
    <3>5. \A k \in 1..Len(rows) : /\ Meant(rows)[k].line = rows[k].line
                                  /\ Meant(rows)[k].cells[c] = LastIn(rows, k, c)
      BY <3>3, <3>4 DEF Meant
    <3> QED
      BY <3>1, <3>2, <3>5, PickedType
  <2>3. DOMAIN after = 1..Len(after) /\ DOMAIN before = 1..Len(before)
    BY <2>1, <2>2, LenProperties
  <2>4. PICK k \in 1..Len(out) : after[j] = Meant(out)[k]
    <3>1. \A l \in 1..Len(Picked(Meant(out), Celled(out))) :
             \E q \in 1..Len(Meant(out)) : Picked(Meant(out), Celled(out))[l] = Meant(out)[q]
      BY <2>1, <2>2, PickedFrom, SMTT(20)
    <3> QED
      BY <2>1, <2>2, <2>3, <3>1
  <2>5. PICK m \in 1..Len(fed) : before[i] = Meant(fed)[m]
    <3>1. \A l \in 1..Len(Picked(Meant(fed), Celled(fed))) :
             \E q \in 1..Len(Meant(fed)) : Picked(Meant(fed), Celled(fed))[l] = Meant(fed)[q]
      BY <2>1, <2>2, PickedFrom
    <3> QED
      BY <2>1, <2>2, <2>3, <3>1
  <2>6. PICK l \in 1..Len(fed) : Reads(out, k, fed, l)
    BY <2>1 DEF Follows
  <2>7. fed[m].line = out[k].line /\ out[k].line = fed[l].line
    BY <2>1, <2>2, <2>4, <2>5, <2>6 DEF Reads
  <2>8. l = m
    BY <2>7 DEF Inv, Numbered
  <2>9. LastIn(out, k, c) = LastIn(fed, m, c)
    BY <2>6, <2>8 DEF Reads
  <2> QED
    BY <2>1, <2>2, <2>4, <2>5, <2>9
<1> QED
  BY <1>1, Inductive, PTL

-----------------------------------------------------------------------------
(* The positions of rows that are not marked, row by row.                  *)

LEMMA MarkedAppend ==
  ASSUME NEW rows \in Seq(Row), NEW row \in Row
  PROVE  /\ Marked(rows) \in Seq(CellValues)
         /\ Marked(Append(rows, row)) =
              IF row.cells["flattened"] = Null /\ row.cells["X"] # Null
              THEN Append(Marked(rows), row.cells["X"]) ELSE Marked(rows)
<1> DEFINE n   == Len(rows)
           t   == Append(rows, row)
           old == {i \in DOMAIN rows : rows[i].cells["flattened"] = Null /\ rows[i].cells["X"] # Null}
           new == {i \in DOMAIN t : t[i].cells["flattened"] = Null /\ t[i].cells["X"] # Null}
           x   == row.cells["X"]
<1>1. n \in Nat /\ t \in Seq(Row) /\ Len(t) = n + 1 /\ t[n + 1] = row /\ \A i \in 1..n : t[i] = rows[i]
  BY Grown
<1>2. DOMAIN rows = 1..n /\ DOMAIN t = 1..n + 1
  BY <1>1, LenProperties
<1>3. \A r \in Row : r.cells["X"] \in CellValues
  BY RowFields DEF Cells, Columns, CellValues
<1>4. \A i \in 1..n : rows[i] \in Row
  BY ElementOfSeq
<1>5. \A i \in 1..n + 1 : t[i] \in Row
  BY <1>1, ElementOfSeq
<1> HIDE DEF t, x
<1>6. Positions(rows) \in Seq(CellValues) /\ Len(Positions(rows)) = n
  <2>1. Positions(rows) = [i \in 1..n |-> rows[i].cells["X"]]
    BY <1>2 DEF Positions
  <2>2. Positions(rows) \in [1..n -> CellValues]
    BY <1>3, <1>4, <2>1
  <2> QED
    BY <1>1, <2>1, <2>2
<1>7. Positions(t) = Append(Positions(rows), x)
  <2>1. Positions(t) = [i \in 1..n + 1 |-> t[i].cells["X"]]
    BY <1>2 DEF Positions
  <2>2. Positions(t) \in [1..n + 1 -> CellValues] /\ n + 1 \in Nat
    BY <1>1, <1>3, <1>5, <2>1
  <2>3. Positions(t) \in Seq(CellValues) /\ Len(Positions(t)) = n + 1
    BY <2>1, <2>2
  <2>4. x \in CellValues
    BY <1>3 DEF x
  <2> DEFINE u == Append(Positions(rows), x)
  <2>5. u \in Seq(CellValues) /\ Len(u) = n + 1 /\ u[n + 1] = x
        /\ \A i \in 1..n : u[i] = Positions(rows)[i]
    BY <1>6, <2>4, Grown
  <2> HIDE DEF u
  <2>6. \A i \in 1..n + 1 : Positions(t)[i] = u[i]
    <3>1. \A i \in 1..n + 1 : i = n + 1 \/ i \in 1..n
      BY <1>1
    <3>2. \A i \in 1..n : Positions(rows)[i] = rows[i].cells["X"]
      BY <1>2 DEF Positions
    <3>3. Positions(t)[n + 1] = x
      BY <1>1, <2>1 DEF x
    <3>4. \A i \in 1..n : Positions(t)[i] = t[i].cells["X"]
      BY <1>1, <2>1
    <3> QED
      BY <1>1, <2>5, <3>1, <3>2, <3>3, <3>4
  <2> QED
    BY <2>3, <2>5, <2>6, SeqEqual DEF u
<1>8. /\ \A i \in 1..n : i \in new <=> i \in old
      /\ n + 1 \in new <=> row.cells["flattened"] = Null /\ x # Null
  BY <1>1, <1>2 DEF x
<1>9. Marked(rows) = Picked(Positions(rows), old) /\ Marked(t) = Picked(Positions(t), new)
  BY DEF Marked
<1>10. x \in CellValues
  BY <1>3 DEF x
<1> HIDE DEF old, new
<1>11. Picked(Append(Positions(rows), x), new) =
         IF n + 1 \in new THEN Append(Picked(Positions(rows), old), x) ELSE Picked(Positions(rows), old)
  BY <1>6, <1>8, <1>10, PickedAppend
<1>12. Picked(Positions(rows), old) \in Seq(CellValues)
  BY <1>6, PickedType
<1> QED
  BY <1>7, <1>8, <1>9, <1>11, <1>12 DEF t, x

LEMMA MarkedEmpty == Marked(<<>>) = <<>>
<1>1. Positions(<<>>) = <<>>
  BY DEF Positions
<1> QED
  BY <1>1, PickedEmpty DEF Marked

LEMMA MarkedType ==
  ASSUME NEW rows \in Seq(Row)
  PROVE  Marked(rows) \in Seq(CellValues)
BY MarkedAppend, EmptyRowType

LEMMA MarkedConcat ==
  ASSUME NEW rows \in Seq(Row), NEW more \in Seq(Row)
  PROVE  Marked(rows \o more) = Marked(rows) \o Marked(more)
<1> DEFINE T == {t \in Seq(Row) : Marked(rows \o t) = Marked(rows) \o Marked(t)}
<1>1. <<>> \in T
  <2>1. <<>> \in Seq(Row) /\ rows \o <<>> = rows /\ Marked(rows) \o <<>> = Marked(rows)
    BY EmptySeq, ConcatEmptySeq, MarkedType
  <2> QED
    BY <2>1, MarkedEmpty
<1>2. ASSUME NEW t \in Seq(Row), NEW x \in Row, t \in T PROVE Append(t, x) \in T
  <2>1. rows \o Append(t, x) = Append(rows \o t, x) /\ rows \o t \in Seq(Row) /\ Append(t, x) \in Seq(Row)
    BY ConcatAppend, Grown
  <2>2. Marked(Append(rows \o t, x)) = IF x.cells["flattened"] = Null /\ x.cells["X"] # Null
          THEN Append(Marked(rows \o t), x.cells["X"]) ELSE Marked(rows \o t)
    BY <2>1, MarkedAppend
  <2>3. Marked(Append(t, x)) = IF x.cells["flattened"] = Null /\ x.cells["X"] # Null
          THEN Append(Marked(t), x.cells["X"]) ELSE Marked(t)
    BY MarkedAppend
  <2>4. Marked(rows) \in Seq(CellValues) /\ Marked(t) \in Seq(CellValues) /\ x.cells["X"] \in CellValues
    BY MarkedType, RowFields DEF Cells, Columns, CellValues
  <2>5. Marked(rows) \o Append(Marked(t), x.cells["X"]) = Append(Marked(rows) \o Marked(t), x.cells["X"])
    <3>1. \A u, v \in Seq(CellValues) : \A y \in CellValues : u \o Append(v, y) = Append(u \o v, y)
      BY ConcatAppend
    <3> QED
      BY <2>4, <3>1
  <2>6. Marked(rows \o t) = Marked(rows) \o Marked(t)
    BY <1>2
  <2> QED
    BY <2>1, <2>2, <2>3, <2>5, <2>6
<1> HIDE DEF T
<1>3. more \in T
  BY <1>1, <1>2, SeqInduction
<1> QED
  BY <1>3 DEF T

LEMMA MarkedNone ==
  ASSUME NEW rows \in Seq(Row), \A i \in 1..Len(rows) : rows[i].cells["flattened"] # Null
  PROVE  Marked(rows) = <<>>
<1> DEFINE T == {t \in Seq(Row) : (\A i \in 1..Len(t) : t[i].cells["flattened"] # Null) => Marked(t) = <<>>}
<1>1. <<>> \in T
  BY EmptySeq, MarkedEmpty
<1>2. ASSUME NEW t \in Seq(Row), NEW x \in Row, t \in T PROVE Append(t, x) \in T
  <2> DEFINE u == Append(t, x)
  <2>1. Len(t) \in Nat /\ u \in Seq(Row) /\ Len(u) = Len(t) + 1 /\ u[Len(t) + 1] = x
        /\ \A i \in 1..Len(t) : u[i] = t[i]
    BY Grown
  <2>2. Marked(u) = IF x.cells["flattened"] = Null /\ x.cells["X"] # Null
                    THEN Append(Marked(t), x.cells["X"]) ELSE Marked(t)
    BY MarkedAppend
  <2> HIDE DEF u
  <2>3. Len(t) + 1 \in 1..Len(u) /\ \A i \in 1..Len(t) : i \in 1..Len(u)
    BY <2>1
  <2>4. (\A i \in 1..Len(u) : u[i].cells["flattened"] # Null) => Marked(u) = <<>>
    BY <1>2, <2>1, <2>2, <2>3
  <2> QED
    BY <2>1, <2>4 DEF u
<1> HIDE DEF T
<1>3. rows \in T
  BY <1>1, <1>2, SeqInduction
<1> QED
  BY <1>3 DEF T

(* A run to a point has nothing but the point unmarked.                    *)
LEMMA MarkedMoves ==
  ASSUME NEW run \in Seq(Row), NEW point, Moves(run, point, Null)
  PROVE  Marked(run) = IF point # Null THEN <<point>> ELSE <<>>
<1> DEFINE n == Len(run)
           front == SubSeq(run, 1, n - 1)
           last == run[n]
<1>1. run # <<>> /\ n \in Nat /\ n # 0 /\ n \in 1..n /\ n - 1 \in 0..n
  <2>1. run # <<>>
    BY DEF Moves
  <2>2. n \in Nat /\ n # 0
    BY <2>1, LenNat
  <2> QED
    BY <2>1, <2>2
<1>2. last \in Row /\ last.cells["X"] = point /\ last.cells["flattened"] = Null
  BY <1>1, ElementOfSeq DEF Moves
<1>3. front \in Seq(Row) /\ Len(front) = n - 1 /\ \A i \in 1..n - 1 : front[i] = run[i]
  BY <1>1, PrefixType
<1>4. run = Append(front, last)
  <2>1. SubSeq(run, 1, n) = Append(front, last)
    BY <1>1, PrefixNext
  <2> QED
    BY <2>1, SubSeqFull
<1> HIDE DEF front, last
<1>5. \A i \in 1..Len(front) : front[i].cells["flattened"] # Null
  <2>1. "yes" # Null
    BY NullAssumption DEF Words
  <2> QED
    BY <1>3, <2>1 DEF Moves, n
<1>6. Marked(front) = <<>>
  BY <1>3, <1>5, MarkedNone
<1>7. Marked(Append(front, last)) = IF last.cells["flattened"] = Null /\ last.cells["X"] # Null
                                    THEN Append(Marked(front), last.cells["X"]) ELSE Marked(front)
  BY <1>2, <1>3, MarkedAppend
<1>8. Append(<<>>, point) = <<point>>
  OBVIOUS
<1> QED
  BY <1>2, <1>4, <1>6, <1>7, <1>8

(* Flushing an interpolating spline moves through its points.              *)
LEMMA FlushMarked ==
  ASSUME NEW fl0 \in FlatState, fl0.motion = "ASPLINE",
         \A i \in 1..Len(fl0.buffer) : fl0.buffer[i].cells["flattened"] = Null
  PROVE  Marked(FlushedSpline(fl0)) = Marked(fl0.buffer)
<1> DEFINE b == fl0.buffer
           n == Len(b)
<1>1. b \in Seq(Row) /\ n \in Nat
  BY FlatFields, LenNat
<1>2. PICK f : FlushesAlong(f, fl0) /\ FlushedSpline(fl0) = f[n].out
  BY <1>1, FlushWalk
<1>3. \A i \in 0..n : f[i] \in FlushState
  BY <1>2 DEF FlushesAlong
<1>4. f[0].out = <<>>
  BY <1>2 DEF FlushesAlong
<1>5. ASSUME NEW i \in 1..n
      PROVE  f[i].out = IF IsPoint(b[i]) THEN f[i - 1].out \o StatedRun(fl0, b[i], f[i - 1].points + 1)
                        ELSE Append(f[i - 1].out, b[i])
  BY <1>2, FlushedOut
<1> DEFINE M == {i \in Nat : i <= n => Marked(f[i].out) = Marked(SubSeq(b, 1, i))}
<1>6. 0 \in M
  <2>1. SubSeq(b, 1, 0) = <<>>
    BY SubSeqEmpty
  <2> QED
    BY <1>4, <2>1
<1>7. ASSUME NEW m \in Nat, m \in M PROVE m + 1 \in M
  <2> DEFINE k == m + 1
  <2>1. SUFFICES ASSUME k <= n PROVE Marked(f[k].out) = Marked(SubSeq(b, 1, k))
    OBVIOUS
  <2>2. k \in 1..n /\ k - 1 = m /\ m \in 0..n /\ m <= n
    BY <1>1, <1>7, <2>1
  <2>3. b[k] \in Row /\ f[m].out \in Seq(Row) /\ SubSeq(b, 1, m) \in Seq(Row)
        /\ Marked(f[m].out) = Marked(SubSeq(b, 1, m)) /\ b[k].cells["flattened"] = Null
    BY <1>1, <1>3, <1>7, <2>2, ElementOfSeq, PrefixType DEF FlushState
  <2>4. SubSeq(b, 1, k) = Append(SubSeq(b, 1, m), b[k])
    BY <1>1, <2>2, PrefixNext
  <2>5. Marked(SubSeq(b, 1, k)) = IF b[k].cells["X"] # Null
          THEN Append(Marked(SubSeq(b, 1, m)), b[k].cells["X"]) ELSE Marked(SubSeq(b, 1, m))
    BY <2>3, <2>4, MarkedAppend
  <2>6. f[k].out = IF IsPoint(b[k]) THEN f[m].out \o StatedRun(fl0, b[k], f[m].points + 1)
                   ELSE Append(f[m].out, b[k])
    <3> HIDE DEF k
    <3> QED
      BY <1>5, <2>2
  <2> HIDE DEF k
  <2>7. CASE IsPoint(b[k])
    <3> DEFINE run == StatedRun(fl0, b[k], f[m].points + 1)
    <3>1. run \in Seq(Row) /\ Moves(run, b[k].cells["X"], Null)
      BY <2>3, <2>7, StatedRunIs DEF IsPoint
    <3>2. f[k].out = f[m].out \o run
      BY <2>6, <2>7
    <3> HIDE DEF run
    <3>3. Marked(run) = <<b[k].cells["X"]>>
      BY <2>7, <3>1, MarkedMoves DEF IsPoint
    <3>4. Marked(f[m].out \o run) = Marked(f[m].out) \o Marked(run)
      BY <2>3, <3>1, MarkedConcat
    <3>5. Append(Marked(f[m].out), b[k].cells["X"]) = Marked(f[m].out) \o <<b[k].cells["X"]>>
      <4>1. Marked(f[m].out) \in Seq(CellValues) /\ b[k].cells["X"] \in CellValues
        BY <2>3, MarkedType, RowFields DEF Cells, Columns, CellValues
      <4> QED
        BY <4>1, AppendIsConcat
    <3> QED
      BY <2>3, <2>5, <2>7, <3>2, <3>3, <3>4, <3>5 DEF IsPoint
  <2>8. CASE ~IsPoint(b[k])
    <3>1. f[k].out = Append(f[m].out, b[k])
      BY <2>6, <2>8
    <3>2. Marked(Append(f[m].out, b[k])) = Marked(f[m].out)
      BY <2>3, <2>8, MarkedAppend DEF IsPoint
    <3> QED
      BY <2>3, <2>5, <2>8, <3>1, <3>2 DEF IsPoint
  <2> QED
    BY <2>7, <2>8
<1> HIDE DEF M
<1>8. n \in M
  BY <1>1, <1>6, <1>7, SetInduction
<1>9. Marked(f[n].out) = Marked(SubSeq(b, 1, n))
  BY <1>1, <1>8 DEF M
<1> QED
  BY <1>1, <1>2, <1>9, SubSeqFull

-----------------------------------------------------------------------------
(* What each row programs, row by row.                                     *)

MotionUnder(rows, row) == IF row.cells["motion"] # Null THEN row.cells["motion"] ELSE MotionAt(rows, Len(rows))

TargetUnder(rows, row) ==
  IF row.cells["X"] = Null /\ MotionUnder(rows, row) = "G2" /\ row.cells["address"] # Null
  THEN LastIn(rows, Len(rows), "X") ELSE row.cells["X"]

LEMMA MotionGrown ==
  ASSUME NEW rows \in Seq(Row), NEW row \in Row
  PROVE  /\ \A i \in 1..Len(rows) : MotionAt(Append(rows, row), i) = MotionAt(rows, i)
         /\ MotionAt(Append(rows, row), Len(rows) + 1) = MotionUnder(rows, row)
<1> DEFINE t == Append(rows, row)
           n == Len(rows)
<1>1. n \in Nat /\ \A i \in 1..n : t[i] = rows[i]
  BY Grown
<1>2. LastIn(t, n + 1, "motion") = IF row.cells["motion"] # Null THEN row.cells["motion"]
                                   ELSE LastIn(rows, n, "motion")
  BY LastGrown
<1> HIDE DEF t
<1>3. \A i \in 1..n : LastIn(t, i, "motion") = LastIn(rows, i, "motion")
  <2> SUFFICES ASSUME NEW i \in 1..n PROVE LastIn(t, i, "motion") = LastIn(rows, i, "motion")
    OBVIOUS
  <2>1. i \in Nat /\ \A j \in 1..i : t[j] = rows[j]
    BY <1>1
  <2> QED
    BY <2>1, LastInBefore
<1>4. \A i \in 1..n : MotionAt(t, i) = MotionAt(rows, i)
  BY <1>3 DEF MotionAt
<1>5. MotionAt(t, n + 1) = MotionUnder(rows, row)
  <2>1. CASE row.cells["motion"] # Null
    BY <1>2, <2>1 DEF MotionAt, MotionUnder
  <2>2. CASE row.cells["motion"] = Null
    <3>1. LastIn(t, n + 1, "motion") = LastIn(rows, n, "motion")
      BY <1>2, <2>2
    <3> QED
      BY <2>2, <3>1 DEF MotionAt, MotionUnder
  <2> QED
    BY <2>1, <2>2
<1> QED
  BY <1>4, <1>5 DEF t

LEMMA MotionNone == \A rows : MotionAt(rows, 0) = "G1"
BY LastInNone DEF MotionAt

LEMMA ProgrammedAppend ==
  ASSUME NEW rows \in Seq(Row), NEW row \in Row
  PROVE  /\ Programmed(rows) \in Seq(CellValues)
         /\ Programmed(Append(rows, row)) =
              IF TargetUnder(rows, row) # Null
              THEN Append(Programmed(rows), TargetUnder(rows, row)) ELSE Programmed(rows)
<1> DEFINE n   == Len(rows)
           t   == Append(rows, row)
           x   == TargetUnder(rows, row)
           old == {i \in DOMAIN rows : Targets(rows)[i] # Null}
           new == {i \in DOMAIN t : Targets(t)[i] # Null}
           target(s, i) == IF s[i].cells["X"] = Null /\ MotionAt(s, i) = "G2" /\ s[i].cells["address"] # Null
                           THEN LastIn(s, i, "X") ELSE s[i].cells["X"]
<1>1. n \in Nat /\ t \in Seq(Row) /\ Len(t) = n + 1 /\ t[n + 1] = row /\ \A i \in 1..n : t[i] = rows[i]
  BY Grown
<1>2. DOMAIN rows = 1..n /\ DOMAIN t = 1..n + 1
  BY <1>1, LenProperties
<1>3. ASSUME NEW s \in Seq(Row), NEW i \in 1..Len(s) PROVE target(s, i) \in CellValues
  <2>1. s[i] \in Row /\ i \in 0..Len(s)
    BY LenNat, ElementOfSeq
  <2>2. "X" \in Columns
    BY DEF Columns
  <2>3. LastIn(s, i, "X") \in CellValues
    BY <2>1, <2>2, LastInType DEF CellValues
  <2>4. s[i].cells["X"] \in CellValues
    BY <2>1, <2>2, RowFields DEF Cells, CellValues
  <2> QED
    BY <2>3, <2>4
<1>4. Targets(rows) = [i \in 1..n |-> target(rows, i)] /\ Targets(t) = [i \in 1..n + 1 |-> target(t, i)]
  BY <1>2 DEF Targets
<1>5. \A i \in 1..n : target(t, i) = target(rows, i)
  <2> SUFFICES ASSUME NEW i \in 1..n PROVE target(t, i) = target(rows, i)
    OBVIOUS
  <2>1. i \in Nat /\ \A j \in 1..i : t[j] = rows[j]
    BY <1>1
  <2>2. LastIn(t, i, "X") = LastIn(rows, i, "X")
    BY <2>1, LastInBefore, ZenonT(30)
  <2>3. MotionAt(t, i) = MotionAt(rows, i)
    BY MotionGrown
  <2> QED
    BY <1>1, <2>2, <2>3
<1>6. target(t, n + 1) = x
  <2>1. MotionAt(t, n + 1) = MotionUnder(rows, row)
    BY MotionGrown
  <2>2. LastIn(t, n + 1, "X") = IF row.cells["X"] # Null THEN row.cells["X"] ELSE LastIn(rows, n, "X")
    BY LastGrown
  <2> QED
    BY <1>1, <2>1, <2>2 DEF TargetUnder
<1>7. \A i \in 1..n : target(rows, i) \in CellValues
  BY <1>3
<1>8. \A i \in 1..n + 1 : target(t, i) \in CellValues
  BY <1>1, <1>3
<1> HIDE DEF target, t, x
<1>9. Targets(rows) \in Seq(CellValues) /\ Len(Targets(rows)) = n
  <2>1. Targets(rows) \in [1..n -> CellValues]
    BY <1>4, <1>7
  <2> QED
    BY <1>1, <1>4, <2>1
<1>10. Targets(t) \in Seq(CellValues) /\ Len(Targets(t)) = n + 1
  <2>1. Targets(t) \in [1..n + 1 -> CellValues] /\ n + 1 \in Nat
    BY <1>1, <1>4, <1>8
  <2> QED
    BY <1>4, <2>1
<1>11. x \in CellValues /\ n + 1 \in 1..n + 1
  BY <1>1, <1>6, <1>8
<1>12. Targets(t) = Append(Targets(rows), x)
  <2> DEFINE u == Append(Targets(rows), x)
  <2>1. u \in Seq(CellValues) /\ Len(u) = n + 1 /\ u[n + 1] = x
        /\ \A i \in 1..n : u[i] = Targets(rows)[i]
    BY <1>9, <1>11, Grown
  <2> HIDE DEF u
  <2>2. \A i \in 1..n + 1 : Targets(t)[i] = u[i]
    <3>1. \A i \in 1..n + 1 : i = n + 1 \/ i \in 1..n
      BY <1>1
    <3>2. \A i \in 1..n : Targets(rows)[i] = target(rows, i)
      BY <1>4
    <3>3. \A i \in 1..n + 1 : Targets(t)[i] = target(t, i)
      BY <1>4
    <3> QED
      BY <1>5, <1>6, <2>1, <3>1, <3>2, <3>3
  <2> QED
    BY <1>10, <2>1, <2>2, SeqEqual DEF u
<1>13. /\ \A i \in 1..n : i \in new <=> i \in old
       /\ n + 1 \in new <=> x # Null
  <2>1. \A i \in 1..n : Targets(t)[i] = Targets(rows)[i] /\ i \in 1..n + 1
    BY <1>1, <1>4, <1>5
  <2>2. Targets(t)[n + 1] = x
    BY <1>4, <1>6, <1>11
  <2> QED
    BY <1>2, <1>11, <2>1, <2>2
<1>14. Programmed(rows) = Picked(Targets(rows), old) /\ Programmed(t) = Picked(Targets(t), new)
  BY DEF Programmed
<1> HIDE DEF old, new
<1>15. Picked(Append(Targets(rows), x), new) =
         IF n + 1 \in new THEN Append(Picked(Targets(rows), old), x) ELSE Picked(Targets(rows), old)
  BY <1>9, <1>11, <1>13, PickedAppend
<1>16. Picked(Targets(rows), old) \in Seq(CellValues)
  BY <1>9, PickedType
<1> QED
  BY <1>12, <1>13, <1>14, <1>15, <1>16 DEF t, x

LEMMA ProgrammedEmpty == Programmed(<<>>) = <<>>
<1>1. Targets(<<>>) = <<>>
  BY DEF Targets
<1> QED
  BY <1>1, PickedEmpty DEF Programmed

-----------------------------------------------------------------------------
(* Along the path: the flattener knows the motion and the position in      *)
(* effect, and the positions let out, with those it holds back, are the    *)
(* programmed ones.                                                        *)

Followable(rows) == \A i \in 1..Len(rows) : MotionAt(rows, i) # "BSPLINE"

Unmarked(rows) == \A i \in 1..Len(rows) : rows[i].cells["flattened"] = Null

OnPath ==
  Followable(fed) =>
    Programmed(fed) = IF finished THEN Marked(out) ELSE Marked(out) \o Marked(fl.buffer)

PathInv ==
  /\ fl.motion = MotionAt(fed, Len(fed)) /\ fl.position = LastIn(fed, Len(fed), "X")
  /\ Unmarked(fed)
  /\ OnPath

(* What is let out for a row that a spline does not hold back ends where   *)
(* the row's move does.                                                    *)
LEMMA PassingMarked ==
  ASSUME Inv, PathInv, NEW row \in Row, row.cells["flattened"] = Null,
         row.cells["X"] \in Values \cup {Null}
  PROVE  Marked(Passing(fl, row)) =
           IF TargetUnder(fed, row) # Null THEN <<TargetUnder(fed, row)>> ELSE <<>>
<1> DEFINE n == Len(fed)
           x == TargetUnder(fed, row)
<1>1. MotionAfter(fl, row) = MotionUnder(fed, row) /\ fl \in FlatState
  BY DEF MotionAfter, MotionUnder, PathInv, Inv, FlatOK
<1>2. fl.position = LastIn(fed, n, "X")
  BY DEF PathInv
<1>3. CASE MotionAfter(fl, row) = "G2" /\ IsArc(fl, row)
  <2> DEFINE at == Positioned(fl, row)
  <2>1. Passing(fl, row) = Run(row, row.cut, at, Null)
    BY <1>3 DEF Passing, Arc
  <2>2. row.cut \in Nat \ {0} /\ row.cells \in Cells
    BY RowFields
  <2>3. at \in CellValues
    BY <1>1, <2>2, FlatFields DEF Positioned, Cells, Columns, CellValues
  <2>4. Passing(fl, row) \in Seq(Row) /\ Moves(Passing(fl, row), at, Null)
    BY <2>1, <2>2, <2>3, RunIs
  <2>5. at = x
    BY <1>1, <1>2, <1>3 DEF IsArc, Positioned, TargetUnder
  <2> HIDE DEF at, x
  <2> QED
    BY <2>4, <2>5, MarkedMoves DEF x
<1>4. CASE ~(MotionAfter(fl, row) = "G2" /\ IsArc(fl, row))
  <2>1. Passing(fl, row) = <<row>>
    BY <1>4 DEF Passing, Arc
  <2>2. x = row.cells["X"]
    BY <1>1, <1>2, <1>4 DEF IsArc, TargetUnder
  <2>3. Marked(<<row>>) = IF row.cells["X"] # Null THEN <<row.cells["X"]>> ELSE <<>>
    <3>1. <<>> \in Seq(Row) /\ Append(<<>>, row) = <<row>>
          /\ Append(<<>>, row.cells["X"]) = <<row.cells["X"]>>
      BY EmptySeq
    <3>2. Marked(Append(<<>>, row)) = IF row.cells["flattened"] = Null /\ row.cells["X"] # Null
                                      THEN Append(Marked(<<>>), row.cells["X"]) ELSE Marked(<<>>)
      BY <3>1, MarkedAppend
    <3> QED
      BY <3>1, <3>2, MarkedEmpty
  <2> QED
    BY <2>1, <2>2, <2>3
<1> QED
  BY <1>3, <1>4

LEMMA UnmarkedPart ==
  ASSUME NEW done \in Seq(Row), NEW rest \in Seq(Row), Unmarked(done \o rest)
  PROVE  \A i \in 1..Len(rest) : rest[i].cells["flattened"] = Null
<1> DEFINE t == done \o rest
<1>1. /\ Len(done) \in Nat /\ Len(rest) \in Nat /\ Len(t) = Len(done) + Len(rest)
      /\ \A i \in 1..Len(done) + Len(rest) : t[i] = IF i <= Len(done) THEN done[i] ELSE rest[i - Len(done)]
  BY LenNat, ConcatProperties
<1> HIDE DEF t
<1>2. SUFFICES ASSUME NEW i \in 1..Len(rest) PROVE rest[i].cells["flattened"] = Null
  OBVIOUS
<1>3. Len(done) + i \in 1..Len(done) + Len(rest) /\ ~(Len(done) + i <= Len(done))
      /\ (Len(done) + i) - Len(done) = i
  BY <1>1
<1>4. t[Len(done) + i] = rest[i]
  BY <1>1, <1>3
<1> QED
  BY <1>1, <1>3, <1>4 DEF Unmarked, t

LEMMA InitPath == Init => PathInv
<1> SUFFICES ASSUME Init PROVE PathInv
  OBVIOUS
<1>1. Len(<<>>) = 0 /\ <<>> \o <<>> = <<>>
  BY EmptySeq
<1>2. MotionAt(<<>>, 0) = "G1" /\ LastIn(<<>>, 0, "X") = Null
  BY MotionNone, LastInNone
<1>3. Programmed(<<>>) = <<>> /\ Marked(<<>>) = <<>>
  BY ProgrammedEmpty, MarkedEmpty
<1>4. fed = <<>> /\ out = <<>> /\ ~finished /\ fl.motion = "G1" /\ fl.position = Null /\ fl.buffer = <<>>
  BY DEF Init, NewFlattener
<1>5. fl.motion = MotionAt(fed, Len(fed)) /\ fl.position = LastIn(fed, Len(fed), "X")
  BY <1>1, <1>2, <1>4
<1>6. Programmed(fed) = Marked(out) \o Marked(fl.buffer)
  BY <1>1, <1>3, <1>4
<1>7. \A i \in 1..Len(fed) : FALSE
  BY <1>1, <1>4
<1> QED
  BY <1>4, <1>5, <1>6, <1>7 DEF PathInv, Unmarked, OnPath

(* While a B-spline is never in effect, what a flushed spline moves        *)
(* through is what it held back.                                           *)
LEMMA HeldPath ==
  ASSUME Inv, PathInv, ~finished, Followable(fed), fl.buffer # <<>>
  PROVE  Marked(FlushedSpline(fl)) = Marked(fl.buffer)
<1>1. PICK done \in Seq(Row) : Follows(out, done) /\ fed = done \o fl.buffer
  BY DEF Inv, LetOut
<1>2. fl \in FlatState /\ fl.buffer \in Seq(Row) /\ fl.motion \in Splines /\ fed \in Seq(Row)
  BY DEF Inv, TypeOK, FlatOK
<1>3. Len(fed) \in 1..Len(fed)
  <2>1. Len(done) \in Nat /\ Len(fl.buffer) \in Nat /\ Len(fl.buffer) # 0
        /\ Len(fed) = Len(done) + Len(fl.buffer)
    BY <1>1, <1>2, LenNat, ConcatProperties
  <2> QED
    BY <2>1
<1>4. fl.motion = "ASPLINE"
  <2>1. MotionAt(fed, Len(fed)) # "BSPLINE"
    BY <1>3 DEF Followable
  <2> QED
    BY <1>2, <2>1 DEF PathInv, Splines
<1>5. \A i \in 1..Len(fl.buffer) : fl.buffer[i].cells["flattened"] = Null
  <2>1. Unmarked(done \o fl.buffer)
    BY <1>1 DEF PathInv
  <2> QED
    BY <1>1, <1>2, <2>1, UnmarkedPart
<1> QED
  BY <1>2, <1>4, <1>5, FlushMarked

LEMMA PushPath ==
  ASSUME Inv, PathInv, NEW kind \in Kinds, PushRow(kind)
  PROVE  PathInv'
<1> DEFINE n == Len(fed)
           row == [kind EXCEPT !.line = n + 1]
           p   == Push(fl, row)
           x   == TargetUnder(fed, row)
           before == Before(fl, row)
           gone   == Going(fl, row)
           rest   == Staying(fl, row)
<1>1. /\ fed \in Seq(Row) /\ out \in Seq(Row) /\ n \in Nat /\ FlatOK(fl) /\ fl \in FlatState
      /\ fl.buffer \in Seq(Row) /\ n + 1 \in Nat
  <2>1. fed \in Seq(Row) /\ out \in Seq(Row) /\ FlatOK(fl)
    BY DEF Inv, TypeOK
  <2>2. n \in Nat
    BY <2>1, LenNat
  <2> QED
    BY <2>1, <2>2, FlatFields DEF FlatOK
<1>2. row \in Row /\ row.cells["flattened"] = Null /\ row.cells["X"] \in Values \cup {Null}
  <2>1. row \in Row /\ row.cells = kind.cells
    BY <1>1, PushedRow
  <2> QED
    BY <2>1, KindsAssumption
<1>3. ~finished /\ finished' = FALSE /\ fed' = Append(fed, row) /\ fl' = p.fl /\ out' = out \o p.out
  BY DEF PushRow, Inv, TypeOK
<1>4. Marked(Passing(fl, row)) = IF x # Null THEN <<x>> ELSE <<>>
  BY <1>2, PassingMarked
<1>5. MotionAfter(fl, row) = MotionUnder(fed, row)
  BY DEF MotionAfter, MotionUnder, PathInv
<1>6. /\ FlatOK(p.fl) /\ p.fl.motion = MotionAfter(fl, row) /\ p.fl.position = Positioned(fl, row)
      /\ MotionAfter(fl, row) \in Splines => p.fl.buffer = Append(rest, row) /\ p.out = before
      /\ MotionAfter(fl, row) \notin Splines =>
           rest = <<>> /\ p.fl.buffer = <<>> /\ p.out = before \o Passing(fl, row)
  BY <1>1, <1>2, PushIs
<1>7. before \in Seq(Row) /\ Passing(fl, row) \in Seq(Row) /\ gone \in Seq(Row) /\ rest \in Seq(Row)
      /\ gone \o rest = fl.buffer
  <2>1. before \in Seq(Row) /\ Passing(fl, row) \in Seq(Row)
    BY <1>1, <1>2, BeforeType, PassingRuns
  <2>2. gone \in Seq(Row) /\ rest \in Seq(Row) /\ gone \o rest = fl.buffer
    BY <1>1, EmptySeq, ConcatEmptySeq DEF Going, Staying
  <2> QED
    BY <2>1, <2>2
<1>8. Followable(fed) => Marked(before) = Marked(gone)
  <2>1. CASE Deselects(fl, row)
    <3>1. fl.buffer # <<>>
      BY <2>1 DEF Deselects
    <3> QED
      BY <1>3, <2>1, <3>1, HeldPath DEF Before, Going
  <2>2. CASE ~Deselects(fl, row)
    BY <2>2 DEF Before, Going
  <2> QED
    BY <2>1, <2>2
<1>9. MotionAfter(fl, row) \in Splines => x = row.cells["X"]
  BY <1>5 DEF TargetUnder, Splines
<1>10. /\ Programmed(fed) \in Seq(CellValues)
       /\ Programmed(Append(fed, row)) = IF x # Null THEN Append(Programmed(fed), x) ELSE Programmed(fed)
  BY <1>1, <1>2, ProgrammedAppend
<1>11. /\ \A i \in 1..n : MotionAt(Append(fed, row), i) = MotionAt(fed, i)
       /\ MotionAt(Append(fed, row), n + 1) = MotionUnder(fed, row)
  BY <1>1, <1>2, MotionGrown
<1>12. /\ Len(Append(fed, row)) = n + 1 /\ Append(fed, row)[n + 1] = row
       /\ \A i \in 1..n : Append(fed, row)[i] = fed[i]
  BY <1>1, <1>2, Grown
<1>13. LastIn(Append(fed, row), n + 1, "X") = Positioned(fl, row)
  <2>1. LastIn(Append(fed, row), n + 1, "X") = IF row.cells["X"] # Null THEN row.cells["X"] ELSE LastIn(fed, n, "X")
    BY <1>1, <1>2, LastGrown
  <2>2. fl.position = LastIn(fed, n, "X")
    BY DEF PathInv
  <2> QED
    BY <2>1, <2>2 DEF Positioned
<1>14. Append(fed, row) = fed'
  BY <1>3
<1>15. x \in CellValues
  <2>1. LastIn(fed, n, "X") \in CellValues
    BY <1>1 DEF PathInv, FlatState
  <2>2. row.cells["X"] \in CellValues
    BY <1>2 DEF CellValues
  <2> QED
    BY <2>1, <2>2 DEF TargetUnder
<1> HIDE DEF row, p, x, before, gone, rest
<1>16. fl'.motion = MotionAt(fed', Len(fed')) /\ fl'.position = LastIn(fed', Len(fed'), "X")
  BY <1>3, <1>5, <1>6, <1>11, <1>12, <1>13, <1>14
<1>17. Unmarked(fed')
  <2>1. \A i \in 1..n + 1 : i = n + 1 \/ i \in 1..n
    BY <1>1
  <2>2. Unmarked(fed)
    BY DEF PathInv
  <2> QED
    BY <1>2, <1>12, <1>14, <2>1, <2>2 DEF Unmarked
<1>18. ASSUME Followable(fed') PROVE Programmed(fed') = Marked(out') \o Marked(fl'.buffer)
  <2>1. Followable(fed)
    <3>1. \A i \in 1..n : i \in 1..n + 1
      BY <1>1
    <3> QED
      BY <1>11, <1>12, <1>14, <1>18, <3>1 DEF Followable
  <2> DEFINE a == Marked(out)
             g == Marked(gone)
             r == Marked(rest)
  <2>2. Programmed(fed) = a \o Marked(fl.buffer) /\ Marked(before) = g
    BY <1>3, <1>8, <2>1 DEF PathInv, OnPath
  <2>3. a \in Seq(CellValues) /\ g \in Seq(CellValues) /\ r \in Seq(CellValues) /\ a \o g \in Seq(CellValues)
    <3>1. a \in Seq(CellValues) /\ g \in Seq(CellValues) /\ r \in Seq(CellValues)
      BY <1>1, <1>7, MarkedType
    <3> HIDE DEF a, g, r
    <3> QED
      BY <3>1, ConcatProperties
  <2>4. Marked(fl.buffer) = g \o r
    BY <1>7, MarkedConcat
  <2>5. Marked(out \o before) = a \o g /\ out \o before \in Seq(Row)
    <3>1. Marked(out \o before) = Marked(out) \o Marked(before)
      BY <1>1, <1>7, MarkedConcat
    <3>2. out \o before \in Seq(Row)
      BY <1>1, <1>7, ConcatProperties
    <3> QED
      BY <2>2, <3>1, <3>2
  <2>6. \A s, t, u \in Seq(CellValues) : (s \o t) \o u = s \o (t \o u)
    BY ConcatAssociative
  <2>7. \A s, t \in Seq(CellValues) : \A y \in CellValues : s \o Append(t, y) = Append(s \o t, y)
    BY ConcatAppend
  <2>8. \A s \in Seq(CellValues) : s \o <<>> = s /\ \A y \in CellValues : Append(s, y) = s \o <<y>>
    BY ConcatEmptySeq, AppendIsConcat
  <2>9. Marked(<<>>) = <<>>
    BY MarkedEmpty
  <2>10. CASE MotionAfter(fl, row) \in Splines
    <3>1. fl'.buffer = Append(rest, row) /\ out' = out \o before
      BY <1>3, <1>6, <2>10
    <3>2. Marked(Append(rest, row)) = IF x # Null THEN Append(r, x) ELSE r
      <4>1. Marked(Append(rest, row)) = IF row.cells["flattened"] = Null /\ row.cells["X"] # Null
                                        THEN Append(Marked(rest), row.cells["X"]) ELSE Marked(rest)
        BY <1>2, <1>7, MarkedAppend
      <4> QED
        BY <1>2, <1>9, <2>10, <4>1
    <3> HIDE DEF a, g, r
    <3>3. (a \o g) \o r = a \o (g \o r)
      BY <2>3, <2>6
    <3>4. (a \o g) \o Append(r, x) = Append((a \o g) \o r, x)
      BY <1>15, <2>3, <2>7
    <3> QED
      BY <1>10, <1>14, <2>2, <2>4, <2>5, <3>1, <3>2, <3>3, <3>4
  <2>11. CASE MotionAfter(fl, row) \notin Splines
    <3>1. rest = <<>> /\ fl'.buffer = <<>> /\ out' = out \o (before \o Passing(fl, row))
      BY <1>3, <1>6, <2>11
    <3>2. r = <<>> /\ Marked(fl'.buffer) = <<>>
      BY <2>9, <3>1
    <3>3. (out \o before) \o Passing(fl, row) = out'
      <4>1. \A s, t, u \in Seq(Row) : (s \o t) \o u = s \o (t \o u)
        BY ConcatAssociative
      <4> QED
        BY <1>1, <1>7, <3>1, <4>1
    <3>4. Marked((out \o before) \o Passing(fl, row)) = Marked(out \o before) \o Marked(Passing(fl, row))
      BY <1>7, <2>5, MarkedConcat
    <3>5. Programmed(fed) = a \o g
      <4> HIDE DEF a, g, r
      <4>1. g \o <<>> = g
        BY <2>3, <2>8
      <4> QED
        BY <2>2, <2>4, <3>2, <4>1
    <3>6. Marked(out') = (a \o g) \o (IF x # Null THEN <<x>> ELSE <<>>)
      BY <1>4, <2>5, <3>3, <3>4
    <3> HIDE DEF a, g, r
    <3>7. Marked(out') \in Seq(CellValues)
      <4>1. <<x>> \in Seq(CellValues) /\ <<>> \in Seq(CellValues)
        BY <1>15
      <4>2. \A s, t \in Seq(CellValues) : s \o t \in Seq(CellValues)
        BY ConcatProperties
      <4> QED
        BY <2>3, <3>6, <4>1, <4>2
    <3>8. Marked(out') \o Marked(fl'.buffer) = Marked(out')
      BY <2>8, <3>2, <3>7
    <3>9. CASE x # Null
      <4>1. Append(a \o g, x) = (a \o g) \o <<x>>
        BY <1>15, <2>3, <2>8
      <4> QED
        BY <1>10, <1>14, <3>5, <3>6, <3>8, <3>9, <4>1
    <3>10. CASE x = Null
      <4>1. (a \o g) \o <<>> = a \o g
        BY <2>3, <2>8
      <4> QED
        BY <1>10, <1>14, <3>5, <3>6, <3>8, <3>10, <4>1
    <3> QED
      BY <3>9, <3>10
  <2> QED
    BY <2>10, <2>11
<1> QED
  BY <1>3, <1>16, <1>17, <1>18 DEF PathInv, OnPath

LEMMA FinishPath ==
  ASSUME Inv, PathInv, Finish
  PROVE  PathInv'
<1>1. /\ fl \in FlatState /\ fl.buffer \in Seq(Row) /\ out \in Seq(Row)
      /\ ~finished /\ finished' /\ fed' = fed /\ fl' = fl /\ out' = out \o FlushedSpline(fl)
  BY DEF Inv, TypeOK, FlatOK, Finish, Rest
<1>2. FlushedSpline(fl) \in Seq(Row)
  BY <1>1, BeforeType
<1>3. Marked(out \o FlushedSpline(fl)) = Marked(out) \o Marked(FlushedSpline(fl))
  BY <1>1, <1>2, MarkedConcat
<1>4. ASSUME Followable(fed) PROVE Marked(FlushedSpline(fl)) = Marked(fl.buffer)
  <2>1. CASE fl.buffer # <<>>
    BY <1>1, <1>4, <2>1, HeldPath
  <2>2. CASE fl.buffer = <<>>
    <3>1. PICK f : FlushesAlong(f, fl) /\ FlushedSpline(fl) = f[Len(fl.buffer)].out
      BY <1>1, FlushWalk
    <3>2. f[0].out = <<>> /\ Len(fl.buffer) = 0
      BY <2>2, <3>1 DEF FlushesAlong
    <3> QED
      BY <2>2, <3>1, <3>2
  <2> QED
    BY <2>1, <2>2
<1> QED
  BY <1>1, <1>3, <1>4 DEF PathInv, OnPath, Unmarked, Followable

(* Filtering on the mark recovers the programmed toolpath, whatever is     *)
(* pushed.                                                                 *)
THEOREM RecoversToolpath == Spec => []ToolpathRecovered
<1>1. Init => Inv /\ PathInv
  BY InitInv, InitPath
<1>2. Inv /\ PathInv /\ [Next]_vars => (Inv /\ PathInv)'
  <2> SUFFICES ASSUME Inv, PathInv, [Next]_vars PROVE PathInv'
    BY NextInv
  <2>1. CASE UNCHANGED vars
    BY <2>1 DEF PathInv, OnPath, Unmarked, Followable, vars
  <2>2. CASE \E kind \in Kinds : PushRow(kind)
    BY <2>2, PushPath
  <2>3. CASE Finish
    BY <2>3, FinishPath
  <2> QED
    BY <2>1, <2>2, <2>3 DEF Next
<1>3. Inv /\ PathInv => ToolpathRecovered
  <2> SUFFICES ASSUME Inv, PathInv, finished, \A i \in DOMAIN fed : MotionAt(fed, i) # "BSPLINE"
               PROVE  Marked(out) = Programmed(fed)
    BY DEF ToolpathRecovered
  <2>1. DOMAIN fed = 1..Len(fed)
    BY LenProperties DEF Inv, TypeOK
  <2> QED
    BY <2>1 DEF PathInv, OnPath, Followable
<1> QED
  BY <1>1, <1>2, <1>3, PTL DEF Spec

-----------------------------------------------------------------------------
(* The motion every row let out reads as.                                  *)

Straight(rows) ==
  \A j \in 1..Len(rows) :
    /\ MotionAt(rows, j) \notin Splines
    /\ rows[j].cells["flattened"] # Null => MotionAt(rows, j) = "G1"

(* A spline's first row is a point, and only its points name a motion.     *)
Spine(rows) ==
  /\ rows # <<>> => IsPoint(rows[1])
  /\ \A i \in 1..Len(rows) : ~IsPoint(rows[i]) => rows[i].cells["motion"] = Null
  /\ \A i \in 1..Len(rows) : rows[i].cells["flattened"] = Null

LinearInv == Straight(out) /\ Spine(fl.buffer) /\ (fl.motion \in Splines => fl.buffer # <<>>)

Ends(rows) == MotionAt(rows, Len(rows))

LEMMA EndsStraight ==
  ASSUME NEW rows \in Seq(Row), Straight(rows)
  PROVE  Ends(rows) \notin Splines
<1>1. CASE Len(rows) = 0
  BY <1>1, MotionNone DEF Ends, Splines
<1>2. CASE Len(rows) # 0
  <2>1. Len(rows) \in 1..Len(rows)
    BY <1>2, LenNat
  <2> QED
    BY <2>1 DEF Straight, Ends
<1> QED
  BY <1>1, <1>2

LEMMA StraightAppend ==
  ASSUME NEW rows \in Seq(Row), Straight(rows), NEW row \in Row,
         MotionUnder(rows, row) \notin Splines,
         row.cells["flattened"] # Null => MotionUnder(rows, row) = "G1"
  PROVE  Straight(Append(rows, row)) /\ Ends(Append(rows, row)) = MotionUnder(rows, row)
<1> DEFINE t == Append(rows, row)
           n == Len(rows)
<1>1. n \in Nat /\ Len(t) = n + 1 /\ t[n + 1] = row /\ \A i \in 1..n : t[i] = rows[i]
  BY Grown
<1>2. /\ \A i \in 1..n : MotionAt(t, i) = MotionAt(rows, i)
      /\ MotionAt(t, n + 1) = MotionUnder(rows, row)
  BY MotionGrown
<1> HIDE DEF t
<1>3. \A i \in 1..n + 1 : i = n + 1 \/ i \in 1..n
  BY <1>1
<1>4. Straight(t)
  BY <1>1, <1>2, <1>3 DEF Straight
<1>5. Ends(t) = MotionUnder(rows, row)
  BY <1>1, <1>2 DEF Ends
<1> QED
  BY <1>4, <1>5 DEF t

(* A run that starts as G1, or where G1 is in effect, is one.              *)
LEMMA StraightRun ==
  ASSUME NEW rows \in Seq(Row), Straight(rows), NEW run \in Seq(Row), run # <<>>,
         run[1].cells["motion"] = "G1" \/ (run[1].cells["motion"] = Null /\ Ends(rows) = "G1"),
         \A k \in 2..Len(run) : run[k].cells["motion"] = Null
  PROVE  Straight(rows \o run) /\ Ends(rows \o run) = "G1"
<1> DEFINE n == Len(run)
           M == {k \in Nat : 1 <= k /\ k <= n => /\ Straight(rows \o SubSeq(run, 1, k))
                                                 /\ Ends(rows \o SubSeq(run, 1, k)) = "G1"}
<1>1. n \in Nat /\ n # 0 /\ "G1" # Null /\ "G1" \notin Splines
  <2>1. n \in Nat /\ n # 0
    BY LenNat
  <2> QED
    BY <2>1, NullAssumption DEF Words, Splines
<1>2. 0 \in M
  OBVIOUS
<1>3. ASSUME NEW m \in Nat, m \in M PROVE m + 1 \in M
  <2> DEFINE k == m + 1
             before == rows \o SubSeq(run, 1, m)
  <2>1. SUFFICES ASSUME k <= n
                 PROVE  Straight(rows \o SubSeq(run, 1, k)) /\ Ends(rows \o SubSeq(run, 1, k)) = "G1"
    OBVIOUS
  <2>2. k \in 1..n /\ k - 1 = m /\ m \in 0..n
    BY <1>1, <2>1
  <2>3. SubSeq(run, 1, m) \in Seq(Row) /\ run[k] \in Row
        /\ SubSeq(run, 1, k) = Append(SubSeq(run, 1, m), run[k])
    BY <2>2, PrefixType, PrefixNext, ElementOfSeq
  <2>4. before \in Seq(Row) /\ rows \o SubSeq(run, 1, k) = Append(before, run[k])
    <3>1. \A s, t \in Seq(Row) : \A x \in Row : s \o Append(t, x) = Append(s \o t, x) /\ s \o t \in Seq(Row)
      BY ConcatAppend
    <3> QED
      BY <2>3, <3>1
  <2>5. Straight(before) /\ MotionUnder(before, run[k]) = "G1"
    <3>1. CASE m = 0
      <4>1. before = rows
        <5>1. SubSeq(run, 1, 0) = <<>>
          BY SubSeqEmpty
        <5> QED
          BY <3>1, <5>1, ConcatEmptySeq
      <4>2. run[k].cells["motion"] = "G1" \/ (run[k].cells["motion"] = Null /\ Ends(rows) = "G1")
        BY <3>1
      <4> HIDE DEF before, k
      <4> QED
        BY <1>1, <4>1, <4>2 DEF MotionUnder, Ends
    <3>2. CASE m # 0
      <4>1. 1 <= m /\ m <= n /\ k \in 2..n
        BY <2>2, <3>2
      <4>2. Straight(before) /\ Ends(before) = "G1"
        BY <1>3, <4>1
      <4>3. run[k].cells["motion"] = Null
        BY <4>1
      <4> HIDE DEF before, k
      <4> QED
        BY <4>2, <4>3 DEF MotionUnder, Ends
    <3> QED
      BY <3>1, <3>2
  <2> HIDE DEF before, k
  <2> QED
    BY <1>1, <2>3, <2>4, <2>5, StraightAppend
<1> HIDE DEF M
<1>4. n \in M
  BY <1>1, <1>2, <1>3, SetInduction
<1>5. 1 <= n /\ n <= n
  BY <1>1
<1>6. SubSeq(run, 1, n) = run
  BY SubSeqFull
<1> QED
  BY <1>1, <1>4, <1>5, <1>6 DEF M

LEMMA StraightFlush ==
  ASSUME NEW rows \in Seq(Row), Straight(rows), NEW fl0 \in FlatState, Spine(fl0.buffer)
  PROVE  Straight(rows \o FlushedSpline(fl0))
<1> DEFINE b == fl0.buffer
           n == Len(b)
<1>1. b \in Seq(Row) /\ n \in Nat
  BY FlatFields, LenNat
<1>2. PICK f : FlushesAlong(f, fl0) /\ FlushedSpline(fl0) = f[n].out
  BY <1>1, FlushWalk
<1>3. \A i \in 0..n : f[i] \in FlushState
  BY <1>2 DEF FlushesAlong
<1>4. f[0].out = <<>> /\ f[0].points = 0
  BY <1>2 DEF FlushesAlong
<1>5. ASSUME NEW i \in 1..n
      PROVE  /\ f[i].out = IF IsPoint(b[i]) THEN f[i - 1].out \o StatedRun(fl0, b[i], f[i - 1].points + 1)
                           ELSE Append(f[i - 1].out, b[i])
             /\ f[i].points = IF IsPoint(b[i]) THEN f[i - 1].points + 1 ELSE f[i - 1].points
  BY <1>2, FlushedOut
<1> DEFINE M == {i \in Nat : i <= n => /\ Straight(rows \o f[i].out)
                                       /\ i # 0 => f[i].points # 0 /\ Ends(rows \o f[i].out) = "G1"}
<1>6. 0 \in M
  <2>1. rows \o f[0].out = rows
    BY <1>4, ConcatEmptySeq
  <2> QED
    BY <2>1
<1>7. ASSUME NEW m \in Nat, m \in M PROVE m + 1 \in M
  <2> DEFINE k == m + 1
             before == rows \o f[m].out
  <2>1. SUFFICES ASSUME k <= n
                 PROVE  Straight(rows \o f[k].out) /\ f[k].points # 0 /\ Ends(rows \o f[k].out) = "G1"
    OBVIOUS
  <2>2. k \in 1..n /\ k - 1 = m /\ m \in 0..n /\ m <= n
    BY <1>1, <2>1
  <2>3. b[k] \in Row /\ f[m].out \in Seq(Row) /\ f[m].points \in Nat
    BY <1>1, <1>3, <2>2, ElementOfSeq DEF FlushState
  <2>4. /\ Straight(before) /\ before \in Seq(Row)
        /\ m # 0 => f[m].points # 0 /\ Ends(before) = "G1"
        /\ m = 0 => f[m].points = 0
    BY <1>4, <1>7, <2>2, <2>3, ConcatProperties
  <2>5. /\ f[k].out = IF IsPoint(b[k]) THEN f[m].out \o StatedRun(fl0, b[k], f[m].points + 1)
                      ELSE Append(f[m].out, b[k])
        /\ f[k].points = IF IsPoint(b[k]) THEN f[m].points + 1 ELSE f[m].points
    <3> HIDE DEF k
    <3> QED
      BY <1>5, <2>2
  <2>6. ~IsPoint(b[k]) => m # 0 /\ b[k].cells["motion"] = Null /\ b[k].cells["flattened"] = Null
    <3>1. b # <<>> /\ \A i \in 1..n : b[i].cells["flattened"] = Null
      BY <1>1, <2>2, LenNat DEF Spine
    <3>2. m = 0 => IsPoint(b[k])
      BY <3>1 DEF Spine
    <3>3. ~IsPoint(b[k]) => b[k].cells["motion"] = Null
      BY <2>2 DEF Spine
    <3> QED
      BY <2>2, <3>1, <3>2, <3>3
  <2> HIDE DEF k, before
  <2>7. CASE IsPoint(b[k])
    <3> DEFINE run == StatedRun(fl0, b[k], f[m].points + 1)
    <3>1. /\ run \in Seq(Row) /\ run # <<>>
          /\ run[1].cells["motion"] = IF f[m].points + 1 = 1 THEN "G1" ELSE Null
          /\ \A i \in 2..Len(run) : run[i].cells["motion"] = Null
      BY <2>3, <2>7, StatedRunIs DEF IsPoint, RunOf
    <3>2. f[k].out = f[m].out \o run /\ f[k].points = f[m].points + 1
      BY <2>5, <2>7
    <3> HIDE DEF run
    <3>3. run[1].cells["motion"] = "G1" \/ (run[1].cells["motion"] = Null /\ Ends(before) = "G1")
      BY <2>3, <2>4, <3>1
    <3>4. Straight(before \o run) /\ Ends(before \o run) = "G1"
      BY <2>4, <3>1, <3>3, StraightRun
    <3>5. rows \o f[k].out = before \o run
      <4>1. \A s, t, u \in Seq(Row) : (s \o t) \o u = s \o (t \o u)
        BY ConcatAssociative
      <4>2. (rows \o f[m].out) \o run = rows \o (f[m].out \o run)
        BY <2>3, <3>1, <4>1
      <4> QED
        BY <3>2, <4>2 DEF before
    <3> QED
      BY <2>3, <3>2, <3>4, <3>5
  <2>8. CASE ~IsPoint(b[k])
    <3>1. f[k].out = Append(f[m].out, b[k]) /\ f[k].points # 0
      BY <2>4, <2>5, <2>6, <2>8
    <3>2. rows \o f[k].out = Append(before, b[k])
      <4>1. \A s, t \in Seq(Row) : \A x \in Row : s \o Append(t, x) = Append(s \o t, x)
        BY ConcatAppend
      <4> QED
        BY <2>3, <3>1, <4>1 DEF before
    <3>3. MotionUnder(before, b[k]) = "G1"
      BY <2>4, <2>6, <2>8 DEF MotionUnder, Ends
    <3>4. Straight(Append(before, b[k])) /\ Ends(Append(before, b[k])) = "G1"
      <4>1. "G1" \notin Splines
        BY DEF Splines
      <4> QED
        BY <2>3, <2>4, <3>3, <4>1, StraightAppend
    <3> QED
      BY <3>1, <3>2, <3>4
  <2> QED
    BY <2>7, <2>8
<1> HIDE DEF M
<1>8. n \in M
  BY <1>1, <1>6, <1>7, SetInduction
<1> QED
  BY <1>1, <1>2, <1>8 DEF M

LEMMA PushLinear ==
  ASSUME SplinesMove, Inv, LinearInv, NEW kind \in Kinds, PushRow(kind)
  PROVE  LinearInv'
<1> DEFINE n == Len(fed)
           row == [kind EXCEPT !.line = n + 1]
           p   == Push(fl, row)
           before == Before(fl, row)
           rest   == Staying(fl, row)
           motion == MotionAfter(fl, row)
<1>1. fed \in Seq(Row) /\ out \in Seq(Row) /\ n + 1 \in Nat /\ FlatOK(fl) /\ fl \in FlatState
      /\ fl.buffer \in Seq(Row)
  <2>1. fed \in Seq(Row) /\ out \in Seq(Row) /\ FlatOK(fl)
    BY DEF Inv, TypeOK
  <2>2. n \in Nat
    BY <2>1, LenNat
  <2> QED
    BY <2>1, <2>2, FlatFields DEF FlatOK
<1>2. /\ row \in Row /\ row.cells["flattened"] = Null
      /\ row.cells["motion"] \in Splines => row.cells["X"] # Null
  <2>1. row \in Row /\ row.cells = kind.cells
    BY <1>1, PushedRow
  <2> QED
    BY <2>1, KindsAssumption DEF SplinesMove
<1>3. fl' = p.fl /\ out' = out \o p.out
  BY DEF PushRow, Inv, TypeOK
<1>4. /\ p.fl.motion = motion
      /\ motion \in Splines => p.fl.buffer = Append(rest, row) /\ p.out = before
      /\ motion \notin Splines => p.fl.buffer = <<>> /\ p.out = before \o Passing(fl, row)
  BY <1>1, <1>2, PushIs
<1>5. before \in Seq(Row) /\ Passing(fl, row) \in Seq(Row) /\ rest \in Seq(Row)
  BY <1>1, <1>2, BeforeType, PassingRuns, EmptySeq DEF Staying
<1>6. out \o before \in Seq(Row) /\ Straight(out \o before)
  <2>1. out \o <<>> = out
    BY <1>1, ConcatEmptySeq
  <2>2. Straight(out \o FlushedSpline(fl))
    BY <1>1, StraightFlush DEF LinearInv
  <2> QED
    BY <1>1, <1>5, <2>1, <2>2, ConcatProperties DEF Before, LinearInv
<1>7. motion \in Splines /\ rest = <<>> => row.cells["motion"] \in Splines
  BY DEF MotionAfter, Staying, Deselects, LinearInv
<1>8. motion \in Splines /\ row.cells["motion"] # Null => row.cells["motion"] \in Splines
  BY DEF MotionAfter
<1>9. motion \notin Splines => row.cells["motion"] \notin Splines \/ row.cells["motion"] = Null
  BY DEF MotionAfter
<1>10. Spine(rest)
  <2>1. Spine(<<>>)
    BY EmptySeq DEF Spine
  <2> QED
    BY <2>1 DEF Staying, LinearInv
<1> HIDE DEF row, p, before, rest, motion
<1>11. CASE motion \in Splines
  <2> DEFINE t == Append(rest, row)
  <2>1. fl'.buffer = t /\ fl'.motion = motion /\ out' = out \o before
    BY <1>3, <1>4, <1>11
  <2>2. /\ Len(rest) \in Nat /\ t # <<>> /\ Len(t) = Len(rest) + 1 /\ t[Len(rest) + 1] = row
        /\ \A i \in 1..Len(rest) : t[i] = rest[i]
    BY <1>2, <1>5, Grown
  <2> HIDE DEF t
  <2>3. IsPoint(t[1])
    <3>1. CASE rest = <<>>
      <4>1. t[1] = row
        BY <2>2, <3>1
      <4> QED
        BY <1>2, <1>7, <1>11, <3>1, <4>1 DEF IsPoint
    <3>2. CASE rest # <<>>
      <4>1. Len(rest) # 0
        BY <1>5, <3>2, LenNat
      <4>2. t[1] = rest[1]
        BY <2>2, <4>1
      <4> QED
        BY <1>10, <3>2, <4>2 DEF Spine
    <3> QED
      BY <3>1, <3>2
  <2>4. \A i \in 1..Len(t) : i = Len(rest) + 1 \/ i \in 1..Len(rest)
    BY <2>2
  <2>5. ~IsPoint(row) => row.cells["motion"] = Null
    BY <1>2, <1>8, <1>11 DEF IsPoint
  <2>6. Spine(t)
    BY <1>2, <1>10, <2>2, <2>3, <2>4, <2>5 DEF Spine
  <2> QED
    BY <1>6, <2>1, <2>2, <2>6 DEF LinearInv
<1>12. CASE motion \notin Splines
  <2>1. fl'.buffer = <<>> /\ fl'.motion = motion /\ out' = out \o (before \o Passing(fl, row))
    BY <1>3, <1>4, <1>12
  <2>2. out' = (out \o before) \o Passing(fl, row)
    <3>1. \A s, t, u \in Seq(Row) : (s \o t) \o u = s \o (t \o u)
      BY ConcatAssociative
    <3> QED
      BY <1>1, <1>5, <2>1, <3>1
  <2>3. Spine(<<>>)
    BY EmptySeq DEF Spine
  <2>4. CASE Passing(fl, row) = <<row>>
    <3>1. MotionUnder(out \o before, row) \notin Splines
      <4>1. Ends(out \o before) \notin Splines
        BY <1>6, EndsStraight
      <4> QED
        BY <1>9, <1>12, <4>1 DEF MotionUnder, Ends
    <3>2. Straight(Append(out \o before, row))
      BY <1>2, <1>6, <3>1, StraightAppend
    <3>3. out' = Append(out \o before, row)
      BY <1>2, <1>6, <2>2, <2>4, AppendIsConcat
    <3> QED
      BY <1>12, <2>1, <2>3, <3>2, <3>3 DEF LinearInv
  <2>5. CASE Passing(fl, row) # <<row>>
    <3> DEFINE run == Passing(fl, row)
    <3>1. run = Run(row, row.cut, Positioned(fl, row), Null)
      BY <2>5 DEF Passing, Arc
    <3>2. row.cut \in Nat \ {0} /\ row.cells \in Cells
      BY <1>2, RowFields
    <3>3. Positioned(fl, row) \in CellValues
      BY <1>1, <3>2, FlatFields DEF Positioned, Cells, Columns, CellValues
    <3>4. run # <<>> /\ run[1].cells["motion"] = "G1" /\ \A k \in 2..Len(run) : run[k].cells["motion"] = Null
      <4> HIDE DEF run
      <4>1. /\ Len(run) = row.cut /\ Moves(run, Positioned(fl, row), Null)
            /\ run[1].cells["motion"] = "G1"
            /\ \A k \in 2..row.cut : run[k].cells["motion"] = Null
        BY <1>2, <3>1, <3>2, <3>3, RunIs
      <4> QED
        BY <4>1 DEF Moves
    <3> HIDE DEF run
    <3>5. Straight((out \o before) \o run)
      BY <1>5, <1>6, <3>4, StraightRun DEF run
    <3> QED
      BY <1>12, <2>1, <2>2, <2>3, <3>5 DEF LinearInv, run
  <2> QED
    BY <2>4, <2>5
<1> QED
  BY <1>11, <1>12

(* Every move let out reads as a linear one, if the blocks that name a     *)
(* spline program a position; a block that only names the spline again     *)
(* passes the name through (the Other branch of flush_spline).             *)
THEOREM LinearMoves == SplinesMove => (Spec => []MovesAreLinear)
<1> SUFFICES ASSUME SplinesMove PROVE Spec => []MovesAreLinear
  OBVIOUS
<1>1. Init => Inv /\ LinearInv
  <2> SUFFICES ASSUME Init PROVE LinearInv
    BY InitInv
  <2>1. out = <<>> /\ fl.buffer = <<>> /\ fl.motion = "G1" /\ \A i \in 1..Len(<<>>) : FALSE
    BY EmptySeq DEF Init, NewFlattener
  <2> QED
    BY <2>1 DEF LinearInv, Straight, Spine, Splines
<1>2. Inv /\ LinearInv /\ [Next]_vars => (Inv /\ LinearInv)'
  <2> SUFFICES ASSUME Inv, LinearInv, [Next]_vars PROVE LinearInv'
    BY NextInv
  <2>1. CASE UNCHANGED vars
    BY <2>1 DEF LinearInv, Straight, Spine, MotionAt, vars
  <2>2. CASE \E kind \in Kinds : PushRow(kind)
    BY <2>2, PushLinear
  <2>3. CASE Finish
    <3>1. fl' = fl /\ out' = out \o FlushedSpline(fl)
      BY <2>3 DEF Finish, Rest
    <3>2. out \in Seq(Row) /\ fl \in FlatState
      BY DEF Inv, TypeOK, FlatOK
    <3> QED
      BY <3>1, <3>2, StraightFlush DEF LinearInv
  <2> QED
    BY <2>1, <2>2, <2>3 DEF Next
<1>3. Inv /\ LinearInv => MovesAreLinear
  <2>1. Inv => DOMAIN out = 1..Len(out)
    BY LenProperties DEF Inv, TypeOK
  <2> QED
    BY <2>1 DEF LinearInv, Straight, MovesAreLinear
<1> QED
  BY <1>1, <1>2, <1>3, PTL DEF Spec
=============================================================================
