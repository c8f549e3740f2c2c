-------------------------- MODULE NcBlocks_proofs --------------------------
(***************************************************************************)
(* Lemmas about the state both drivers share: what the operators that read *)
(* and write the symbol table, the output log and the stack of scopes      *)
(* return.  They are cited by the proofs about each driver.                *)
(***************************************************************************)
EXTENDS NcBlocks, SequenceTheorems, WellFoundedInduction, TLAPS

-----------------------------------------------------------------------------
(* Sequences.                                                              *)

(* Dropping the last element leaves the others where they are.             *)
LEMMA FrontProps ==
  ASSUME NEW S, NEW s \in Seq(S), s # <<>>
  PROVE  /\ Front(s) \in Seq(S)
         /\ Len(s) \in Nat \ {0}
         /\ Len(Front(s)) = Len(s) - 1
         /\ \A i \in 1..(Len(s) - 1) : Front(s)[i] = s[i]
         /\ Last(s) = s[Len(s)] /\ s[Len(s)] \in S
<1>1. Len(s) \in Nat \ {0} /\ s[Len(s)] \in S
  BY EmptySeq, ElementOfSeq
<1>2. \A i \in 1..(Len(s) - 1) : s[i] \in S
  BY <1>1, ElementOfSeq
<1> DEFINE n == Len(s) - 1
<1>3. n \in Nat
  BY <1>1
<1>4. Front(s) = SubSeq(s, 1, n) /\ Last(s) = s[Len(s)]
  BY DEF Front, Last
<1> HIDE DEF n
<1>5. \A i \in 1..n : 1 + i - 1 = i
  BY <1>3
<1>6. \A i \in 1..n : s[i] \in S
  BY <1>2 DEF n
<1>7. n - 1 + 1 = n /\ (~(1 <= n) => n = 0)
  BY <1>3
<1>8. /\ SubSeq(s, 1, n) \in Seq(S)
      /\ Len(SubSeq(s, 1, n)) = IF 1 <= n THEN n - 1 + 1 ELSE 0
      /\ \A i \in 1..(n - 1 + 1) : SubSeq(s, 1, n)[i] = s[1 + i - 1]
  BY <1>3, <1>6, SubSeqProperties
<1> QED
  BY <1>1, <1>3, <1>4, <1>5, <1>8, <1>7 DEF n

-----------------------------------------------------------------------------
(* Extrema of sets of block indices.                                       *)

LEMMA MinInSet ==
  ASSUME NEW S, S \subseteq Nat, S # {}
  PROVE  Min(S) \in S /\ \A y \in S : Min(S) <= y
<1> DEFINE R == OpToRel(<, Nat)
<1>1. PICK x \in S : \A y \in S : <<y, x>> \notin R
  BY NatLessThanWellFounded, WFMin
<1>2. ASSUME NEW y \in S PROVE x <= y
  <2>1. y < x => <<y, x>> \in R
    BY DEF OpToRel
  <2>2. ~(y < x)
    BY <1>1, <2>1
  <2> QED
    BY <2>2
<1> QED
  BY <1>2 DEF Min

LEMMA MaxInSet ==
  ASSUME NEW n \in Nat, NEW S, S \subseteq 0..n, S # {}
  PROVE  Max(S) \in S /\ \A y \in S : Max(S) >= y
<1> DEFINE T == {n - y : y \in S}
<1>1. T \subseteq Nat /\ T # {}
  <2>1. \A y \in S : n - y \in Nat
    OBVIOUS
  <2> QED
    BY <2>1
<1>2. Min(T) \in T /\ \A t \in T : Min(T) <= t
  BY <1>1, MinInSet
<1>3. PICK x \in S : Min(T) = n - x
  BY <1>2
<1>4. ASSUME NEW y \in S PROVE x >= y
  <2>1. n - y \in T
    OBVIOUS
  <2>2. n - x <= n - y
    BY <1>2, <1>3, <2>1
  <2> QED
    BY <2>2
<1> QED
  BY <1>4 DEF Max

-----------------------------------------------------------------------------
(* Stacks.                                                                 *)

(* The fields of a frame, and what changing one keeps of the others.       *)
LEMMA FrameFields ==
  ASSUME NEW g \in Frame
  PROVE  /\ g.index \in Nat \ {0} /\ g.scope \in Scopes /\ g.op \in Op
         /\ g.count \in Nat /\ g.jumps \in Nat /\ g.end \in Int
BY SMT DEF Frame

LEMMA FrameIndex ==
  ASSUME NEW g \in Frame, NEW i \in Nat \ {0}
  PROVE  /\ [g EXCEPT !.index = i] \in Frame
         /\ [g EXCEPT !.index = i].scope = g.scope
         /\ [g EXCEPT !.index = i].op = g.op
         /\ [g EXCEPT !.index = i].index = i
BY SMT DEF Frame

LEMMA FrameJumps ==
  ASSUME NEW g \in Frame, NEW j \in Nat
  PROVE  /\ [g EXCEPT !.jumps = j] \in Frame
         /\ [g EXCEPT !.jumps = j].scope = g.scope
         /\ [g EXCEPT !.jumps = j].op = g.op
         /\ [g EXCEPT !.jumps = j].index = g.index
BY SMT DEF Frame

LEMMA NewFrameType ==
  ASSUME NEW s \in Scopes, NEW op \in Op, NEW c \in Nat, NEW e \in Int
  PROVE  /\ NewFrame(s, op, c, e) \in Frame
         /\ NewFrame(s, op, c, e).scope = s
         /\ NewFrame(s, op, c, e).op = op
BY SMT DEF Frame, NewFrame

(* Moving the cursor of the top frame leaves the other frames alone.       *)
LEMMA AdvancedProps ==
  ASSUME NEW s \in Seq(Frame), s # <<>>
  PROVE  /\ Advanced(s) \in Seq(Frame)
         /\ Len(Advanced(s)) = Len(s)
         /\ \A i \in 1..(Len(s) - 1) : Advanced(s)[i] = s[i]
         /\ Advanced(s)[Len(s)] = [s[Len(s)] EXCEPT !.index = s[Len(s)].index + 1]
<1> DEFINE f == [s[Len(s)] EXCEPT !.index = s[Len(s)].index + 1]
<1>1. Len(s) \in Nat \ {0} /\ s[Len(s)] \in Frame
  BY FrontProps
<1>2. f \in Frame
  <2>1. s[Len(s)].index + 1 \in Nat \ {0}
    BY <1>1, FrameFields
  <2> QED
    BY <1>1, <2>1, FrameIndex
<1>3. Advanced(s) = [s EXCEPT ![Len(s)] = f]
  BY <1>1, Zenon DEF Advanced
<1> HIDE DEF f
<1>4. /\ [s EXCEPT ![Len(s)] = f] \in Seq(Frame)
      /\ Len([s EXCEPT ![Len(s)] = f]) = Len(s)
      /\ \A j \in 1..Len(s) : [s EXCEPT ![Len(s)] = f][j] = IF j = Len(s) THEN f ELSE s[j]
  BY <1>1, <1>2, ExceptSeq
<1>5. \A i \in 1..(Len(s) - 1) : i \in 1..Len(s) /\ i # Len(s)
  BY <1>1
<1> QED
  BY <1>1, <1>3, <1>4, <1>5 DEF f

-----------------------------------------------------------------------------
(* The symbol table.                                                       *)

(* Reading variables leaves a symbol table, in which none lost its value.  *)
LEMMA Reading ==
  ASSUME NEW t \in Env, NEW vs
  PROVE  /\ AfterReading(vs, t) \in Env
         /\ \A v \in Vars : t[v] \in Int => AfterReading(vs, t)[v] \in Int
BY DEF AfterReading, Env

(* An expression has an integer value.                                     *)
LEMMA ValueType ==
  ASSUME NEW t \in Env, NEW e \in Expr
  PROVE  ValueOf(e, t) \in Int
<1>1. e.plus \in Int /\ (e.var # NoVar => e.var \in Vars)
  BY DEF Expr
<1>2. ASSUME e.var # NoVar PROVE AfterReading({e.var}, t)[e.var] \in Int
  BY <1>1, <1>2 DEF AfterReading, Env
<1> QED
  BY <1>1, <1>2 DEF ValueOf

(* The fields of an operation.                                             *)
LEMMA OpFields ==
  ASSUME NEW op \in Op
  PROVE  /\ op.cond \in Cond /\ op.cond.lhs \in Expr
         /\ op.var \in Vars \cup Axes \cup {NoVar}
         /\ op.expr \in Expr /\ op.to \in Expr
         /\ op.arms \in Seq(Arm)
         /\ op.body \in Scopes \cup {NoScope} /\ op.alt \in Scopes \cup {NoScope}
BY DEF Op, Cond

(* An assignment leaves a symbol table in which no variable lost its       *)
(* value.                                                                  *)
LEMMA Assigning ==
  ASSUME NEW t \in Env, NEW op \in Op
  PROVE  /\ Assigned(op, t) \in Env
         /\ \A v \in Vars : t[v] \in Int => Assigned(op, t)[v] \in Int
         /\ op.var \in Vars => Assigned(op, t)[op.var] \in Int
<1>1. ValueOf(op.expr, t) \in Int
  BY ValueType, OpFields
<1> QED
  BY <1>1 DEF Assigned, Env

-----------------------------------------------------------------------------
(* The output log.                                                         *)

LEMMA EmittedType ==
  ASSUME out \in Seq(OutputCall), NEW calls \in Seq(OutputCall)
  PROVE  Emitted(calls) \in Seq(OutputCall)
BY ConcatProperties DEF Emitted

LEMMA LineCalls ==
  ASSUME NEW line \in Scopes \X Nat
  PROVE  /\ <<StartRow(line)>> \in Seq(OutputCall)
         /\ CommentAt(line) \in Seq(OutputCall)
<1>1. StartRow(line) \in OutputCall /\ Comment(line) \in OutputCall
  BY DEF StartRow, Comment, OutputCall
<1> QED
  BY <1>1 DEF CommentAt

LEMMA ValueCalls ==
  ASSUME NEW name \in Vars \cup Axes, NEW value \in Int
  PROVE  Cell(name, value) \in OutputCall /\ Change(name, value) \in OutputCall
BY DEF Cell, Change, OutputCall

(* The row of the block at line, filled by further calls.                  *)
LEMMA RowType ==
  ASSUME out \in Seq(OutputCall), NEW line \in Scopes \X Nat, NEW calls \in Seq(OutputCall)
  PROVE  /\ Emitted(<<StartRow(line)>> \o calls) \in Seq(OutputCall)
         /\ Emitted(<<StartRow(line)>> \o calls \o CommentAt(line)) \in Seq(OutputCall)
         /\ Emitted(calls \o CommentAt(line)) \in Seq(OutputCall)
<1>1. <<StartRow(line)>> \in Seq(OutputCall) /\ CommentAt(line) \in Seq(OutputCall)
  BY LineCalls
<1>2. /\ <<StartRow(line)>> \o calls \in Seq(OutputCall)
      /\ (<<StartRow(line)>> \o calls) \o CommentAt(line) \in Seq(OutputCall)
      /\ calls \o CommentAt(line) \in Seq(OutputCall)
  BY <1>1, ConcatProperties
<1> QED
  BY <1>2, EmittedType

-----------------------------------------------------------------------------
(* The stack of scopes, with the targets state.jump_scopes keeps for it.   *)

Scoped(p, st, js) ==
  /\ st \in Seq(Frame) /\ NestedIn(p, st)
  /\ js = [k \in DOMAIN st |-> ScanTargets(p, st[k].scope)]

Counting(st, t) ==
  \A k \in DOMAIN st : st[k].op.tag = "for" => st[k].op.var \in Vars /\ t[st[k].op.var] \in Int

(* Replacing the top frame by one of the same scope and operation.         *)
LEMMA ReplaceTop ==
  ASSUME NEW p, NEW st, NEW js, Scoped(p, st, js), st # <<>>,
         NEW f \in Frame, f.scope = st[Len(st)].scope, f.op = st[Len(st)].op
  PROVE  LET st1 == [st EXCEPT ![Len(st)] = f]
         IN  /\ Scoped(p, st1, js) /\ st1 # <<>> /\ Len(st1) = Len(st)
             /\ \A t : Counting(st, t) => Counting(st1, t)
<1> DEFINE n == Len(st)
           st1 == [st EXCEPT ![n] = f]
<1>1. st \in Seq(Frame) /\ n \in Nat \ {0}
  BY FrontProps DEF Scoped
<1>2. /\ st1 \in Seq(Frame) /\ Len(st1) = n
      /\ \A j \in 1..n : st1[j] = IF j = n THEN f ELSE st[j]
  BY <1>1, ExceptSeq
<1>3. DOMAIN st = 1..n /\ DOMAIN st1 = 1..n
  BY <1>1, <1>2, LenProperties
<1> HIDE DEF st1
<1>4. \A j \in 1..n : st1[j].scope = st[j].scope /\ st1[j].op = st[j].op
  BY <1>2
<1>5. NestedIn(p, st1)
  <2>1. st1[1].scope = Root /\ st1[1].op = Nop
    BY <1>1, <1>4 DEF Scoped, NestedIn
  <2>2. ASSUME NEW k \in 2..n
        PROVE  /\ st1[k - 1].index <= Len(p[st1[k - 1].scope])
               /\ st1[k].op = p[st1[k - 1].scope][st1[k - 1].index].op
               /\ st1[k].scope \in Bodies(st1[k].op)
    <3>1. k \in 1..n /\ k - 1 \in 1..n /\ k - 1 # n
      BY <1>1
    <3>2. st1[k - 1] = st[k - 1] /\ st1[k].scope = st[k].scope /\ st1[k].op = st[k].op
      BY <1>2, <1>4, <3>1
    <3> QED
      BY <3>2 DEF Scoped, NestedIn
  <2> QED
    BY <1>2, <2>1, <2>2 DEF NestedIn
<1>6. js = [k \in DOMAIN st1 |-> ScanTargets(p, st1[k].scope)]
  BY <1>3, <1>4 DEF Scoped
<1>7. \A t : Counting(st, t) => Counting(st1, t)
  BY <1>3, <1>4 DEF Counting
<1>8. st1 # <<>>
  BY <1>1, <1>2, EmptySeq
<1> QED
  BY <1>2, <1>5, <1>6, <1>7, <1>8 DEF Scoped, st1

(* Going on to the next block of the top scope.                            *)
LEMMA AdvanceTop ==
  ASSUME NEW p, NEW st, NEW js, Scoped(p, st, js), st # <<>>
  PROVE  /\ Scoped(p, Advanced(st), js) /\ Advanced(st) # <<>> /\ Len(Advanced(st)) = Len(st)
         /\ \A t : Counting(st, t) => Counting(Advanced(st), t)
<1> DEFINE f == [st[Len(st)] EXCEPT !.index = st[Len(st)].index + 1]
<1>1. st[Len(st)] \in Frame
  BY FrontProps DEF Scoped
<1>2. st[Len(st)].index + 1 \in Nat \ {0}
  BY <1>1, FrameFields
<1>3. f \in Frame /\ f.scope = st[Len(st)].scope /\ f.op = st[Len(st)].op
  BY <1>1, <1>2, FrameIndex
<1>4. Advanced(st) = [st EXCEPT ![Len(st)] = f]
  BY DEF Advanced
<1> HIDE DEF f
<1>5. LET st1 == [st EXCEPT ![Len(st)] = f]
      IN  /\ Scoped(p, st1, js) /\ st1 # <<>> /\ Len(st1) = Len(st)
          /\ \A t : Counting(st, t) => Counting(st1, t)
  BY <1>3, ReplaceTop
<1> QED
  BY <1>4, <1>5

(* Leaving the top scope.                                                  *)
LEMMA Popped ==
  ASSUME NEW p, NEW st, NEW js, Scoped(p, st, js), st # <<>>
  PROVE  /\ Scoped(p, Front(st), Front(js)) /\ Len(Front(st)) = Len(st) - 1
         /\ Len(st) # 1 => Front(st) # <<>>
         /\ \A t : Counting(st, t) => Counting(Front(st), t)
<1> DEFINE n == Len(st)
           S == {ScanTargets(p, s) : s \in Scopes}
<1>1. /\ st \in Seq(Frame) /\ n \in Nat \ {0}
      /\ Front(st) \in Seq(Frame) /\ Len(Front(st)) = n - 1
      /\ \A i \in 1..(n - 1) : Front(st)[i] = st[i]
  BY FrontProps DEF Scoped
<1>2. DOMAIN st = 1..n /\ DOMAIN Front(st) = 1..(n - 1)
  BY <1>1, LenProperties
<1>3. js = [k \in 1..n |-> ScanTargets(p, st[k].scope)]
  BY <1>2 DEF Scoped
<1>4. js \in Seq(S) /\ Len(js) = n
  <2>1. \A k \in 1..n : st[k].scope \in Scopes
    BY <1>1, ElementOfSeq, FrameFields
  <2>2. js \in [1..n -> S]
    BY <1>3, <2>1
  <2> HIDE DEF n, S
  <2> QED
    BY <1>1, <2>2, SeqDef
<1>5. /\ Front(js) \in Seq(S) /\ Len(Front(js)) = n - 1
      /\ \A i \in 1..(n - 1) : Front(js)[i] = js[i]
  BY <1>1, <1>4, EmptySeq, FrontProps
<1>6. Front(js) = [k \in 1..(n - 1) |-> ScanTargets(p, Front(st)[k].scope)]
  <2>1. Front(js) = [k \in 1..(n - 1) |-> Front(js)[k]]
    BY <1>5, LenProperties
  <2>2. \A k \in 1..(n - 1) : Front(js)[k] = ScanTargets(p, Front(st)[k].scope)
    BY <1>1, <1>3, <1>5, SMTT(20)
  <2> QED
    BY <2>1, <2>2
<1>7. NestedIn(p, Front(st))
  <2>1. ASSUME Front(st) # <<>> PROVE Front(st)[1].scope = Root /\ Front(st)[1].op = Nop
    <3>1. n - 1 \in Nat \ {0}
      BY <1>1, <2>1, EmptySeq
    <3> QED
      BY <1>1, <3>1 DEF Scoped, NestedIn
  <2>2. ASSUME NEW k \in 2..(n - 1)
        PROVE  /\ Front(st)[k - 1].index <= Len(p[Front(st)[k - 1].scope])
               /\ Front(st)[k].op = p[Front(st)[k - 1].scope][Front(st)[k - 1].index].op
               /\ Front(st)[k].scope \in Bodies(Front(st)[k].op)
    <3>1. k \in 1..(n - 1) /\ k - 1 \in 1..(n - 1) /\ k \in 2..n
      BY <1>1
    <3>2. Front(st)[k - 1] = st[k - 1] /\ Front(st)[k] = st[k]
      BY <1>1, <3>1
    <3> QED
      BY <3>1, <3>2 DEF Scoped, NestedIn
  <2> QED
    BY <1>1, <2>1, <2>2 DEF NestedIn
<1>8. \A t : Counting(st, t) => Counting(Front(st), t)
  BY <1>1, <1>2 DEF Counting
<1>9. n # 1 => Front(st) # <<>>
  BY <1>1, EmptySeq
<1> QED
  BY <1>1, <1>2, <1>6, <1>7, <1>8, <1>9 DEF Scoped

(* Entering a body of the operation under the cursor.                      *)
LEMMA Pushed ==
  ASSUME NEW p, NEW st, NEW js, Scoped(p, st, js), st # <<>>, NEW f \in Frame,
         LET top == st[Len(st)]
         IN  top.index <= Len(p[top.scope]) /\ f.op = p[top.scope][top.index].op,
         f.scope \in Bodies(f.op)
  PROVE  /\ Scoped(p, Append(st, f), Append(js, ScanTargets(p, f.scope))) /\ Append(st, f) # <<>>
         /\ \A t : Counting(st, t) /\ (f.op.tag = "for" => f.op.var \in Vars /\ t[f.op.var] \in Int)
                 => Counting(Append(st, f), t)
<1> DEFINE n == Len(st)
           S == {ScanTargets(p, s) : s \in Scopes}
           st1 == Append(st, f)
           js1 == Append(js, ScanTargets(p, f.scope))
<1>1. st \in Seq(Frame) /\ n \in Nat \ {0}
  BY FrontProps DEF Scoped
<1>2. /\ st1 \in Seq(Frame) /\ st1 # <<>> /\ Len(st1) = n + 1
      /\ \A i \in 1..n : st1[i] = st[i]
      /\ st1[n + 1] = f
  BY <1>1, AppendProperties
<1>3. DOMAIN st = 1..n /\ DOMAIN st1 = 1..(n + 1)
  BY <1>1, <1>2, LenProperties
<1>4. js = [k \in 1..n |-> ScanTargets(p, st[k].scope)]
  BY <1>3 DEF Scoped
<1>5. js \in Seq(S) /\ Len(js) = n
  <2>1. \A k \in 1..n : st[k].scope \in Scopes
    BY <1>1, ElementOfSeq, FrameFields
  <2>2. js \in [1..n -> S]
    BY <1>4, <2>1
  <2> HIDE DEF n, S
  <2> QED
    BY <1>1, <2>2, SeqDef
<1>6. /\ js1 \in Seq(S) /\ Len(js1) = n + 1
      /\ \A i \in 1..n : js1[i] = js[i]
      /\ js1[n + 1] = ScanTargets(p, f.scope)
  <2>1. ScanTargets(p, f.scope) \in S
    BY FrameFields
  <2> QED
    BY <1>5, <2>1, AppendProperties
<1> HIDE DEF st1, js1
<1>7. js1 = [k \in 1..(n + 1) |-> ScanTargets(p, st1[k].scope)]
  <2>1. js1 = [k \in 1..(n + 1) |-> js1[k]]
    BY <1>6, LenProperties
  <2>2. ASSUME NEW k \in 1..(n + 1) PROVE js1[k] = ScanTargets(p, st1[k].scope)
    <3>1. CASE k = n + 1
      BY <1>2, <1>6, <3>1
    <3>2. CASE k # n + 1
      <4>1. k \in 1..n
        BY <1>1, <3>2
      <4> QED
        BY <1>2, <1>4, <1>6, <4>1
    <3> QED
      BY <3>1, <3>2
  <2> QED
    BY <2>1, <2>2
<1>8. NestedIn(p, st1)
  <2>1. st1[1].scope = Root /\ st1[1].op = Nop
    BY <1>1, <1>2 DEF Scoped, NestedIn
  <2>2. ASSUME NEW k \in 2..(n + 1)
        PROVE  /\ st1[k - 1].index <= Len(p[st1[k - 1].scope])
               /\ st1[k].op = p[st1[k - 1].scope][st1[k - 1].index].op
               /\ st1[k].scope \in Bodies(st1[k].op)
    <3>1. CASE k = n + 1
      <4>1. k - 1 = n /\ st1[k - 1] = st[n] /\ st1[k] = f
        BY <1>1, <1>2, <3>1
      <4> QED
        BY <4>1
    <3>2. CASE k # n + 1
      <4>1. k \in 2..n /\ k - 1 \in 1..n /\ k \in 1..n
        BY <1>1, <3>2
      <4> QED
        BY <1>2, <4>1 DEF Scoped, NestedIn
    <3> QED
      BY <3>1, <3>2
  <2> QED
    BY <1>2, <2>1, <2>2 DEF NestedIn
<1>9. ASSUME NEW t, Counting(st, t), f.op.tag = "for" => f.op.var \in Vars /\ t[f.op.var] \in Int
      PROVE  Counting(st1, t)
  <2>1. ASSUME NEW k \in 1..(n + 1), st1[k].op.tag = "for"
        PROVE  st1[k].op.var \in Vars /\ t[st1[k].op.var] \in Int
    <3>1. CASE k = n + 1
      BY <1>2, <1>9, <2>1, <3>1
    <3>2. CASE k # n + 1
      <4>1. k \in 1..n
        BY <1>1, <3>2
      <4> QED
        BY <1>2, <1>3, <1>9, <2>1, <4>1 DEF Counting
    <3> QED
      BY <3>1, <3>2
  <2> QED
    BY <1>3, <2>1 DEF Counting
<1> QED
  BY <1>2, <1>3, <1>7, <1>8, <1>9 DEF Scoped, st1, js1

-----------------------------------------------------------------------------
(* The inductive invariant: the types, the nesting of the stack with its   *)
(* visible targets, and the counters of the live FOR loops.                *)

Core ==
  /\ IsProgram(prog) /\ flow \in Flow /\ env \in Env /\ seen \subseteq Keys
  /\ out \in Seq(OutputCall) /\ status \in {"running"} \cup Endings
  /\ Scoped(prog, stack, jumpScopes) /\ Counting(stack, env)
  /\ status = "running" => stack # <<>>

(* The keys of a scope are jump targets.                                   *)
LEMMA ScanTargetsType ==
  ASSUME NEW p, IsProgram(p), NEW s \in Scopes
  PROVE  ScanTargets(p, s) \subseteq Keys
<1>1. p[s] \in Seq(Block)
  BY DEF IsProgram
<1>2. \A i \in 1..Len(p[s]) : p[s][i] \in Block
  BY <1>1, ElementOfSeq
<1>3. \A b \in Block : b.keys \subseteq Keys
  BY DEF Block
<1> QED
  BY <1>2, <1>3 DEF ScanTargets

(* The invariant implies the properties the runs check.                    *)
LEMMA CoreImplies ==
  Core => TypeOK /\ Nested /\ ScopesMirrorStack /\ CountersExist
<1> SUFFICES ASSUME Core PROVE TypeOK /\ Nested /\ ScopesMirrorStack /\ CountersExist
  OBVIOUS
<1>1. stack \in Seq(Frame) /\ Len(stack) \in Nat
  BY LenProperties DEF Core, Scoped
<1>2. jumpScopes \in Seq(SUBSET Keys)
  <2>1. \A k \in DOMAIN stack : stack[k].scope \in Scopes
    BY <1>1, LenProperties, ElementOfSeq, FrameFields
  <2>2. jumpScopes = [k \in 1..Len(stack) |-> ScanTargets(prog, stack[k].scope)]
    BY <1>1, LenProperties DEF Core, Scoped
  <2>3. jumpScopes \in [1..Len(stack) -> SUBSET Keys]
    BY <1>1, <2>1, <2>2, LenProperties, ScanTargetsType DEF Core
  <2> QED
    BY <1>1, <2>3, SeqDef
<1>3. TypeOK
  BY <1>1, <1>2 DEF Core, TypeOK
<1>4. Nested /\ ScopesMirrorStack /\ CountersExist
  BY DEF Core, Scoped, Counting, Nested, ScopesMirrorStack, CountersExist
<1> QED
  BY <1>3, <1>4

(* The cursor of a run that has not ended.                                 *)
LEMMA AtCursor ==
  ASSUME Core, status = "running"
  PROVE  /\ stack # <<>> /\ Top = stack[Len(stack)] /\ Top \in Frame
         /\ Top.op \in Op /\ Top.scope \in Scopes /\ Top.index \in Nat \ {0}
         /\ Here \in Scopes \X Nat
<1>1. stack # <<>> /\ stack \in Seq(Frame)
  BY DEF Core, Scoped
<1>2. Top = stack[Len(stack)] /\ Top \in Frame
  BY <1>1, FrontProps DEF Top
<1> QED
  BY <1>1, <1>2, FrameFields DEF Here

(* The block under the cursor.                                             *)
LEMMA AtBlockFacts ==
  ASSUME Core, AtBlock
  PROVE  /\ status = "running" /\ Top.index <= Len(prog[Top.scope])
         /\ HereOp = prog[Top.scope][Top.index].op /\ HereOp \in Op
         /\ Bodies(HereOp) \subseteq Scopes
         /\ HereOp.tag = "for" => HereOp.var \in Vars \cup Axes
         /\ HereOp.tag = "if" => HereOp.body # NoScope
         /\ Here \in Positions(prog)
<1>1. status = "running" /\ Top.index <= Len(prog[Top.scope])
  BY DEF AtBlock, Running
<1>2. Top.scope \in Scopes /\ Top.index \in Nat \ {0}
  BY <1>1, AtCursor
<1>3. prog[Top.scope] \in Seq(Block)
  BY <1>2 DEF Core, IsProgram
<1>4. Top.index \in 1..Len(prog[Top.scope])
  BY <1>1, <1>2, <1>3, LenProperties
<1>5. prog[Top.scope][Top.index] \in Block
  BY <1>3, <1>4, ElementOfSeq
<1>6. BlockAt(prog, Here) = prog[Top.scope][Top.index]
  BY DEF BlockAt, Here
<1>7. HereOp \in Op /\ HereOp = prog[Top.scope][Top.index].op
  BY <1>5, <1>6 DEF HereOp, Block
<1>8. Here \in Positions(prog)
  BY <1>2, <1>4 DEF Positions, Here
<1>9. /\ Bodies(HereOp) \subseteq Scopes /\ (HereOp.tag = "for" => HereOp.var # NoVar)
      /\ HereOp.tag = "if" => HereOp.body # NoScope
  BY <1>8 DEF Core, IsProgram, WellNested, HeadsAssign, BranchesExist, HereOp
<1> QED
  BY <1>1, <1>7, <1>8, <1>9, OpFields

-----------------------------------------------------------------------------
(* One lemma for each way a step changes the stack.                        *)

(* The symbol table stays one, and no variable loses its value.            *)
Kept == env' \in Env /\ \A v \in Vars : env[v] \in Int => env'[v] \in Int

LEMMA KeptCounting ==
  ASSUME NEW st, Counting(st, env), Kept
  PROVE  Counting(st, env')
BY DEF Counting, Kept

LEMMA StayStep ==
  ASSUME Core, Kept, out' \in Seq(OutputCall), flow' \in Flow,
         status' \in Endings \/ status' = status,
         UNCHANGED <<prog, stack, jumpScopes, seen>>
  PROVE  Core'
<1>1. Scoped(prog, stack, jumpScopes) /\ Counting(stack, env')
  BY KeptCounting DEF Core
<1>2. "running" \notin Endings
  BY DEF Endings
<1> QED
  BY <1>1, <1>2 DEF Core, Kept

LEMMA AdvanceStep ==
  ASSUME Core, status = "running", Kept, out' \in Seq(OutputCall), stack' = Advanced(stack),
         UNCHANGED <<prog, flow, jumpScopes, seen, status>>
  PROVE  Core'
<1>1. Scoped(prog, stack, jumpScopes) /\ stack # <<>> /\ Counting(stack, env')
  BY KeptCounting DEF Core
<1>2. Scoped(prog, stack', jumpScopes) /\ stack' # <<>> /\ Counting(stack', env')
  BY <1>1, AdvanceTop
<1> QED
  BY <1>2 DEF Core, Kept

LEMMA ReplaceStep ==
  ASSUME Core, status = "running", Kept, out' \in Seq(OutputCall), flow' \in Flow,
         NEW f \in Frame, f.scope = Top.scope, f.op = Top.op,
         stack' = [stack EXCEPT ![Len(stack)] = f],
         UNCHANGED <<prog, jumpScopes, seen, status>>
  PROVE  Core'
<1>1. Scoped(prog, stack, jumpScopes) /\ stack # <<>> /\ Counting(stack, env')
  BY KeptCounting DEF Core
<1>2. f.scope = stack[Len(stack)].scope /\ f.op = stack[Len(stack)].op
  BY AtCursor
<1>3. Scoped(prog, stack', jumpScopes) /\ stack' # <<>> /\ Counting(stack', env')
  BY <1>1, <1>2, ReplaceTop
<1> QED
  BY <1>3 DEF Core, Kept

LEMMA EnterStep ==
  ASSUME Core, AtBlock, Kept, out' \in Seq(OutputCall),
         NEW f \in Frame, f.op = HereOp, f.scope \in Bodies(HereOp),
         HereOp.tag = "for" => HereOp.var \in Vars /\ env'[HereOp.var] \in Int,
         Enter(f)
  PROVE  Core'
<1>1. /\ Scoped(prog, stack, jumpScopes) /\ stack # <<>> /\ Counting(stack, env')
      /\ Top = stack[Len(stack)]
  BY KeptCounting, AtBlockFacts, AtCursor DEF Core
<1>2. /\ Top.index <= Len(prog[Top.scope])
      /\ f.op = prog[Top.scope][Top.index].op
      /\ f.scope \in Scopes
  BY AtBlockFacts
<1>3. Scoped(prog, stack', jumpScopes') /\ stack' # <<>> /\ Counting(stack', env')
  BY <1>1, <1>2, Pushed DEF Enter
<1>4. seen' \subseteq Keys
  BY <1>2, ScanTargetsType DEF Enter, Core
<1> QED
  BY <1>3, <1>4 DEF Core, Kept, Enter

(* A scope is left, and with the last one the run ends.                    *)
LEMMA PopStep ==
  ASSUME Core, status = "running", Kept, out' \in Seq(OutputCall),
         stack' = Front(stack), jumpScopes' = Front(jumpScopes),
         IF Len(stack) = 1 THEN status' \in Endings ELSE status' = status,
         UNCHANGED <<prog, flow, seen>>
  PROVE  Core'
<1>1. Scoped(prog, stack, jumpScopes) /\ stack # <<>> /\ Counting(stack, env')
  BY KeptCounting DEF Core
<1>2. /\ Scoped(prog, stack', jumpScopes') /\ Counting(stack', env')
      /\ Len(stack) # 1 => stack' # <<>>
  BY <1>1, Popped
<1>3. "running" \notin Endings
  BY DEF Endings
<1> QED
  BY <1>2, <1>3 DEF Core, Kept

(* A body is left for the block after its owner.                           *)
LEMMA ReturnStep ==
  ASSUME Core, status = "running", Len(stack) # 1, Kept, out' \in Seq(OutputCall),
         stack' = Advanced(Front(stack)), jumpScopes' = Front(jumpScopes),
         UNCHANGED <<prog, flow, seen, status>>
  PROVE  Core'
<1>1. Scoped(prog, stack, jumpScopes) /\ stack # <<>> /\ Counting(stack, env')
  BY KeptCounting DEF Core
<1>2. Scoped(prog, Front(stack), jumpScopes') /\ Counting(Front(stack), env') /\ Front(stack) # <<>>
  BY <1>1, Popped
<1>3. Scoped(prog, stack', jumpScopes') /\ stack' # <<>> /\ Counting(stack', env')
  BY <1>2, AdvanceTop
<1> QED
  BY <1>3 DEF Core, Kept
-----------------------------------------------------------------------------
(* The steps both drivers share.                                           *)

LEMMA InitCore == Init => Core
<1> SUFFICES ASSUME Init PROVE Core
  OBVIOUS
<1> DEFINE f == NewFrame(Root, Nop, 0, 0)
<1>1. IsProgram(prog) /\ Root \in Scopes
  BY ProgramsAssumption DEF Init
<1>2. Nop \in Op
  BY DEF Nop, Op, Always, NoExpr, Cond, Expr, Tags, Leaf
<1>3. f \in Frame /\ f.scope = Root /\ f.op = Nop
  BY <1>1, <1>2, NewFrameType
<1> HIDE DEF f
<1>4. stack = <<f>> /\ stack \in Seq(Frame) /\ Len(stack) = 1 /\ stack[1] = f /\ DOMAIN stack = {1}
  BY <1>3 DEF Init, f
<1>5. NestedIn(prog, stack)
  BY <1>3, <1>4 DEF NestedIn
<1>6. jumpScopes = [k \in DOMAIN stack |-> ScanTargets(prog, stack[k].scope)]
  BY <1>3, <1>4 DEF Init
<1>7. Counting(stack, env)
  BY <1>3, <1>4 DEF Counting, Nop
<1>8. flow \in Flow /\ env \in Env /\ out \in Seq(OutputCall) /\ stack # <<>>
  BY <1>4 DEF Init, Flow, Continue, Env
<1>9. seen \subseteq Keys
  BY <1>1, ScanTargetsType DEF Init
<1> QED
  BY <1>1, <1>4, <1>5, <1>6, <1>7, <1>8, <1>9 DEF Core, Scoped, Init

(* What the block under the cursor writes.                                 *)
LEMMA RowHere ==
  ASSUME Core, status = "running", NEW calls \in Seq(OutputCall)
  PROVE  /\ Emitted(<<StartRow(Here)>> \o calls) \in Seq(OutputCall)
         /\ Emitted(<<StartRow(Here)>> \o calls \o CommentAt(Here)) \in Seq(OutputCall)
         /\ Emitted(<<StartRow(Here)>> \o CommentAt(Here)) \in Seq(OutputCall)
         /\ Emitted(<<StartRow(Here)>>) \in Seq(OutputCall)
<1>1. out \in Seq(OutputCall) /\ Here \in Scopes \X Nat
  BY AtCursor DEF Core
<1>2. /\ <<StartRow(Here)>> \in Seq(OutputCall) /\ CommentAt(Here) \in Seq(OutputCall)
      /\ <<StartRow(Here)>> \o CommentAt(Here) \in Seq(OutputCall)
  BY <1>1, LineCalls, ConcatProperties
<1> QED
  BY <1>1, <1>2, RowType, EmittedType

(* Reading variables keeps the symbol table.                               *)
LEMMA ReadingKeeps ==
  ASSUME Core, NEW vs, env' = AfterReading(vs, env)
  PROVE  Kept
BY Reading DEF Core, Kept

LEMMA SameKeeps ==
  ASSUME Core, env' = env
  PROVE  Kept
BY DEF Core, Kept

LEMMA FailReadingStep ==
  ASSUME Core, status = "running", NEW calls \in Seq(OutputCall), Kept, FailReading(calls)
  PROVE  Core'
<1>1. "Undefined" \in Endings
  BY DEF Endings
<1>2. out' \in Seq(OutputCall)
  BY RowHere DEF FailReading
<1> QED
  BY <1>1, <1>2, StayStep DEF FailReading, Fail, Core

LEMMA PlainStep ==
  ASSUME Core, ExecPlain
  PROVE  Core'
<1>1. status = "running" /\ Kept
  BY SameKeeps DEF ExecPlain, AtBlock, Running
<1>2. <<>> \in Seq(OutputCall)
  BY EmptySeq
<1>3. out' \in Seq(OutputCall) /\ stack' = Advanced(stack)
  BY <1>1, <1>2, RowHere DEF ExecPlain, Finish
<1> QED
  BY <1>1, <1>3, AdvanceStep DEF ExecPlain
LEMMA StatementStep ==
  ASSUME Core, ExecStatement
  PROVE  Core'
<1> DEFINE env1 == AfterReading({HereOp.expr.var}, env)
           calls == AssignmentCalls(HereOp, env1)
<1>1. AtBlock /\ status = "running" /\ HereOp \in Op
  BY AtBlockFacts DEF ExecStatement
<1>2. env1 \in Env /\ \A v \in Vars : env[v] \in Int => env1[v] \in Int
  BY Reading DEF Core
<1>3. CASE CanRead(HereOp.expr, env)
  <2>1. /\ env' = Assigned(HereOp, env1)
        /\ out' = Emitted(<<StartRow(Here)>> \o calls \o CommentAt(Here))
        /\ IF HereOp.ends
           THEN flow' = EndFlow /\ UNCHANGED stack
           ELSE stack' = Advanced(stack) /\ UNCHANGED flow
        /\ UNCHANGED <<prog, jumpScopes, seen, status>>
    BY <1>3 DEF ExecStatement
  <2> HIDE DEF env1
  <2>2. Kept
    BY <1>1, <1>2, <2>1, Assigning DEF Kept
  <2>3. calls \in Seq(OutputCall)
    <3>1. ValueOf(HereOp.expr, env1) \in Int
      BY <1>1, <1>2, ValueType, OpFields
    <3>2. CASE HereOp.var \in Vars
      <4>1. calls = <<Change(HereOp.var, ValueOf(HereOp.expr, env1))>>
        BY <3>2, ProgramsAssumption DEF AssignmentCalls
      <4> QED
        BY <3>1, <3>2, <4>1, ValueCalls
    <3>3. CASE HereOp.var \notin Vars /\ HereOp.var \in Axes
      <4>1. calls = <<Cell(HereOp.var, ValueOf(HereOp.expr, env1))>>
        BY <3>3 DEF AssignmentCalls
      <4> QED
        BY <3>1, <3>3, <4>1, ValueCalls
    <3>4. CASE HereOp.var \notin Vars /\ HereOp.var \notin Axes
      BY <3>4, EmptySeq DEF AssignmentCalls
    <3> QED
      BY <3>2, <3>3, <3>4
  <2>4. out' \in Seq(OutputCall)
    BY <1>1, <2>1, <2>3, RowHere
  <2>5. CASE HereOp.ends
    <3>1. flow' \in Flow
      BY <2>1, <2>5 DEF EndFlow, Flow
    <3> QED
      BY <2>1, <2>2, <2>4, <2>5, <3>1, StayStep
  <2>6. CASE ~HereOp.ends
    BY <1>1, <2>1, <2>2, <2>4, <2>6, AdvanceStep
  <2> QED
    BY <2>5, <2>6
<1>4. CASE ~CanRead(HereOp.expr, env)
  <2>1. FailReading(<<>>) /\ env' = env
    BY <1>4 DEF ExecStatement
  <2> QED
    BY <1>1, <2>1, SameKeeps, EmptySeq, FailReadingStep
<1> QED
  BY <1>3, <1>4

(* The arm that decides a block is one of its arms.                        *)
LEMMA DecidingArmProps ==
  ASSUME NEW op \in Op, DecidingArm(op) # 0
  PROVE  op.arms[DecidingArm(op)] \in Arm
<1> DEFINE hits == {i \in DOMAIN op.arms :
                     Holds(op.arms[i].cond, env) /\ (op.tag = "case" \/ ~Suppressed(op.arms[i]))}
<1>1. DecidingArm(op) = Min(hits) /\ hits # {}
  BY DEF DecidingArm
<1>2. op.arms \in Seq(Arm)
  BY OpFields
<1>3. hits \subseteq 1..Len(op.arms) /\ Len(op.arms) \in Nat
  BY <1>2, LenProperties
<1> HIDE DEF hits
<1>4. Min(hits) \in hits
  <2>1. hits \subseteq Nat
    BY <1>3
  <2> QED
    BY <1>1, <2>1, MinInSet
<1> QED
  BY <1>1, <1>2, <1>3, <1>4, ElementOfSeq
LEMMA JumpsStep ==
  ASSUME Core, ExecJumps
  PROVE  Core'
<1> DEFINE k   == DecidingArm(HereOp)
           lhs == {HereOp.arms[i].cond.lhs : i \in Evaluated(HereOp)}
<1>1. AtBlock /\ status = "running" /\ HereOp \in Op
  BY AtBlockFacts DEF ExecJumps
<1>2. CASE \A e \in lhs : CanRead(e, env)
  <2>1. /\ env' = AfterReading({e.var : e \in lhs}, env)
        /\ out' = Emitted(<<StartRow(Here)>> \o CommentAt(Here))
        /\ IF k # 0 /\ ~Suppressed(HereOp.arms[k])
           THEN flow' = Jump(HereOp.arms[k]) /\ UNCHANGED stack
           ELSE stack' = Advanced(stack) /\ UNCHANGED flow
        /\ UNCHANGED <<prog, jumpScopes, seen, status>>
    BY <1>2 DEF ExecJumps
  <2>2. Kept /\ out' \in Seq(OutputCall)
    BY <1>1, <2>1, ReadingKeeps, EmptySeq, RowHere
  <2>3. CASE k # 0 /\ ~Suppressed(HereOp.arms[k])
    <3>1. flow' \in Flow
      BY <1>1, <2>1, <2>3, DecidingArmProps DEF Jump, Flow
    <3> QED
      BY <2>1, <2>2, <2>3, <3>1, StayStep
  <2>4. CASE ~(k # 0 /\ ~Suppressed(HereOp.arms[k]))
    BY <1>1, <2>1, <2>2, <2>4, AdvanceStep
  <2> QED
    BY <2>3, <2>4
<1>3. CASE ~(\A e \in lhs : CanRead(e, env))
  <2>1. FailReading(<<>>) /\ env' = env
    BY <1>3 DEF ExecJumps
  <2> QED
    BY <1>1, <2>1, SameKeeps, EmptySeq, FailReadingStep
<1> QED
  BY <1>2, <1>3

(* Where a jump leads: 0, or a block of the scope that carries the key, on *)
(* the side the keyword looks at.                                          *)
LEMMA ResolveJumpProps ==
  ASSUME NEW p, IsProgram(p), NEW s \in Scopes, NEW current \in Nat, NEW arm \in Arm
  PROVE  LET dest == ResolveJump(p, s, current, arm)
         IN  dest = 0 \/ /\ dest \in 1..Len(p[s]) /\ arm.key \in p[s][dest].keys
                         /\ arm.kw = "GOTOB" => dest <= current
                         /\ arm.kw = "GOTOF" => dest > current
<1> DEFINE n      == Len(p[s])
           ahead  == {i \in Targets(p, s, arm.key) : i > current}
           behind == {i \in Targets(p, s, arm.key) : i <= current}
           dest   == ResolveJump(p, s, current, arm)
<1>1. n \in Nat
  BY LenProperties DEF IsProgram
<1>2. ahead \subseteq 0..n /\ behind \subseteq 0..n
  BY <1>1 DEF Targets
<1>3. CASE arm.kw # "GOTOB" /\ ahead # {}
  <2>1. dest = Min(ahead)
    BY <1>3 DEF ResolveJump
  <2>2. Min(ahead) \in ahead
    <3>1. ahead \subseteq Nat /\ ahead # {}
      BY <1>1, <1>2, <1>3
    <3> HIDE DEF ahead
    <3> QED
      BY <3>1, MinInSet
  <2> QED
    BY <1>3, <2>1, <2>2 DEF Targets
<1>4. CASE ~(arm.kw # "GOTOB" /\ ahead # {}) /\ arm.kw # "GOTOF" /\ behind # {}
  <2>1. dest = Max(behind)
    BY <1>4 DEF ResolveJump
  <2>2. Max(behind) \in behind
    BY <1>1, <1>2, <1>4, MaxInSet
  <2> QED
    BY <1>4, <2>1, <2>2 DEF Targets
<1>5. CASE ~(arm.kw # "GOTOB" /\ ahead # {}) /\ ~(arm.kw # "GOTOF" /\ behind # {})
  BY <1>5 DEF ResolveJump
<1> QED
  BY <1>3, <1>4, <1>5
LEMMA TakeJumpStep ==
  ASSUME Core, TakeJump
  PROVE  Core'
<1> DEFINE d     == Destination
           taken == IF d <= Top.index THEN Top.jumps + 1 ELSE Top.jumps
<1>1. status = "running" /\ flow.tag = "jump" /\ d # 0 /\ env' = env /\ out' = out
  BY DEF TakeJump
<1>2. Kept /\ out' \in Seq(OutputCall)
  BY <1>1, SameKeeps DEF Core
<1>3. CASE d <= Top.index /\ taken >= Limit
  <2>1. Fail("LoopLimit")
    BY <1>3 DEF TakeJump
  <2>2. "LoopLimit" \in Endings
    BY DEF Endings
  <2> QED
    BY <1>2, <2>1, <2>2, StayStep DEF Fail, Core
<1>4. CASE ~(d <= Top.index /\ taken >= Limit)
  <2>1. /\ stack' = TopAt(d, taken) /\ flow' = Continue
        /\ UNCHANGED <<prog, jumpScopes, seen, status>>
    BY <1>4 DEF TakeJump
  <2>2. /\ Top \in Frame /\ Top = stack[Len(stack)]
        /\ Top.scope \in Scopes /\ Top.index \in Nat /\ Top.jumps \in Nat
    BY <1>1, AtCursor, FrameFields
  <2>3. d \in Nat \ {0}
    <3>1. flow.arm \in Arm
      BY <1>1 DEF Core, Flow
    <3>2. Len(prog[Top.scope]) \in Nat
      BY <2>2, LenProperties DEF Core, IsProgram
    <3> QED
      BY <1>1, <2>2, <3>1, <3>2, ResolveJumpProps DEF Destination, Core
  <2>4. taken \in Nat
    BY <2>2
  <2> DEFINE g == [Top EXCEPT !.index = d]
             f == [g EXCEPT !.jumps = taken]
  <2>5. g \in Frame /\ g.scope = Top.scope /\ g.op = Top.op
    BY <2>2, <2>3, FrameIndex
  <2>6. f \in Frame /\ f.scope = Top.scope /\ f.op = Top.op
    <3> HIDE DEF g, taken
    <3> QED
      BY <2>4, <2>5, FrameJumps
  <2>7. stack' = [stack EXCEPT ![Len(stack)] = f]
    BY <2>1, <2>2 DEF TopAt
  <2>8. flow' \in Flow
    BY <2>1 DEF Continue, Flow
  <2> HIDE DEF f
  <2> QED
    BY <1>1, <1>2, <2>1, <2>6, <2>7, <2>8, ReplaceStep
<1> QED
  BY <1>3, <1>4

=============================================================================
