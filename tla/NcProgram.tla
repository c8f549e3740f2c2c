----------------------------- MODULE NcProgram -----------------------------
(***************************************************************************)
(* The parse tree of an NC program, as the two drivers of structured       *)
(* programs see it: block lists ("scopes") whose blocks carry jump targets *)
(* and at most one operation, some operations owning further block lists.  *)
(* Wording, number formats and the many kinds of leaf statement are        *)
(* abstracted: a statement assigns one name, an expression reads at most   *)
(* one variable.                                                           *)
(***************************************************************************)
EXTENDS Integers, Sequences, FiniteSets, FiniteSetsExt

CONSTANTS
  Scopes,          (* names of the block lists of a program                 *)
  Root,            (* the top-level block list                              *)
  NoScope,         (* an absent ELSE branch                                 *)
  Keys,            (* canonical jump targets: labels and block numbers      *)
  Vars,            (* names the symbol table can hold                       *)
  Axes,            (* axis words: their values go to the output row only    *)
  NoVar,           (* an expression that reads nothing                      *)
  Unset,           (* no entry in the symbol table                          *)
  Programs,        (* the parsed programs to interpret                      *)
  AllowUndefined   (* the allow_undefined_variables option                  *)

-----------------------------------------------------------------------------
(* Operations.  Every operation has every field; a tag uses its own.       *)

Leaf  == {"none", "stmt", "jumps", "case"}
Loops == {"while", "loop", "repeat", "for"}
Tags  == Leaf \cup Loops \cup {"if"}

Expr    == [var : Vars \cup {NoVar}, plus : Int]
Cond    == [lhs : Expr, rel : {"<", "==", ">="}, rhs : Int]
Keyword == {"GOTO", "GOTOB", "GOTOF", "GOTOC"}
Arm     == [cond : Cond, kw : Keyword, key : Keys]

Op == [tag  : Tags,
       cond : Cond,                          \* WHILE, IF, UNTIL
       var  : Vars \cup Axes \cup {NoVar},   \* assigned name, FOR counter
       expr : Expr,                          \* assigned value
       to   : Expr,                          \* FOR bound
       ends : BOOLEAN,                       \* the block holds M2, M17 or M30
       arms : Seq(Arm),                      \* jumps of the block, in order
       body : Scopes \cup {NoScope},
       alt  : Scopes \cup {NoScope}]

Block == [keys : SUBSET Keys, op : Op, comment : BOOLEAN]

(* A block without an operation; also what opened the top-level scope.     *)
NoExpr == [var |-> NoVar, plus |-> 0]
Always == [lhs |-> NoExpr, rel |-> "==", rhs |-> 0]
Nop    == [tag |-> "none", cond |-> Always, var |-> NoVar, expr |-> NoExpr, to |-> NoExpr,
           ends |-> FALSE, arms |-> <<>>, body |-> NoScope, alt |-> NoScope]

(* The block lists an operation opens: an IF has one or two, a loop one.   *)
Bodies(op) ==
  CASE op.tag \in Loops -> {op.body}
    [] op.tag = "if"    -> {op.body, op.alt} \ {NoScope}
    [] OTHER            -> {}

BlockAt(p, pos) == p[pos[1]][pos[2]]
Positions(p)    == UNION {{s} \X (1..Len(p[s])) : s \in Scopes}

(* The block whose operation opens scope s.                                *)
Owner(p, s) == CHOOSE pos \in Positions(p) : s \in Bodies(BlockAt(p, pos).op)

(* What the grammar guarantees of a parse tree: nested block lists, each   *)
(* written once, the top-level one inside no block.                        *)
WellNested(p) ==
  \A pos \in Positions(p) :
    LET inside == Bodies(BlockAt(p, pos).op)
    IN  /\ inside \subseteq Scopes \ {Root}
        /\ \A pos2 \in Positions(p) \ {pos} : inside \cap Bodies(BlockAt(p, pos2).op) = {}

(* The head of a FOR is an assignment.                                     *)
HeadsAssign(p) ==
  \A pos \in Positions(p) :
    LET op == BlockAt(p, pos).op IN op.tag = "for" => op.var # NoVar

(* An IF has a first body, however few blocks it holds.                    *)
BranchesExist(p) ==
  \A pos \in Positions(p) :
    LET op == BlockAt(p, pos).op IN op.tag = "if" => op.body # NoScope

IsProgram(p) ==
  p \in [Scopes -> Seq(Block)] /\ WellNested(p) /\ HeadsAssign(p) /\ BranchesExist(p)

ASSUME ProgramsAssumption ==
  /\ Root \in Scopes
  /\ NoScope \notin Scopes
  /\ Vars \cap Axes = {}
  /\ NoVar \notin Vars \cup Axes
  /\ Unset \notin Int
  /\ AllowUndefined \in BOOLEAN
  /\ \A p \in Programs : IsProgram(p)

-----------------------------------------------------------------------------
(* Jump targets of one scope.                                              *)

(* scan_jump_targets: the blocks of scope s that carry a key, and the keys *)
(* that appear in it.                                                      *)
Targets(p, s, key) == {i \in 1..Len(p[s]) : key \in p[s][i].keys}
ScanTargets(p, s)  == UNION {p[s][i].keys : i \in 1..Len(p[s])}

(* resolve_jump: GOTOB takes the last target at or before the current      *)
(* block, GOTOF the first one after it, GOTO and GOTOC look ahead first.   *)
(* 0 stands for None.                                                      *)
ResolveJump(p, s, current, arm) ==
  LET ahead  == {i \in Targets(p, s, arm.key) : i > current}
      behind == {i \in Targets(p, s, arm.key) : i <= current}
  IN  IF arm.kw # "GOTOB" /\ ahead # {} THEN Min(ahead)
      ELSE IF arm.kw # "GOTOF" /\ behind # {} THEN Max(behind)
      ELSE 0

-----------------------------------------------------------------------------
(* Expressions.  Reading a variable without a value is an error, or, with  *)
(* allow_undefined_variables, enters it into the symbol table as 0.        *)

Env == [Vars -> Int \cup {Unset}]

CanRead(e, env) == e.var = NoVar \/ env[e.var] # Unset \/ AllowUndefined

AfterReading(vs, env) == [v \in Vars |-> IF v \in vs /\ env[v] = Unset THEN 0 ELSE env[v]]

ValueOf(e, env) ==
  IF e.var = NoVar THEN e.plus ELSE e.plus + AfterReading({e.var}, env)[e.var]

Holds(c, env) ==
  LET v == ValueOf(c.lhs, env)
  IN  CASE c.rel = "<"  -> v < c.rhs
        [] c.rel = "==" -> v = c.rhs
        [] c.rel = ">=" -> v >= c.rhs
=============================================================================
