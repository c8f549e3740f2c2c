------------------------------ MODULE NcBlocks ------------------------------
(***************************************************************************)
(* The state of a run over a structured program, and the steps the two     *)
(* drivers share: executing a block without a body, and the operations on  *)
(* the stack of active scopes.  The cursor VM calls the walker's own leaf  *)
(* functions, so they are written once.                                    *)
(*                                                                         *)
(* A frame is an active scope: in the walker an invocation of run_blocks   *)
(* together with the loop statement that made it, in the VM a Frame.       *)
(***************************************************************************)
EXTENDS NcProgram, SequencesExt

CONSTANTS
  Limit,   (* iteration_limit                                              *)
  LogCap   (* bound of the model: calls to the output that are remembered  *)

ASSUME LimitAssumption == Limit \in Nat /\ LogCap \in Nat

VARIABLES
  prog,        (* the program being interpreted                            *)
  stack,       (* active scopes, the innermost last                        *)
  flow,        (* what the last block asked for: BlockFlow                 *)
  env,         (* state.symbol_table                                       *)
  jumpScopes,  (* state.jump_scopes: the keys of every active scope        *)
  seen,        (* state.seen_jump_targets                                  *)
  out,         (* the calls made to the output, in order                   *)
  status       (* "running", or how interpretation ended                   *)

vars == <<prog, stack, flow, env, jumpScopes, seen, out, status>>

(* BlockFlow::Continue, EndProgram and Jump(request).                      *)
Continue == [tag |-> "continue"]
EndFlow  == [tag |-> "end"]
Jump(arm) == [tag |-> "jump", arm |-> arm]

(* "LoopLimit", "NotFound", "NotHere" and "Undefined" are ParsingErrors,   *)
(* "NotHere" being JumpTargetNotFound with the hint that the destination   *)
(* exists; "Panic" is a panic of the interpreting thread.                  *)
Endings == {"done", "LoopLimit", "NotFound", "NotHere", "Undefined", "Panic"}

Frame == [scope : Scopes, index : Nat \ {0}, jumps : Nat, op : Op, count : Nat, end : Int]

NewFrame(s, op, count, end) ==
  [scope |-> s, index |-> 1, jumps |-> 0, op |-> op, count |-> count, end |-> end]

-----------------------------------------------------------------------------
(* Calls to the output.  They fill the row that is current, so a log of    *)
(* the calls determines every row.                                         *)

StartRow(line)      == <<"row", line[1], line[2]>>
Comment(line)       == <<"comment", line[1], line[2]>>
Cell(name, value)   == <<"cell", name, value>>
Change(name, value) == <<"change", name, value>>

OutputCall ==
  ({"row", "comment"} \X Scopes \X Nat) \cup ({"cell", "change"} \X (Vars \cup Axes) \X Int)

Emitted(calls) == IF Len(out) < LogCap THEN out \o calls ELSE out

(* The trailing comment of the block at line, if it has one.               *)
CommentAt(line) == IF BlockAt(prog, line).comment THEN <<Comment(line)>> ELSE <<>>

-----------------------------------------------------------------------------
Top   == Last(stack)
Here  == <<Top.scope, Top.index>>
HereOp == BlockAt(prog, Here).op

Running    == status = "running" /\ flow.tag = "continue"
AtBlock    == Running /\ Top.index <= Len(prog[Top.scope])
AtScopeEnd == Running /\ Top.index > Len(prog[Top.scope])

Advanced(s)      == [s EXCEPT ![Len(s)].index = @ + 1]
TopAt(i, n)      == [stack EXCEPT ![Len(stack)].index = i, ![Len(stack)].jumps = n]

(* The block at the cursor starts its row, runs and is left behind.        *)
Finish(calls) ==
  /\ out' = Emitted(<<StartRow(Here)>> \o calls \o CommentAt(Here))
  /\ stack' = Advanced(stack)

Fail(ending) ==
  /\ status' = ending
  /\ UNCHANGED <<prog, stack, flow, jumpScopes, seen>>

(* An expression of the block at the cursor reads a variable nobody set.   *)
FailReading(calls) ==
  /\ out' = Emitted(<<StartRow(Here)>> \o calls)
  /\ Fail("Undefined")

-----------------------------------------------------------------------------
(* interpret_block for blocks that open no body.                           *)

(* No operation: block number, label, comment, or a statement that touches *)
(* neither variables nor control.                                          *)
ExecPlain ==
  /\ AtBlock /\ HereOp.tag = "none"
  /\ Finish(<<>>)
  /\ UNCHANGED <<prog, flow, env, jumpScopes, seen, status>>

(* Statements: an assignment to a variable is kept and recorded as a       *)
(* change, one to an axis word lands in the row; an end-of-program M code  *)
(* lets the rest of the block execute first.                               *)
(* Mutant: axis words are kept in the symbol table, too.                   *)
AssignedAlways(op, env1) ==
  IF op.var = NoVar THEN env1
  ELSE [v \in DOMAIN env1 \cup {op.var} |-> IF v = op.var THEN ValueOf(op.expr, env1) ELSE env1[v]]

Assigned(op, env1) ==
  IF op.var \in Vars THEN [env1 EXCEPT ![op.var] = ValueOf(op.expr, env1)] ELSE env1

AssignmentCalls(op, env1) ==
  CASE op.var \in Vars -> <<Change(op.var, ValueOf(op.expr, env1))>>
    [] op.var \in Axes -> <<Cell(op.var, ValueOf(op.expr, env1))>>
    [] OTHER           -> <<>>

ExecStatement ==
  /\ AtBlock /\ HereOp.tag = "stmt"
  /\ LET env1 == AfterReading({HereOp.expr.var}, env)
     IN  IF CanRead(HereOp.expr, env)
         THEN /\ env' = Assigned(HereOp, env1)
              /\ out' = Emitted(<<StartRow(Here)>> \o AssignmentCalls(HereOp, env1) \o CommentAt(Here))
              /\ IF HereOp.ends
                 THEN flow' = EndFlow /\ UNCHANGED stack
                 ELSE stack' = Advanced(stack) /\ UNCHANGED flow
              /\ UNCHANGED <<prog, jumpScopes, seen, status>>
         ELSE FailReading(<<>>) /\ UNCHANGED env

(* Mutant: the destination was active at some time.                        *)
JumpTargetSeen(key) == key \in seen

(* GOTOC is suppressed when no active scope knows its destination.         *)
JumpTargetVisible(key) == \E k \in DOMAIN jumpScopes : key \in jumpScopes[k]
Suppressed(arm) == arm.kw = "GOTOC" /\ ~JumpTargetVisible(arm.key)

(* The arm that decides the block.  Of several IF..GOTO the first jump     *)
(* wins, so a suppressed GOTOC is passed over; in a CASE the first arm     *)
(* that matches decides even when its GOTOC is suppressed.  0 for none.    *)
DecidingArm(op) ==
  LET hits == {i \in DOMAIN op.arms :
                 Holds(op.arms[i].cond, env) /\ (op.tag = "case" \/ ~Suppressed(op.arms[i]))}
  IN  IF hits = {} THEN 0 ELSE Min(hits)

(* Conditions are evaluated up to the deciding arm and no further.         *)
Evaluated(op) == 1..(IF DecidingArm(op) = 0 THEN Len(op.arms) ELSE DecidingArm(op))

ExecJumps ==
  /\ AtBlock /\ HereOp.tag \in {"jumps", "case"}
  /\ LET k    == DecidingArm(HereOp)
         lhs  == {HereOp.arms[i].cond.lhs : i \in Evaluated(HereOp)}
     IN  IF \A e \in lhs : CanRead(e, env)
         THEN /\ env' = AfterReading({e.var : e \in lhs}, env)
              /\ out' = Emitted(<<StartRow(Here)>> \o CommentAt(Here))
              /\ IF k # 0 /\ ~Suppressed(HereOp.arms[k])
                 THEN flow' = Jump(HereOp.arms[k]) /\ UNCHANGED stack
                 ELSE stack' = Advanced(stack) /\ UNCHANGED flow
              /\ UNCHANGED <<prog, jumpScopes, seen, status>>
         ELSE FailReading(<<>>) /\ UNCHANGED env

ExecLeaf == ExecPlain \/ ExecStatement \/ ExecJumps

-----------------------------------------------------------------------------
(* Entering and leaving scopes.                                            *)

(* The jump targets of a scope are registered when it is entered.          *)
Enter(frame) ==
  /\ stack' = Append(stack, frame)
  /\ jumpScopes' = Append(jumpScopes, ScanTargets(prog, frame.scope))
  /\ seen' = seen \cup ScanTargets(prog, frame.scope)
  /\ UNCHANGED <<prog, flow, status>>

Destination == ResolveJump(prog, Top.scope, Top.index, flow.arm)

(* Mutant: the limit is one cycle late.                                    *)
TakeJumpLate ==
  /\ status = "running" /\ flow.tag = "jump" /\ Destination # 0
  /\ LET taken == IF Destination <= Top.index THEN Top.jumps + 1 ELSE Top.jumps
     IN  IF Destination <= Top.index /\ taken > Limit
         THEN Fail("LoopLimit")
         ELSE /\ stack' = TopAt(Destination, taken)
              /\ flow' = Continue
              /\ UNCHANGED <<prog, jumpScopes, seen, status>>
  /\ UNCHANGED <<env, out>>

(* Mutant: a block that jumps to itself is not a cycle.                    *)
TakeJumpStrict ==
  /\ status = "running" /\ flow.tag = "jump" /\ Destination # 0
  /\ LET taken == IF Destination < Top.index THEN Top.jumps + 1 ELSE Top.jumps
     IN  IF Destination < Top.index /\ taken >= Limit
         THEN Fail("LoopLimit")
         ELSE /\ stack' = TopAt(Destination, taken)
              /\ flow' = Continue
              /\ UNCHANGED <<prog, jumpScopes, seen, status>>
  /\ UNCHANGED <<env, out>>

(* A jump takes the nearest target of the innermost scope that has one in  *)
(* its direction.  Only a jump to an earlier block or to itself counts     *)
(* against the limit, which it trips at the same threshold as a loop.      *)
TakeJump ==
  /\ status = "running" /\ flow.tag = "jump" /\ Destination # 0
  /\ LET taken == IF Destination <= Top.index THEN Top.jumps + 1 ELSE Top.jumps
     IN  IF Destination <= Top.index /\ taken >= Limit
         THEN Fail("LoopLimit")
         ELSE /\ stack' = TopAt(Destination, taken)
              /\ flow' = Continue
              /\ UNCHANGED <<prog, jumpScopes, seen, status>>
  /\ UNCHANGED <<env, out>>

(* into_not_found_error: the hint depends on the scopes entered so far.    *)
JumpFailure == IF flow.arm.key \in seen THEN "NotHere" ELSE "NotFound"

Init ==
  /\ prog \in Programs
  /\ stack = <<NewFrame(Root, Nop, 0, 0)>>
  /\ flow = Continue
  /\ env = [v \in Vars |-> Unset]
  /\ jumpScopes = <<ScanTargets(prog, Root)>>
  /\ seen = ScanTargets(prog, Root)
  /\ out = <<>>
  /\ status = "running"

-----------------------------------------------------------------------------
Flow == [tag : {"continue", "end"}] \cup [tag : {"jump"}, arm : Arm]

TypeOK ==
  /\ IsProgram(prog)
  /\ stack \in Seq(Frame)
  /\ flow \in Flow
  /\ env \in Env
  /\ jumpScopes \in Seq(SUBSET Keys)
  /\ seen \subseteq Keys
  /\ out \in Seq(OutputCall)
  /\ status \in {"running"} \cup Endings

(* The stack of active scopes is the static nesting of the program around  *)
(* the cursor: the bottom frame is the top-level scope, and each further   *)
(* frame is a body of the operation its parent's cursor stands on, with    *)
(* that operation's loop data (interpret_blocks nests by recursion; no     *)
(* jump may leave a frame behind or tear one out of its place).  A run     *)
(* that has not ended has an active scope.                                 *)
NestedIn(p, st) ==
  st # <<>> =>
    /\ st[1].scope = Root /\ st[1].op = Nop
    /\ \A k \in 2..Len(st) :
         /\ st[k - 1].index <= Len(p[st[k - 1].scope])
         /\ st[k].op = p[st[k - 1].scope][st[k - 1].index].op
         /\ st[k].scope \in Bodies(st[k].op)

Nested == (status = "running" => stack # <<>>) /\ NestedIn(prog, stack)

(* state.jump_scopes, which decides whether a GOTOC is suppressed, lists   *)
(* the targets of exactly the active scopes, in stack order, at every      *)
(* block (the push and pop around run_blocks survive jumps, loops and      *)
(* ends).                                                                  *)
ScopesMirrorStack ==
  jumpScopes = [k \in DOMAIN stack |-> ScanTargets(prog, stack[k].scope)]

(* A live FOR finds its counter in the symbol table when it increments it  *)
(* (expect("Variable should exist")), whatever its body has done.          *)
CountersExist ==
  \A k \in DOMAIN stack :
    stack[k].op.tag = "for" => stack[k].op.var \in Vars /\ env[stack[k].op.var] \in Int

(* A GOTOC never raises the alarm it is there to suppress: if its target   *)
(* was visible when it executed, unwinding finds it (interpret_goto's      *)
(* visibility test and resolve_jump's search agree).                       *)
GotocNeverAlarms ==
  status \in {"NotFound", "NotHere"} => flow.tag = "jump" /\ flow.arm.kw # "GOTOC"

(* The last value the recorded changes give a variable.                    *)
Replayed(calls) ==
  [v \in Vars |->
     LET hits == {i \in DOMAIN calls : calls[i][1] = "change" /\ calls[i][2] = v}
     IN  IF hits = {} THEN Unset ELSE calls[Max(hits)][3]]

(* Replaying the recorded variable changes reconstructs the symbol table   *)
(* as it stands at any point (Row.variable_changes, output.rs): no         *)
(* assignment, counter step or way out of a loop goes unrecorded.          *)
ChangesRebuildEnv == Len(out) < LogCap => env = Replayed(out)

(* The limit counts per activation: no live loop or jump cycle has used it *)
(* up, in whatever way bodies were left and re-entered.                    *)
WithinLimit ==
  status = "running" => \A k \in DOMAIN stack :
    LET bound == IF stack[k].op.tag = "while" THEN Limit + 1 ELSE Limit
    IN  /\ stack[k].jumps = 0 \/ stack[k].jumps < Limit
        /\ stack[k].count = 0 \/ stack[k].count < bound

(* A loop that is left through its end, and not by a jump, has met its     *)
(* exit condition: WHILE is false, UNTIL is true, the FOR counter is past  *)
(* its bound - running out of iterations is an error, never a way out.     *)
LoopExit ==
  [][ \A k \in DOMAIN stack :
        (k = Len(stack) /\ Len(stack') = k - 1 /\ flow = Continue /\ status' = "running") =>
          LET op == stack[k].op IN
            CASE op.tag = "while"  -> ~Holds(op.cond, env')
              [] op.tag = "repeat" -> Holds(op.cond, env')
              [] op.tag = "for"    -> env'[op.var] > stack[k].end
              [] op.tag = "loop"   -> FALSE
              [] OTHER             -> TRUE ]_vars

(* The walk through a program follows its text (FlowGraph).                *)
Text == INSTANCE FlowGraph WITH
          at    <- IF stack = <<>> THEN <<Root, 0>> ELSE Here,
          ended <- status # "running"

FollowsText == Text!Spec

(* Every program ends or is stopped by the limit, whatever its jumps and   *)
(* loops do, unless the body of a FOR turns its counter back.              *)
Terminates == <>(status # "running")
=============================================================================
