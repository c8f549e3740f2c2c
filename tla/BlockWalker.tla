---------------------------- MODULE BlockWalker ----------------------------
(***************************************************************************)
(* The recursive interpreter of structured programs: interpret_blocks,     *)
(* run_blocks and the interpret_statement_* functions, which call each     *)
(* other on the Rust stack.  A step executes one block, tests one loop or  *)
(* unwinds one scope.                                                      *)
(***************************************************************************)
EXTENDS NcBlocks

(* The block in the enclosing scope whose operation opened the top scope.  *)
Caller == LET f == stack[Len(stack) - 1] IN <<f.scope, f.index>>

(* Mutant: the block is counted as executed before its body runs.          *)
DescendAdvanced(frame, calls) ==
  /\ stack' = Append(Advanced(stack), frame)
  /\ jumpScopes' = Append(jumpScopes, ScanTargets(prog, frame.scope))
  /\ seen' = seen \cup ScanTargets(prog, frame.scope)
  /\ out' = Emitted(<<StartRow(Here)>> \o calls)
  /\ UNCHANGED <<prog, flow, status>>

(* Opening a body suspends the block: its trailing comment is still to be  *)
(* processed when the body is left.                                        *)
Descend(frame, calls) ==
  /\ Enter(frame)
  /\ out' = Emitted(<<StartRow(Here)>> \o calls)

Skip(calls) ==
  /\ Finish(calls)
  /\ UNCHANGED <<prog, flow, jumpScopes, seen, status>>

-----------------------------------------------------------------------------
(* interpret_statement_*, up to the first iteration.                       *)

EnterIf ==
  /\ AtBlock /\ HereOp.tag = "if"
  /\ IF ~CanRead(HereOp.cond.lhs, env)
     THEN FailReading(<<>>) /\ UNCHANGED env
     ELSE /\ env' = AfterReading({HereOp.cond.lhs.var}, env)
          /\ LET taken == IF Holds(HereOp.cond, env) THEN HereOp.body ELSE HereOp.alt
             IN  IF taken = NoScope THEN Skip(<<>>) ELSE Descend(NewFrame(taken, HereOp, 0, 0), <<>>)

EnterWhile ==
  /\ AtBlock /\ HereOp.tag = "while"
  /\ IF ~CanRead(HereOp.cond.lhs, env)
     THEN FailReading(<<>>) /\ UNCHANGED env
     ELSE /\ env' = AfterReading({HereOp.cond.lhs.var}, env)
          /\ CASE Limit = 0 -> Fail("LoopLimit") /\ out' = Emitted(<<StartRow(Here)>>)
               [] Limit > 0 /\ Holds(HereOp.cond, env) ->
                    Descend(NewFrame(HereOp.body, HereOp, 1, 0), <<>>)
               [] OTHER -> Skip(<<>>)

(* LOOP and REPEAT execute their body before the first test.               *)
EnterLoop ==
  /\ AtBlock /\ HereOp.tag \in {"loop", "repeat"}
  /\ Descend(NewFrame(HereOp.body, HereOp, 0, 0), <<>>)
  /\ UNCHANGED env

(* Mutant: the bound is compared with the value assigned, not with the     *)
(* counter found in the symbol table.                                      *)
EnterForAssigned ==
  /\ AtBlock /\ HereOp.tag = "for"
  /\ IF ~CanRead(HereOp.expr, env)
     THEN FailReading(<<>>) /\ UNCHANGED env
     ELSE LET env1 == AfterReading({HereOp.expr.var}, env)
          IN  /\ env' = Assigned(HereOp, env1)
              /\ IF ValueOf(HereOp.expr, env1) <= ValueOf(HereOp.to, env1)
                 THEN Descend(NewFrame(HereOp.body, HereOp, 0, ValueOf(HereOp.to, env1)), <<>>)
                 ELSE Skip(<<>>)

(* FOR assigns its counter before it evaluates its bound.  A counter that  *)
(* the symbol table does not hold (an axis word) iterates zero times.      *)
EnterFor ==
  /\ AtBlock /\ HereOp.tag = "for"
  /\ IF ~CanRead(HereOp.expr, env)
     THEN FailReading(<<>>) /\ UNCHANGED env
     ELSE LET env1  == AfterReading({HereOp.expr.var}, env)
              env2  == Assigned(HereOp, env1)
              calls == <<Change(HereOp.var, ValueOf(HereOp.expr, env1))>>
              end   == ValueOf(HereOp.to, env2)
          IN  IF ~CanRead(HereOp.to, env2)
              THEN FailReading(calls) /\ env' = env2
              ELSE /\ env' = AfterReading({HereOp.to.var}, env2)
                   /\ IF HereOp.var \in Vars /\ env2[HereOp.var] <= end
                      THEN Descend(NewFrame(HereOp.body, HereOp, 0, end), calls)
                      ELSE Skip(calls)

-----------------------------------------------------------------------------
(* The end of a body.                                                      *)

(* interpret_blocks returned Continue to a loop that iterates again: a new *)
(* call, whose jump counter starts at zero.                                *)
Iterate(count) ==
  /\ stack' = [stack EXCEPT ![Len(stack)] = NewFrame(Top.scope, Top.op, count, Top.end)]
  /\ UNCHANGED <<prog, flow, jumpScopes, seen, status>>

(* Mutant: the control block is not left when its body has run.            *)
ReturnToControl(calls) ==
  /\ stack' = Front(stack)
  /\ jumpScopes' = Front(jumpScopes)
  /\ out' = Emitted(calls \o CommentAt(Caller))
  /\ UNCHANGED <<prog, flow, seen, status>>

(* The block of the control statement is resumed and left.                 *)
Return(calls) ==
  /\ stack' = Advanced(Front(stack))
  /\ jumpScopes' = Front(jumpScopes)
  /\ out' = Emitted(calls \o CommentAt(Caller))
  /\ UNCHANGED <<prog, flow, seen, status>>

EndProgramText ==
  /\ AtScopeEnd /\ Len(stack) = 1
  /\ stack' = <<>> /\ jumpScopes' = <<>>
  /\ status' = "done"
  /\ UNCHANGED <<prog, flow, env, seen, out>>

EndIf ==
  /\ AtScopeEnd /\ Top.op.tag = "if"
  /\ Return(<<>>)
  /\ UNCHANGED env

(* Mutant: running out of iterations leaves the loop silently.             *)
EndWhileSilently ==
  /\ AtScopeEnd /\ Top.op.tag = "while"
  /\ IF Top.count < Limit /\ Holds(Top.op.cond, env)
     THEN Iterate(Top.count + 1) /\ UNCHANGED out
     ELSE Return(<<>>)
  /\ UNCHANGED env

(* The condition could be read when the loop was entered, and a variable   *)
(* never loses its value.  An exhausted limit is an error even when the    *)
(* condition has become false.                                             *)
EndWhile ==
  /\ AtScopeEnd /\ Top.op.tag = "while"
  /\ CASE Top.count >= Limit -> Fail("LoopLimit") /\ UNCHANGED out
       [] Top.count < Limit /\ Holds(Top.op.cond, env) ->
            Iterate(Top.count + 1) /\ UNCHANGED out
       [] OTHER -> Return(<<>>)
  /\ UNCHANGED env

EndLoop ==
  /\ AtScopeEnd /\ Top.op.tag = "loop"
  /\ IF Top.count + 1 >= Limit THEN Fail("LoopLimit") ELSE Iterate(Top.count + 1)
  /\ UNCHANGED <<env, out>>

EndRepeat ==
  /\ AtScopeEnd /\ Top.op.tag = "repeat"
  /\ CASE Top.count + 1 >= Limit -> Fail("LoopLimit") /\ UNCHANGED <<env, out>>
       [] Top.count + 1 < Limit /\ ~CanRead(Top.op.cond.lhs, env) ->
            Fail("Undefined") /\ UNCHANGED <<env, out>>
       [] OTHER ->
            /\ env' = AfterReading({Top.op.cond.lhs.var}, env)
            /\ IF Holds(Top.op.cond, env)
               THEN Return(<<>>)
               ELSE Iterate(Top.count + 1) /\ UNCHANGED out

(* Mutant: the last increment, which ends the loop, is not recorded.       *)
EndForUnrecorded ==
  /\ AtScopeEnd /\ Top.op.tag = "for"
  /\ LET next == env[Top.op.var] + 1
         call == <<Change(Top.op.var, next)>>
     IN  /\ env' = [env EXCEPT ![Top.op.var] = next]
         /\ IF next > Top.end
            THEN Return(<<>>)
            ELSE Iterate(Top.count) /\ out' = Emitted(call)

(* The increment is recorded on the last row of the body.                  *)
EndFor ==
  /\ AtScopeEnd /\ Top.op.tag = "for"
  /\ LET next == env[Top.op.var] + 1
         call == <<Change(Top.op.var, next)>>
     IN  /\ env' = [env EXCEPT ![Top.op.var] = next]
         /\ IF next > Top.end
            THEN Return(call)
            ELSE Iterate(Top.count) /\ out' = Emitted(call)

-----------------------------------------------------------------------------
(* Unwinding.  Every block the jump or the program end passes through      *)
(* still processes its trailing comment.                                   *)

(* Mutant: a scope left by a jump keeps its entry in jump_scopes.          *)
LeaveScopeEntry(ending) ==
  /\ stack' = Front(stack)
  /\ IF Len(stack) = 1
     THEN status' = ending /\ UNCHANGED out
     ELSE out' = Emitted(CommentAt(Caller)) /\ UNCHANGED status
  /\ UNCHANGED <<prog, flow, env, jumpScopes, seen>>

LeaveScope(ending) ==
  /\ stack' = Front(stack)
  /\ jumpScopes' = Front(jumpScopes)
  /\ IF Len(stack) = 1
     THEN status' = ending /\ UNCHANGED out
     ELSE out' = Emitted(CommentAt(Caller)) /\ UNCHANGED status
  /\ UNCHANGED <<prog, flow, env, seen>>

Propagate ==
  /\ status = "running" /\ flow.tag = "jump" /\ Destination = 0
  /\ LeaveScope(JumpFailure)

UnwindEnd ==
  /\ status = "running" /\ flow.tag = "end"
  /\ LeaveScope("done")

-----------------------------------------------------------------------------
EnterBody == EnterIf \/ EnterWhile \/ EnterLoop \/ EnterFor
EndOfBody == EndIf \/ EndWhile \/ EndLoop \/ EndRepeat \/ EndFor

Next ==
  \/ ExecLeaf
  \/ EnterBody
  \/ EndOfBody
  \/ EndProgramText
  \/ TakeJump
  \/ Propagate
  \/ UnwindEnd

Spec     == Init /\ [][Next]_vars
FairSpec == Spec /\ WF_vars(Next)

=============================================================================
