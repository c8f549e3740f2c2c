------------------------------ MODULE CursorVm ------------------------------
(***************************************************************************)
(* The interpreter of structured programs with an explicit stack of frames *)
(* (NC_VM=1).  Leaf blocks run the walker's own functions; entering,       *)
(* ending and leaving scopes is the VM's.  A step executes one block, ends *)
(* one scope, or pops one frame of a jump or of the program end.           *)
(***************************************************************************)
EXTENDS NcBlocks

Skip(calls) ==
  /\ Finish(calls)
  /\ UNCHANGED <<prog, flow, jumpScopes, seen, status>>

(* Step::Enter leaves exec_block at once: a trailing comment of the block  *)
(* is not processed, then or later.                                        *)
Push(frame, calls) ==
  /\ Enter(frame)
  /\ out' = Emitted(<<StartRow(Here)>> \o calls)

-----------------------------------------------------------------------------
(* enter_if, enter_while, enter_loop, enter_repeat, enter_for.             *)

EnterIf ==
  /\ AtBlock /\ HereOp.tag = "if"
  /\ IF ~CanRead(HereOp.cond.lhs, env)
     THEN FailReading(<<>>) /\ UNCHANGED env
     ELSE /\ env' = AfterReading({HereOp.cond.lhs.var}, env)
          /\ CASE Holds(HereOp.cond, env) -> Push(NewFrame(HereOp.body, HereOp, 0, 0), <<>>)
               [] ~Holds(HereOp.cond, env) /\ HereOp.alt # NoScope ->
                    Push(NewFrame(HereOp.alt, HereOp, 0, 0), <<>>)
               [] OTHER -> Skip(<<>>)

EnterWhile ==
  /\ AtBlock /\ HereOp.tag = "while"
  /\ IF ~CanRead(HereOp.cond.lhs, env)
     THEN FailReading(<<>>) /\ UNCHANGED env
     ELSE /\ env' = AfterReading({HereOp.cond.lhs.var}, env)
          /\ IF Holds(HereOp.cond, env) /\ Limit > 0
             THEN Push(NewFrame(HereOp.body, HereOp, 1, 0), <<>>)
             ELSE Skip(<<>>)

EnterLoop ==
  /\ AtBlock /\ HereOp.tag \in {"loop", "repeat"}
  /\ Push(NewFrame(HereOp.body, HereOp, 0, 0), <<>>)
  /\ UNCHANGED env

(* The counter is assigned, then looked up in the symbol table, which does *)
(* not hold axis words.                                                    *)
EnterFor ==
  /\ AtBlock /\ HereOp.tag = "for"
  /\ IF ~CanRead(HereOp.expr, env)
     THEN FailReading(<<>>) /\ UNCHANGED env
     ELSE LET env1  == AfterReading({HereOp.expr.var}, env)
              env2  == Assigned(HereOp, env1)
              calls == <<Change(HereOp.var, ValueOf(HereOp.expr, env1))>>
              end   == ValueOf(HereOp.to, env2)
          IN  IF ~CanRead(HereOp.to, env2)
              THEN FailReading(calls) /\ env' = env2
              ELSE /\ env' = AfterReading({HereOp.to.var}, env2)
                   /\ CASE HereOp.var \notin Vars ->
                             Fail("Panic") /\ out' = Emitted(<<StartRow(Here)>> \o calls)
                        [] HereOp.var \in Vars /\ env2[HereOp.var] <= end ->
                             Push(NewFrame(HereOp.body, HereOp, 0, end), calls)
                        [] OTHER -> Skip(calls)

-----------------------------------------------------------------------------
(* scope_end.                                                              *)

(* The loop goes round in the same frame, whose jump counter runs on.      *)
Iterate(count) ==
  /\ stack' = [stack EXCEPT ![Len(stack)].index = 1, ![Len(stack)].count = count]
  /\ UNCHANGED <<prog, flow, jumpScopes, seen, status>>

(* Mutant: the enclosing scope stays at the control block.                 *)
PopOnly ==
  /\ stack' = Front(stack)
  /\ jumpScopes' = Front(jumpScopes)
  /\ UNCHANGED <<prog, flow, seen>>

(* On an error the frames are dropped with the run.                        *)
PopAndAdvance ==
  /\ stack' = IF Len(stack) = 1 THEN <<>> ELSE Advanced(Front(stack))
  /\ jumpScopes' = Front(jumpScopes)
  /\ UNCHANGED <<prog, flow, seen>>

PopAndGoOn == PopAndAdvance /\ UNCHANGED status

EndStraight ==
  /\ AtScopeEnd /\ Top.op.tag \in {"none", "if"}
  /\ PopAndAdvance
  /\ status' = IF Len(stack) = 1 THEN "done" ELSE status
  /\ UNCHANGED <<env, out>>

(* Mutant: going round does not count.                                     *)
EndWhileUncounted ==
  /\ AtScopeEnd /\ Top.op.tag = "while"
  /\ IF Holds(Top.op.cond, env) THEN Iterate(Top.count) ELSE PopAndGoOn
  /\ UNCHANGED <<env, out>>

EndWhile ==
  /\ AtScopeEnd /\ Top.op.tag = "while"
  /\ CASE Top.count < Limit /\ Holds(Top.op.cond, env) -> Iterate(Top.count + 1)
       [] Top.count >= Limit -> Fail("LoopLimit")
       [] OTHER -> PopAndGoOn
  /\ UNCHANGED <<env, out>>

EndLoop ==
  /\ AtScopeEnd /\ Top.op.tag = "loop"
  /\ IF Top.count + 1 >= Limit THEN Fail("LoopLimit") ELSE Iterate(Top.count + 1)
  /\ UNCHANGED <<env, out>>

EndRepeat ==
  /\ AtScopeEnd /\ Top.op.tag = "repeat"
  /\ CASE Top.count + 1 >= Limit -> Fail("LoopLimit") /\ UNCHANGED env
       [] Top.count + 1 < Limit /\ ~CanRead(Top.op.cond.lhs, env) ->
            Fail("Undefined") /\ UNCHANGED env
       [] OTHER ->
            /\ env' = AfterReading({Top.op.cond.lhs.var}, env)
            /\ IF Holds(Top.op.cond, env) THEN PopAndGoOn ELSE Iterate(Top.count + 1)
  /\ UNCHANGED out

EndFor ==
  /\ AtScopeEnd /\ Top.op.tag = "for"
  /\ LET next == env[Top.op.var] + 1
     IN  /\ env' = [env EXCEPT ![Top.op.var] = next]
         /\ out' = Emitted(<<Change(Top.op.var, next)>>)
         /\ IF next <= Top.end THEN Iterate(Top.count) ELSE PopAndGoOn

-----------------------------------------------------------------------------
(* resolve_across_stack and pop_all.                                       *)

(* Mutant: the enclosing scope has moved on when it looks for the target.  *)
PopFrameAdvancing(ending) ==
  /\ stack' = IF Len(stack) = 1 THEN <<>> ELSE Advanced(Front(stack))
  /\ jumpScopes' = Front(jumpScopes)
  /\ status' = IF Len(stack) = 1 THEN ending ELSE status
  /\ UNCHANGED <<prog, flow, env, seen, out>>

PopFrame(ending) ==
  /\ stack' = Front(stack)
  /\ jumpScopes' = Front(jumpScopes)
  /\ status' = IF Len(stack) = 1 THEN ending ELSE status
  /\ UNCHANGED <<prog, flow, env, seen, out>>

Propagate ==
  /\ status = "running" /\ flow.tag = "jump" /\ Destination = 0
  /\ PopFrame(JumpFailure)

PopAll ==
  /\ status = "running" /\ flow.tag = "end"
  /\ PopFrame("done")

-----------------------------------------------------------------------------
EnterBody == EnterIf \/ EnterWhile \/ EnterLoop \/ EnterFor
ScopeEnd  == EndStraight \/ EndWhile \/ EndLoop \/ EndRepeat \/ EndFor

Next ==
  \/ ExecLeaf
  \/ EnterBody
  \/ ScopeEnd
  \/ TakeJump
  \/ Propagate
  \/ PopAll

Spec     == Init /\ [][Next]_vars
FairSpec == Spec /\ WF_vars(Next)

-----------------------------------------------------------------------------
Walker == INSTANCE BlockWalker

(* The scopes written inside s, itself included: those every set of scopes *)
(* with s holds that holds the bodies of its blocks.                       *)
Inside(p, s) ==
  {t \in Scopes : \A S \in SUBSET Scopes :
     (s \in S /\ \A pos \in Positions(p) : pos[1] \in S => Bodies(BlockAt(p, pos).op) \subseteq S)
        => t \in S}

(* The jumps that may leave a block: its own and those of its bodies.      *)
Written(p, pos) ==
  {pos} \cup {q \in Positions(p) : \E s \in Bodies(BlockAt(p, pos).op) : q[1] \in Inside(p, s)}

Arms(p, pos) ==
  UNION {{BlockAt(p, q).op.arms[k] : k \in DOMAIN BlockAt(p, q).op.arms} : q \in Written(p, pos)}

(* What separates the two drivers: a zero limit, a comment behind a        *)
(* control statement, a FOR over an axis word, and jumps back to a block   *)
(* of a loop's body from inside that body, whose count the VM carries into *)
(* the next iteration.                                                     *)
Mirrorable ==
  /\ Limit > 0
  /\ \A p \in Programs : \A pos \in Positions(p) :
       LET b == BlockAt(p, pos) IN
         /\ Bodies(b.op) # {} => ~b.comment
         /\ b.op.tag = "for" => b.op.var \in Vars
         /\ b.op.tag \in Loops =>
              \A i \in 1..Len(p[b.op.body]) : \A arm \in Arms(p, <<b.op.body, i>>) :
                LET dest == ResolveJump(p, b.op.body, i, arm) IN dest = 0 \/ dest > i

(* On mirrorable programs every step of the VM is the walker's: same       *)
(* cursor, counters, variables, visible targets, calls to the output and   *)
(* ending.  (Both start in the same states.)                               *)
MirrorsWalker == [][Walker!Next]_vars
=============================================================================
