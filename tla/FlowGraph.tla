----------------------------- MODULE FlowGraph -----------------------------
(***************************************************************************)
(* What structured control flow promises, read off the program text alone: *)
(* where execution may be next, given where it is.  There is no stack, no  *)
(* counter and no data.  A body is entered at its first block and only     *)
(* from the block that owns it; it is left to the block after its owner,   *)
(* or by a jump to a target of the innermost scope around the jump that    *)
(* has one in its direction; execution ends at the end of the program, at  *)
(* an end-of-program M code, at a jump without destination, or anywhere    *)
(* by an error.                                                            *)
(***************************************************************************)
EXTENDS NcProgram

VARIABLES
  prog,   (* the program                                                   *)
  at,     (* the block to execute, or one past the last block of a scope   *)
  flow,   (* a jump looking for its target, an end unwinding, or neither   *)
  ended

vars == <<prog, at, flow, ended>>

Halt == <<Root, 0>>

Scope     == at[1]
PastEnd   == at[2] > Len(prog[Scope])
Op_       == BlockAt(prog, at).op
After(pos) == <<pos[1], pos[2] + 1>>

OwnerHere == Owner(prog, Scope)
OwnerOp   == BlockAt(prog, OwnerHere).op

Executing == ~ended /\ flow.tag = "continue" /\ ~PastEnd
AtEnd     == ~ended /\ flow.tag = "continue" /\ PastEnd

Init ==
  /\ IsProgram(prog)
  /\ at = <<Root, 1>>
  /\ flow = [tag |-> "continue"]
  /\ ended = FALSE

Goto(pos) == at' = pos /\ UNCHANGED <<prog, flow, ended>>

(* A LOOP or REPEAT is never passed over, an end block never continued.    *)
PassOn ==
  /\ Executing /\ Op_.tag \notin {"loop", "repeat"} /\ (Op_.tag = "stmt" => ~Op_.ends)
  /\ Goto(After(at))

GoInside ==
  /\ Executing
  /\ \E b \in Bodies(Op_) : Goto(<<b, 1>>)

GoAround ==
  /\ AtEnd /\ Scope # Root /\ OwnerOp.tag \in Loops
  /\ Goto(<<Scope, 1>>)

(* A LOOP is only left by a jump.                                          *)
GoOn ==
  /\ AtEnd /\ Scope # Root /\ OwnerOp.tag # "loop"
  /\ Goto(After(OwnerHere))

BeginJump ==
  /\ Executing /\ Op_.tag \in {"jumps", "case"}
  /\ \E k \in DOMAIN Op_.arms : flow' = [tag |-> "jump", arm |-> Op_.arms[k]]
  /\ UNCHANGED <<prog, at, ended>>

BeginEnd ==
  /\ Executing /\ Op_.tag = "stmt" /\ Op_.ends
  /\ flow' = [tag |-> "end"]
  /\ UNCHANGED <<prog, at, ended>>

Found == ResolveJump(prog, Scope, at[2], flow.arm)

Land ==
  /\ ~ended /\ flow.tag = "jump" /\ Found # 0
  /\ at' = <<Scope, Found>> /\ flow' = [tag |-> "continue"]
  /\ UNCHANGED <<prog, ended>>

GoOutside ==
  /\ ~ended /\ Scope # Root
  /\ flow.tag = "end" \/ (flow.tag = "jump" /\ Found = 0)
  /\ Goto(OwnerHere)

(* Past the last block of the program, or out of its outermost scope.      *)
Stop ==
  /\ ~ended /\ Scope = Root
  /\ flow.tag = "end" \/ (flow.tag = "jump" /\ Found = 0) \/ (flow.tag = "continue" /\ PastEnd)
  /\ at' = Halt /\ ended' = TRUE
  /\ UNCHANGED <<prog, flow>>

Abort ==
  /\ ~ended /\ ended' = TRUE
  /\ UNCHANGED <<prog, at, flow>>

Next ==
  \/ PassOn \/ GoInside \/ GoAround \/ GoOn
  \/ BeginJump \/ BeginEnd \/ Land \/ GoOutside
  \/ Stop \/ Abort

Spec == Init /\ [][Next]_vars
=============================================================================
