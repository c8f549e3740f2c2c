---------------------------- MODULE CursorParity ----------------------------
(***************************************************************************)
(* The same program interpreted by the walker and by the cursor VM, each   *)
(* from a fresh state, as the golden-corpus comparison runs them.  The VM  *)
(* is paused at a row budget, where the caller takes a snapshot and calls  *)
(* step_until again, on the VM or, the VM dropped, on the snapshot (the    *)
(* resume tests of vm.rs).                                                 *)
(***************************************************************************)
EXTENDS BlockWalker

CONSTANT
  Budgets          (* the row budgets the caller may pause at               *)

ASSUME BudgetsAssumption == Budgets \subseteq Nat

(* The variables of BlockWalker are the walker's.                          *)
VARIABLES
  vmStack, vmFlow, vmEnv, vmScopes, vmSeen, vmOut, vmStatus,  \* the VM
  budget,          \* stop_at_rows
  saved            \* the snapshot of a pause, in a sequence of at most one

walkerVars == <<stack, flow, env, jumpScopes, seen, out, status>>
vmVars     == <<vmStack, vmFlow, vmEnv, vmScopes, vmSeen, vmOut, vmStatus>>
pauseVars  == <<budget, saved>>
parityVars == <<prog, walkerVars, vmVars, pauseVars>>

Vm == INSTANCE CursorVm WITH
        stack <- vmStack, flow <- vmFlow, env <- vmEnv, jumpScopes <- vmScopes,
        seen <- vmSeen, out <- vmOut, status <- vmStatus

-----------------------------------------------------------------------------
(* Rows are committed when the next one starts, the empty ones dropped.    *)
Starts(calls)    == {i \in DOMAIN calls : calls[i][1] = "row"}
Committed(calls) == {i \in Starts(calls) : i + 1 \notin Starts(calls) /\ \E j \in Starts(calls) : j > i}
CollectedLen     == Cardinality(Committed(vmOut))

(* Mutant: the row in flight is left out.                                  *)
SnapshotCommitted ==
  [frames |-> vmStack, env |-> vmEnv, scopes |-> vmScopes, seen |-> vmSeen,
   rows   |-> SubSeq(vmOut, 1, Max(Starts(vmOut)) - 1)]

(* Clones of the Vm, of the State and of the collected output.             *)
Snapshot == [frames |-> vmStack, env |-> vmEnv, scopes |-> vmScopes, seen |-> vmSeen, rows |-> vmOut]

(* step_until looks at the budget after a block and the jump it took, not  *)
(* after the end of a scope.                                               *)
Pauses ==
  /\ Vm!AtBlock \/ vmFlow.tag = "jump"
  /\ vmStatus' = "running" /\ vmFlow' = Vm!Continue
  /\ CollectedLen' >= budget

ParityInit == Init /\ Vm!Init /\ budget \in Budgets /\ saved = <<>>

(* Neither run sees the other; they are stepped together, and one that has *)
(* more to do goes on alone.                                               *)
WalkerStep == IF status = "running" THEN Next ELSE UNCHANGED walkerVars

VmStep ==
  IF vmStatus = "running"
  THEN Vm!Next /\ saved' = IF Pauses THEN <<Snapshot'>> ELSE <<>>
  ELSE UNCHANGED <<vmVars, saved>>

Run == saved = <<>> /\ WalkerStep /\ VmStep /\ UNCHANGED <<prog, budget>>

(* The next call of step_until, with a budget of its own: on the VM that   *)
(* has been paused ...                                                     *)
GoOn ==
  /\ saved # <<>> /\ saved' = <<>> /\ budget' \in Budgets
  /\ UNCHANGED <<prog, walkerVars, vmVars>>

(* ... or on the snapshot, which is all that is left of it.                *)
Resume ==
  /\ saved # <<>> /\ saved' = <<>> /\ budget' \in Budgets
  /\ vmStack' = saved[1].frames /\ vmEnv' = saved[1].env /\ vmScopes' = saved[1].scopes
  /\ vmSeen' = saved[1].seen /\ vmOut' = saved[1].rows
  /\ vmFlow' = Vm!Continue /\ vmStatus' = "running"
  /\ UNCHANGED <<prog, walkerVars>>

ParityNext     == Run \/ GoOn \/ Resume
ParitySpec     == ParityInit /\ [][ParityNext]_parityVars
FairParitySpec == ParitySpec /\ WF_parityVars(ParityNext)

BothEnded == status # "running" /\ vmStatus # "running"

(* The VM changes no outcome ("behaviour-preserving", vm.rs): the same     *)
(* ending, the same calls to the output, the same variables.               *)
SameOutcome ==
  BothEnded => /\ vmStatus = status
               /\ vmOut = out
               /\ vmEnv = env

(* What the comparison is about: a limit, no comment behind a control      *)
(* statement, and FORs that count with a variable.                         *)
Alike ==
  /\ Limit > 0
  /\ \A p \in Programs : \A pos \in Positions(p) :
       LET b == BlockAt(p, pos) IN
         /\ Bodies(b.op) # {} => ~b.comment
         /\ b.op.tag = "for" => b.op.var \in Vars

(* Whatever jumps and loops it takes (on programs whose control blocks     *)
(* have no trailing comment), a run of the VM that the iteration limit     *)
(* does not stop is the walker's run: same ending, output and variables,   *)
(* and so is a run resumed from snapshots, however often it is paused.     *)
AgreeOffLimit ==
  BothEnded /\ vmStatus # "LoopLimit" => vmStatus = status /\ vmOut = out /\ vmEnv = env

(* At no time has the VM produced a row, cell or change that the walker    *)
(* does not produce in its place: where the limit stops the VM early, the  *)
(* rows up to there are the same.                                          *)
RowsPrefix == IsPrefix(vmOut, out)

(* Both drivers come to an end, and so does a resumed run.                 *)
BothEnd == <>[]BothEnded
=============================================================================
