------------------------------ MODULE Delivery ------------------------------
(***************************************************************************)
(* What an iterator over an NC program promises, whatever thread, channel, *)
(* batch or buffer lies behind it: the rows of the program's table, in     *)
(* order, and the end of the iteration only after the last one.            *)
(***************************************************************************)
EXTENDS Integers, Sequences

CONSTANTS
  Jobs,       (* calls to nc_to_rows or nc_to_batches                      *)
  Table(_)    (* the rows of the table of a call                           *)

VARIABLES
  job,        (* the call                                                  *)
  delivered,  (* the rows handed out                                       *)
  ended       (* how the iteration ended                                   *)

Complete == Table(job)

-----------------------------------------------------------------------------
Init == job \in Jobs /\ delivered = <<>> /\ ended = "no"

Deliver ==
  /\ ended = "no"
  /\ \E n \in Len(delivered) + 1..Len(Complete) : delivered' = SubSeq(Complete, 1, n)
  /\ UNCHANGED <<job, ended>>

(* A worker that panics leaves nothing behind to raise.                    *)
Exhaust ==
  /\ ended = "no" /\ job.ending \in {"done", "panic"} /\ delivered = Complete
  /\ ended' = "exhausted"
  /\ UNCHANGED <<job, delivered>>

Raise ==
  /\ ended = "no" /\ job.ending = "error"
  /\ ended' = "raised"
  /\ UNCHANGED <<job, delivered>>

Drop ==
  /\ ended = "no"
  /\ ended' = "dropped"
  /\ UNCHANGED <<job, delivered>>

Next == Deliver \/ Exhaust \/ Raise \/ Drop
Spec == Init /\ [][Next]_<<job, delivered, ended>>
=============================================================================
