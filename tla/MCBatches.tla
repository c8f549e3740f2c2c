----------------------------- MODULE MCBatches -----------------------------
(***************************************************************************)
(* nc_to_batches with batches of two rows: programs that fill one, two and *)
(* three batches, and end before, on and after a batch boundary.           *)
(***************************************************************************)
EXTENDS BatchStream, JobKit

Plain  == UNION {Text({Feed, Move, Setting}, n) : n \in 1..4}
          \cup Text({Move, Twice, EmptyRow, Dwell}, 3)
Long   == {t \in Text({Write, Move, Setting}, 5) : t[1].cells["F"] # Null}
Curved == Text({Spline, Move, Linear, Circle}, 3)

MCJobs ==
  {Call1(t, "done", FALSE, v, v) : t \in Plain, v \in BOOLEAN}
  \cup {Call1(t, "done", FALSE, TRUE, TRUE) : t \in Long}
  \cup {Call1(t, "error", FALSE, TRUE, TRUE) : t \in Text({Feed, Setting}, 3)}
  \cup {Call1(t, "done", TRUE, TRUE, TRUE) : t \in Curved}
  \cup {Call1(<<>>, "done", FALSE, TRUE, TRUE), Misconfigured(TRUE, TRUE)}

(* Every arc becomes three rows.                                           *)
CurvedJobs == {Call1(t, "done", TRUE, FALSE, FALSE) : t \in Text({Circle}, 4)}
=============================================================================
