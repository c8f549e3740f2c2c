------------------------------ MODULE LineRun ------------------------------
(***************************************************************************)
(* A run over the program files given to it, an initial-state program      *)
(* before the main one or the main one alone (nc_to_table, interpret_file).*)
(* With the line driver enabled a file without block structures is         *)
(* interpreted line by line, unless the driver declines it; without, the   *)
(* whole file is parsed.  One action per word, from a run r to the next n. *)
(***************************************************************************)
EXTENDS GrammarLines, LineDecode, StructureScan

CONSTANTS
  Limit,           (* iteration_limit                                       *)
  SampleMin,       (* RATIO_SAMPLE_MIN                                      *)
  PaddingBudget    (* what the padded copies of a file may take             *)

ASSUME LimitAssumption == Limit \in Nat

(* files: the programs, in the order they are interpreted; fast: the line  *)
(* driver is enabled (stage1_enabled); file, line, word: the cursor, on    *)
(* line 0 before a file and on word 0 before a line; driven: the driver    *)
(* interprets the current file; jumps: the cycles taken in it; state: the  *)
(* interpreter state with the row being written; rows: the rows flushed.   *)
NewRun(files, fast) ==
  [files |-> files, fast |-> fast, file |-> 1, line |-> 0, word |-> 0, driven |-> FALSE, jumps |-> 0,
   state |-> NewState, rows |-> <<>>, status |-> "running"]

Program(r) == r.files[r.file]
Lines(r)   == Len(Program(r))
Source(r)  == Program(r)[r.line]

(* The current line is one the driver decoded.                             *)
Claimed(r) == r.driven /\ ClaimsLine(Source(r))
Parsed(r)  == IF Claimed(r) THEN Source(r) ELSE AsParsed(Source(r))
Words(r)   == Parsed(r).words

(* The jump targets of the file, by line, as both front ends index them.   *)
Carries(r, i) ==
  LET l == Program(r)[i] IN KeysOf(IF r.driven /\ ClaimsLine(l) THEN l ELSE AsParsed(l))
TargetsOf(r, key) == {i \in 1..Lines(r) : key \in Carries(r, i)}
Visible(r)        == UNION {Carries(r, i) : i \in 1..Lines(r)}

(* Jumps look ahead or back from the current line, GOTO ahead first.       *)
Destination(r) ==
  LET flow    == r.state.flow
      targets == TargetsOf(r, flow.key)
      ahead   == {i \in targets : i > r.line}
      behind  == {i \in targets : i <= r.line}
  IN  CASE flow.kw # "GOTOB" /\ ahead # {} -> Min(ahead)
        [] flow.kw # "GOTOF" /\ behind # {} /\ (flow.kw = "GOTOB" \/ ahead = {}) -> Max(behind)
        [] OTHER -> 0

(* What a table made now would hold: the last row is flushed at the end.   *)
Delivered(r) == Flushed(r.rows, r.state.row)

-----------------------------------------------------------------------------
(* check_structures decides who interprets a file; the line driver may     *)
(* still hand it back before it has touched anything.                      *)
BeginFile(r, n) ==
  /\ r.status = "running" /\ r.line = 0
  /\ LET scan == CheckStructures(Program(r))
     IN  n = CASE scan.error # Null -> [r EXCEPT !.status = "UnmatchedStructure"]
               [] scan.error = Null /\ scan.structured -> [r EXCEPT !.status = "structured"]
               [] OTHER -> [r EXCEPT !.line = 1, !.jumps = 0,
                              !.driven = r.fast /\ ~Declines(Program(r), SampleMin, PaddingBudget)]

(* A parsed block starts a row, with its number in it.                     *)
StartParsed(r, n) ==
  /\ r.status = "running" /\ r.line \in 1..Lines(r) /\ r.word = 0
  /\ ~Claimed(r)
  /\ n = [r EXCEPT !.word = 1, !.rows = Delivered(r),
                   !.state = Numbered(StartRow(@, r.line), Parsed(r).n)]

(* A decoded line that only carries a label does not.                      *)
StartDecoded(r, n) ==
  /\ r.status = "running" /\ r.line \in 1..Lines(r) /\ r.word = 0
  /\ Claimed(r)
  /\ n = IF HasContent(Source(r))
         THEN [r EXCEPT !.word = 1, !.rows = Delivered(r), !.state = StartRow(@, r.line)]
         ELSE [r EXCEPT !.word = 1, !.state.flow = Continue]

Effect(r, w) == IF Claimed(r) THEN Execute(r.state, w) ELSE Statement(r.state, w, Visible(r))

(* An error in a word stops the run.                                       *)
WordDone(r, s) ==
  IF s.fault # Null THEN [r EXCEPT !.state = s, !.status = "failed"] ELSE [r EXCEPT !.state = s, !.word = @ + 1]

ExecWord(r, n) ==
  /\ r.status = "running" /\ r.line \in 1..Lines(r) /\ r.word \in 1..Len(Words(r))
  /\ n = WordDone(r, Effect(r, Words(r)[r.word]))

(* The comment comes last, behind the number on a decoded line.            *)
Closed(r) ==
  Commented(IF Claimed(r) THEN Numbered(r.state, Parsed(r).n) ELSE r.state, Parsed(r).comment)

AtLineEnd(r) == r.status = "running" /\ r.line \in 1..Lines(r) /\ r.word = Len(Words(r)) + 1

EndLine(r, n) ==
  /\ AtLineEnd(r) /\ r.state.flow.tag # "jump"
  /\ n = [r EXCEPT !.state = Closed(r), !.word = 0,
                   !.line = IF r.state.flow = EndProgram THEN Lines(r) + 1 ELSE @ + 1]

(* Only a jump to an earlier line, or to its own, counts against the limit.*)
TakeJump(r, n) ==
  /\ AtLineEnd(r) /\ r.state.flow.tag = "jump"
  /\ LET to    == Destination(r)
         taken == IF to <= r.line THEN r.jumps + 1 ELSE r.jumps
         s     == [Closed(r) EXCEPT !.flow = Continue]
     IN  n = CASE to = 0 -> [r EXCEPT !.state = s, !.status = "JumpTargetNotFound"]
               [] to # 0 /\ to <= r.line /\ taken >= Limit -> [r EXCEPT !.state = s, !.status = "LoopLimit"]
               [] OTHER -> [r EXCEPT !.state = s, !.line = to, !.word = 0, !.jumps = taken]

(* The rows of an initial-state program are thrown away; its state stays.  *)
EndFile(r, n) ==
  /\ r.status = "running" /\ r.line = Lines(r) + 1
  /\ LET s == [r.state EXCEPT !.row = NoRow, !.flow = Continue]
     IN  n = IF r.file < Len(r.files)
             THEN [r EXCEPT !.line = 0, !.state = s, !.file = @ + 1, !.rows = <<>>]
             ELSE [r EXCEPT !.line = 0, !.state = s, !.rows = Delivered(r), !.status = "ended"]

Step(r, n) ==
  \/ BeginFile(r, n)
  \/ StartParsed(r, n)
  \/ StartDecoded(r, n)
  \/ ExecWord(r, n)
  \/ EndLine(r, n)
  \/ TakeJump(r, n)
  \/ EndFile(r, n)
=============================================================================
