------------------------------ MODULE NcLines ------------------------------
(***************************************************************************)
(* The lines of a program without block structures, as the words they are  *)
(* written with, and the interpreter state the words act on.  Numbers are  *)
(* integers, a text is a sequence of characters, names are uppercase.      *)
(***************************************************************************)
EXTENDS Integers, Sequences, FiniteSets, SequencesExt

CONSTANTS
  Null,            (* an absent value                                       *)
  Axes,            (* axis identifiers                                      *)
  Blocks,          (* block addresses: in the row only                      *)
  Variables,       (* other names, the elements of arrays among them        *)
  Elements,        (* the elements of each array, in index order            *)
  Vocabulary,      (* the G group of each G code and keyword                *)
  AllowUndefined   (* the allow_undefined_variables option                  *)

Names   == Axes \cup Blocks \cup Variables
Columns == Names \cup {Vocabulary[g] : g \in DOMAIN Vocabulary} \cup {"M", "T", "call", "comment"}

FrameKeywords == {"TRANS", "ATRANS", "SCALE", "ASCALE", "ROT", "AROT", "ROTS", "AROTS", "CROTS",
                  "MIRROR", "AMIRROR"}
Additive      == {"ATRANS", "ASCALE", "AROT", "AROTS", "AMIRROR"}
EndCodes      == {"M2", "M17", "M30"}
MCodesPerRow  == 5

(* The errors a word can stop the run with.                                *)
Faults == {"StringInExpression", "UndefinedVariable", "NoPosition", "DivisionByZero", "TextForAddress",
           "NumericVariable", "StringVariable", "CharWrite", "IndexOutOfRange", "InvalidElementCount",
           "TypeMismatch", "AxisUsedAsVariable", "ReservedName", "TextInFrame", "UnexpectedAxis",
           "UnsupportedStatement", "UnknownGCommand", "UnexpectedRule", "TooManyMCommands"}

-----------------------------------------------------------------------------
(* Words.  Every word has every field; a tag uses its own.  A definition   *)
(* is a word for each name it defines.                                     *)
Tags == {"address", "set", "char", "g", "m", "bare", "args", "tool", "multi", "define", "frame", "jump"}

(* An operand and the operator before it: a number, or num times what is   *)
(* read of a variable ("variable") or of the position of an axis ("$AA_IW",*)
(* "$AA_IM"); paren when it stands in parentheses of its own.              *)
Term(op, read, name, num) ==
  [op |-> op, neg |-> FALSE, read |-> read, name |-> name, num |-> num, paren |-> FALSE]

(* Division as the code truncates it, towards zero.                        *)
Size(n) == IF n < 0 THEN -n ELSE n
Truncated(a, b) ==
  LET quotient == Size(a) \div Size(b) IN IF (a < 0) = (b < 0) THEN quotient ELSE -quotient

NoWord == [tag |-> "none", key |-> Null, num |-> 0, terms |-> <<>>, texts |-> <<>>, inc |-> FALSE,
           items |-> <<>>, kw |-> Null]

(* glued: no space after the block number; head: the word that opens or    *)
(* closes a block structure; goto: a GOTO stands on the line.              *)
NoLine == [n |-> Null, glued |-> FALSE, label |-> Null, words |-> <<>>, comment |-> Null,
           head |-> Null, goto |-> FALSE]

(* The line as the grammar reads it.  `N10X5` is no block number: digits   *)
(* are not followed by a letter, and the whole word is a call.             *)
AsParsed(line) ==
  IF line.glued
  THEN [line EXCEPT !.n = Null,
                    !.words = <<[NoWord EXCEPT !.tag = "bare", !.key = "N10X5"]>> \o Tail(line.words)]
  ELSE line

(* The jump targets of a line: its block number and its label.             *)
KeysOf(line) == {line.n, line.label} \ {Null}

-----------------------------------------------------------------------------
(* The state of a run, with the row being written (its N column apart from *)
(* the other cells), where control goes after the block, and the error     *)
(* that stopped it.                                                        *)

NoRow == [line |-> 0, n |-> Null, cells |-> [c \in Columns |-> Null], changes |-> <<>>]
Continue == [tag |-> "continue", kw |-> Null, key |-> Null]
EndProgram == [Continue EXCEPT !.tag = "end"]

NewState ==
  [axes        |-> [a \in Axes |-> Null],
   translation |-> [a \in Axes |-> 0],
   symbols     |-> [v \in Names |-> CASE v = "TRUE" -> 1 [] v = "FALSE" -> 0 [] OTHER -> Null],
   strings     |-> [v \in Names |-> Null],
   row         |-> NoRow,
   flow        |-> Continue,
   fault       |-> Null]

Fails(s, fault) == [s EXCEPT !.fault = fault]

(* What goes on with the state and the value of a result that did not fail.*)
After(r, Step(_, _)) == IF r.s.fault # Null THEN r.s ELSE Step(r.s, r.v)

(* update_axis keeps the local coordinate and returns the machine's.       *)
UpdateAxis(s, axis, local) == [s EXCEPT !.axes[axis] = local]
MachineOf(s, axis)         == s.axes[axis] + s.translation[axis]
Local(s, key)              == IF key \in Axes THEN s.axes[key] ELSE Null

(* Undefined variables that are read are variables from then on.           *)
WithZero(s, names) ==
  IF names = {} THEN s
  ELSE [s EXCEPT !.symbols = [v \in Names |-> IF v \in names THEN 0 ELSE s.symbols[v]]]

-----------------------------------------------------------------------------
(* The row.                                                                *)

Put(s, col, v)       == [s EXCEPT !.row.cells[col] = v]
Recorded(s, name, v) == [s EXCEPT !.row.changes = Append(@, <<name, v>>)]
Numbered(s, n)       == IF n = Null THEN s ELSE [s EXCEPT !.row.n = n]
Commented(s, text)   == IF text = Null THEN s ELSE Put(s, "comment", text)

(* A block starts a row, and goes on to the next block unless it says so.  *)
StartRow(s, number) == [s EXCEPT !.row = [NoRow EXCEPT !.line = number], !.flow = Continue]

(* OutputRows: a row without cells or changes is dropped.                  *)
Flushed(rows, row) == IF row = [NoRow EXCEPT !.line = row.line] THEN rows ELSE Append(rows, row)

(* Mutant: the limit is compared after the code is in.                     *)
InsertMLate(s, code) ==
  LET there == s.row.cells["M"]
  IN  CASE there = Null               -> Put(s, "M", <<code>>)
        [] Len(there) <= MCodesPerRow -> Put(s, "M", Append(there, code))
        [] OTHER                      -> Fails(s, "TooManyMCommands")

(* At most five M codes in a block, kept in one cell.                      *)
InsertM(s, code) ==
  LET there == s.row.cells["M"]
  IN  CASE there = Null                                -> Put(s, "M", <<code>>)
        [] there # Null /\ Len(there) < MCodesPerRow   -> Put(s, "M", Append(there, code))
        [] OTHER                                       -> Fails(s, "TooManyMCommands")

WithMCode(s, code) ==
  LET t == InsertM(s, code)
  IN  IF t.fault = Null /\ code \in EndCodes THEN [t EXCEPT !.flow = EndProgram] ELSE t

ASSUME LinesAssumption ==
  /\ Axes \cap Blocks = {} /\ Variables \cap (Axes \cup Blocks) = {}
  /\ {"M", "T", "call", "comment"} \cap Names = {}
  /\ {Vocabulary[g] : g \in DOMAIN Vocabulary} \cap (Names \cup {"M", "T", "call", "comment"}) = {}
  /\ Null \notin Int \cup Names \cup Faults
  /\ \A a \in DOMAIN Elements : Elements[a] \in Seq(Variables)
  /\ AllowUndefined \in BOOLEAN
=============================================================================
