--------------------------- MODULE StructureScan ---------------------------
(***************************************************************************)
(* The scan of block structures before a file is parsed                    *)
(* (structure_scan.rs), and the structures the grammar accepts.  A line is *)
(* its first word where that opens, divides or closes a structure.         *)
(***************************************************************************)
EXTENDS NcLines

Openers == {"IF", "WHILE", "FOR", "LOOP", "REPEAT"}

Closer(opener) ==
  CASE opener = "IF"     -> "ENDIF"
    [] opener = "WHILE"  -> "ENDWHILE"
    [] opener = "FOR"    -> "ENDFOR"
    [] opener = "LOOP"   -> "ENDLOOP"
    [] opener = "REPEAT" -> "UNTIL"

Closers == {Closer(o) : o \in Openers}

(* IF <condition> GOTO... is complete on its line.                         *)
Opens(line) == line.head \in Openers /\ ~(line.head = "IF" /\ line.goto)

(* One line of check_structures: the openers still open, with their lines, *)
(* whether any structure was opened, and the line of the first error.      *)
Innermost(scan, head) == scan.open # <<>> /\ Last(scan.open)[1] = head

(* Mutant: any closer closes the innermost structure.                      *)
ScanLineAny(scan, line, i) ==
  CASE scan.error # Null -> scan
    [] scan.error = Null /\ Opens(line) ->
         [scan EXCEPT !.open = Append(@, <<line.head, i>>), !.structured = TRUE]
    [] scan.error = Null /\ line.head = "ELSE" ->
         IF Innermost(scan, "IF") THEN scan ELSE [scan EXCEPT !.error = i]
    [] scan.error = Null /\ line.head \in Closers ->
         IF scan.open # <<>> THEN [scan EXCEPT !.open = Front(@)] ELSE [scan EXCEPT !.error = i]
    [] OTHER -> scan

ScanLine(scan, line, i) ==
  CASE scan.error # Null -> scan
    [] scan.error = Null /\ Opens(line) ->
         [scan EXCEPT !.open = Append(@, <<line.head, i>>), !.structured = TRUE]
    [] scan.error = Null /\ line.head = "ELSE" ->
         IF Innermost(scan, "IF") THEN scan ELSE [scan EXCEPT !.error = i]
    [] scan.error = Null /\ line.head \in Closers ->
         IF \E o \in Openers : Closer(o) = line.head /\ Innermost(scan, o)
         THEN [scan EXCEPT !.open = Front(@)]
         ELSE [scan EXCEPT !.error = i]
    [] OTHER -> scan

(* check_structures, after each line; at the end the innermost open        *)
(* structure is the error.                                                 *)
NewScan == [open |-> <<>>, structured |-> FALSE, error |-> Null]

Scanned(file) ==
  LET scan[i \in 0..Len(file)] == IF i = 0 THEN NewScan ELSE ScanLine(scan[i - 1], file[i], i)
  IN  scan

CheckStructures(file) ==
  LET done == Scanned(file)[Len(file)]
  IN  IF done.error = Null /\ done.open # <<>> THEN [done EXCEPT !.error = Last(done.open)[2]] ELSE done

-----------------------------------------------------------------------------
(* grammar.pest: lines i to j are a list of blocks, in terms of which      *)
(* shorter spans are.                                                      *)
Spans(file) == (1..(Len(file) + 1)) \X (0..Len(file))

IsList(file, lists, i, j) ==
  \/ i > j
  \/ ~Opens(file[i]) /\ file[i].head \notin Closers \cup {"ELSE"} /\ lists[<<i + 1, j>>]
  \/ /\ Opens(file[i])
     /\ \E k \in (i + 1)..j :
          /\ file[k].head = Closer(file[i].head)
          /\ lists[<<k + 1, j>>]
          /\ \/ lists[<<i + 1, k - 1>>]
             \/ /\ file[i].head = "IF"
                /\ \E e \in (i + 1)..(k - 1) :
                     file[e].head = "ELSE" /\ lists[<<i + 1, e - 1>>] /\ lists[<<e + 1, k - 1>>]

Nested(file) ==
  LET lists[span \in Spans(file)] == IsList(file, lists, span[1], span[2])
  IN  lists

GrammarAccepts(file) == Nested(file)[<<1, Len(file)>>]

(* Two ELSE with a list of blocks between them: the second belongs to no   *)
(* IF that does not have one.                                              *)
SecondElse(file) ==
  \E e, f \in DOMAIN file :
    e < f /\ file[e].head = "ELSE" /\ file[f].head = "ELSE" /\ Nested(file)[<<e + 1, f - 1>>]
=============================================================================
