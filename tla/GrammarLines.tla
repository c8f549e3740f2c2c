---------------------------- MODULE GrammarLines ----------------------------
(***************************************************************************)
(* What the words of a parsed block do: expressions, assignments,          *)
(* definitions, frames, commands and jumps.                                *)
(***************************************************************************)
EXTENDS NcLines, TLC

-----------------------------------------------------------------------------
(* Expressions.                                                            *)

(* interpret_primary: the symbol table, then an error if the name is a     *)
(* STRING variable, then the undefined-variable rule.  The position of an  *)
(* axis (read_actual_position_sysvar) is one once it has been programmed.  *)
Unreadable(s, t) ==
  CASE t.read = "variable" /\ s.symbols[t.name] = Null /\ s.strings[t.name] # Null -> "StringInExpression"
    [] t.read = "variable" /\ s.symbols[t.name] = Null /\ s.strings[t.name] = Null /\ ~AllowUndefined ->
         "UndefinedVariable"
    [] t.read \in {"$AA_IW", "$AA_IM"} /\ s.axes[t.name] = Null /\ ~AllowUndefined -> "NoPosition"
    [] OTHER -> Null

(* What is undefined counts as 0.                                          *)
Read(s, t) ==
  CASE t.read = "variable" -> IF s.symbols[t.name] = Null THEN 0 ELSE s.symbols[t.name]
    [] t.read = "$AA_IW"   -> IF s.axes[t.name] = Null THEN 0 ELSE s.axes[t.name]
    [] t.read = "$AA_IM"   -> IF s.axes[t.name] = Null THEN 0 ELSE MachineOf(s, t.name)

Operand(s, t) ==
  LET v == IF t.read = "number" THEN t.num ELSE Read(s, t) * t.num
  IN  IF t.neg THEN -v ELSE v

Operands(s, terms) == [i \in DOMAIN terms |-> Operand(s, terms[i])]

(* DIV tests its divisor as soon as it is read (evaluate_multiplicative).  *)
FaultOf(s, t) ==
  IF Unreadable(s, t) = Null /\ t.op = "DIV" /\ Operand(s, t) = 0 THEN "DivisionByZero" ELSE Unreadable(s, t)

(* Operands are read from left to right; the first that fails decides.     *)
Reading(s, terms) ==
  LET stops  == {i \in DOMAIN terms : FaultOf(s, terms[i]) # Null}
      passed == {i \in DOMAIN terms : Unreadable(s, terms[i]) = Null /\ \A j \in stops : i <= j}
      zeroed == {terms[i].name : i \in {k \in passed : /\ terms[k].read = "variable"
                                                        /\ s.symbols[terms[k].name] = Null}}
      t      == WithZero(s, zeroed)
  IN  IF stops = {} THEN t ELSE Fails(t, FaultOf(s, terms[Min(stops)]))

Truth(b) == IF b THEN 1 ELSE 0

Apply(op, a, b) ==
  CASE op = "+" -> a + b
    [] op = "-" -> a - b
    [] op = "*" -> a * b
    [] op = "/" -> Truncated(a, b)   \* the model divides only where the quotient is an integer
    [] op = "DIV" -> Truncated(a, b)
    [] op = "MOD" -> a - b * Truncated(a, b)
    [] op = "AND" -> Truth(a # 0 /\ b # 0)
    [] op = "XOR" -> Truth((a # 0) # (b # 0))
    [] op = "OR"  -> Truth(a # 0 \/ b # 0)
    [] op = "=="  -> Truth(a = b)
    [] op = "<"   -> Truth(a < b)

(* The tiers of evaluate_comparison ... evaluate_multiplicative, weakest   *)
(* first; the bit operators are left out.                                  *)
Tiers == <<{"==", "<"}, {"OR"}, {"XOR"}, {"AND"}, {"+", "-"}, {"*", "/", "DIV", "MOD"}>>

TierOf(op) == CHOOSE k \in DOMAIN Tiers : op \in Tiers[k]

(* Operators of a tier associate to the left: the last one of the weakest  *)
(* tier present is applied last.                                           *)
AppliedLast(terms, i, j) ==
  CHOOSE m \in i..j : \A l \in i..j :
    \/ TierOf(terms[m].op) < TierOf(terms[l].op)
    \/ TierOf(terms[m].op) = TierOf(terms[l].op) /\ l <= m

Tiered(terms, values) ==
  LET value[span \in (DOMAIN terms) \X (DOMAIN terms)] ==
        LET i == span[1]
            j == span[2]
            m == AppliedLast(terms, i + 1, j)
        IN  IF i >= j THEN values[i] ELSE Apply(terms[m].op, value[<<i, m - 1>>], value[<<m, j>>])
  IN  value[<<1, Len(terms)>>]

Evaluate(s, terms) ==
  LET t == Reading(s, terms)
  IN  [s |-> t, v |-> IF t.fault # Null THEN 0 ELSE Tiered(terms, Operands(s, terms))]

(* evaluate_string: literals, STRING variables and numbers joined by <<.   *)
TextOf(s, texts) ==
  LET isText(t) == t.name = Null \/ s.strings[t.name] # Null
      number(t) == IF isText(t) THEN Term("+", "number", Null, 0) ELSE Term("+", "variable", t.name, 1)
      piece(t)  == CASE t.name = Null -> t.literal
                     [] t.name # Null /\ isText(t) -> s.strings[t.name]
                     [] OTHER -> <<ToString(Read(s, number(t)))>>
  IN  [s |-> Reading(s, [i \in DOMAIN texts |-> number(texts[i])]),
       v |-> FlattenSeq([i \in DOMAIN texts |-> piece(texts[i])])]

-----------------------------------------------------------------------------
(* Assignments.                                                            *)

(* The right-hand side is a text: a literal, a concatenation, or the bare  *)
(* name of a STRING variable.                                              *)
IsText(s, w) ==
  /\ w.tag = "set"
  /\ \/ w.texts # <<>>
     \/ /\ ~w.inc /\ Len(w.terms) = 1
        /\ w.terms[1].read = "variable" /\ ~w.terms[1].neg
        /\ w.terms[1].num = 1 /\ ~w.terms[1].paren
        /\ s.strings[w.terms[1].name] # Null

StoredText(s, key, text) ==
  CASE key \in Axes \cup Blocks -> Fails(s, "TextForAddress")
    [] key \notin Axes \cup Blocks /\ s.symbols[key] # Null -> Fails(s, "NumericVariable")
    [] OTHER -> [s EXCEPT !.strings[key] = text]

AssignedText(s, w) ==
  After(IF w.texts # <<>> THEN TextOf(s, w.texts) ELSE [s |-> s, v |-> s.strings[w.terms[1].name]],
        LAMBDA t, text : StoredText(t, w.key, text))

(* Mutant: one table may hold a name of the other.                         *)
StoredNumberUntyped(s, key, v) ==
  CASE key \in Axes   -> UpdateAxis(s, key, v)
    [] key \in Blocks -> s
    [] OTHER          -> [s EXCEPT !.symbols[key] = v]

StoredNumber(s, key, v) ==
  CASE key \in Axes   -> UpdateAxis(s, key, v)
    [] key \in Blocks -> s
    [] OTHER          -> IF s.strings[key] # Null THEN Fails(s, "StringVariable")
                         ELSE [s EXCEPT !.symbols[key] = v]

(* interpret_axis_increment: an axis never positioned counts from zero.    *)
Incremented(s, key, v) == IF Local(s, key) = Null THEN v ELSE Local(s, key) + v

NumberOf(s, w) ==
  LET r == Evaluate(s, w.terms)
  IN  CASE w.tag = "address" -> [s |-> s, v |-> w.num]
        [] w.tag # "address" /\ w.inc -> [r EXCEPT !.v = Incremented(r.s, w.key, @)]
        [] OTHER -> r

(* interpret_assignment: the value is Null for a text.                     *)
Stored(r, key) == IF r.s.fault # Null THEN r ELSE [s |-> StoredNumber(r.s, key, r.v), v |-> r.v]

Assignment(s, w) ==
  IF IsText(s, w) THEN [s |-> AssignedText(s, w), v |-> Null] ELSE Stored(NumberOf(s, w), w.key)

(* interpret_statement: an axis word puts the machine coordinate in the    *)
(* row, a block address its value, a variable a change.                    *)
Emitted(s, key, v) ==
  CASE key \in Axes   -> Put(s, key, v + s.translation[key])
    [] key \in Blocks -> Put(s, key, v)
    [] OTHER          -> Recorded(s, key, v)

Assign(s, w) ==
  IF IsText(s, w) THEN AssignedText(s, w)
  ELSE After(Stored(NumberOf(s, w), w.key), LAMBDA t, v : Emitted(t, w.key, v))

(* STRING[i] = "c": one character of a STRING variable, within its length. *)
CharWrite(s, w) ==
  LET old == s.strings[w.key]
      Written(t, text) ==
        CASE old = Null \/ Len(text) # 1 -> Fails(t, "CharWrite")
          [] old # Null /\ Len(text) = 1 /\ w.num >= Len(old) -> Fails(t, "IndexOutOfRange")
          [] OTHER -> [t EXCEPT !.strings[w.key][w.num + 1] = text[1]]
  IN  After(TextOf(s, w.texts), Written)

-----------------------------------------------------------------------------
(* Definitions: of a name, with or without a value, of an array, or of an  *)
(* array with SET, where a gap leaves an element alone.                    *)

(* One assignment after another; every number is recorded as a change.     *)
SetAll(s, keys, values) ==
  LET given  == {i \in DOMAIN values : values[i] # Null}
      change == FlattenSeq([i \in DOMAIN values |-> IF i \in given THEN <<<<keys[i], values[i]>>>> ELSE <<>>])
  IN  [s EXCEPT !.symbols = [v \in Names |-> IF \E i \in given : keys[i] = v
                                              THEN values[CHOOSE i \in given : keys[i] = v]
                                              ELSE s.symbols[v]],
                !.row.changes = @ \o change]

(* interpret_value_array evaluates all values before any is assigned.      *)
ValueArray(s, items) ==
  LET t       == Reading(s, FlattenSeq([i \in DOMAIN items |-> items[i].terms]))
      value(w) == IF w.tag = "gap" THEN Null ELSE Tiered(w.terms, Operands(s, w.terms))
  IN  [s |-> t, v |-> IF t.fault # Null THEN <<>> ELSE [i \in DOMAIN items |-> value(items[i])]]

(* variable_array: every element up to the index written.                  *)
ElementsUpTo(w) == SubSeq(Elements[w.key], 1, w.num + 1)

DefineMulti(s, w) ==
  After(ValueArray(s, w.items),
        LAMBDA t, values : IF Len(values) > w.num + 1 THEN Fails(t, "InvalidElementCount")
                           ELSE SetAll(t, ElementsUpTo(w), values))

(* The type is compared with the value after the value is stored.          *)
DefineInitialised(s, type, w) ==
  LET Checked(t, v) ==
        CASE (v = Null) # (type = "STRING") -> Fails(t, "TypeMismatch")
          [] v = Null /\ type = "STRING"    -> t
          [] v # Null /\ type # "STRING"    -> Recorded(t, w.key, v)
  IN  After(Assignment(s, w), Checked)

DefineItem(s, type, w) ==
  CASE w.tag \in {"array", "multi"} ->
         IF w.tag = "multi" THEN DefineMulti(s, w)
         ELSE SetAll(s, ElementsUpTo(w), [i \in DOMAIN ElementsUpTo(w) |-> 0])
    [] w.tag \notin {"array", "multi"} /\ w.key \in Axes   -> Fails(s, "AxisUsedAsVariable")
    [] w.tag \notin {"array", "multi"} /\ w.key \in Blocks -> Fails(s, "ReservedName")
    [] w.tag \in {"set", "address"} /\ w.key \in Variables -> DefineInitialised(s, type, w)
    [] OTHER -> IF type = "STRING" THEN [s EXCEPT !.strings[w.key] = <<>>]
                ELSE Recorded([s EXCEPT !.symbols[w.key] = 0], w.key, 0)

Define(s, w) == DefineItem(s, w.kw, w.items[1])

-----------------------------------------------------------------------------
(* Frames.                                                                 *)

ResetTranslations(s) == [s EXCEPT !.translation = [a \in Axes |-> 0]]

(* The assignments of a frame instruction one after another, each moving   *)
(* its axis for the ones after it.                                         *)
Offset(r, key, offsets) ==
  CASE r.s.fault # Null -> r
    [] r.s.fault = Null /\ r.v = Null  -> [r EXCEPT !.s = Fails(@, "TextInFrame")]
    [] r.s.fault = Null /\ r.v # Null /\ key \notin Axes -> [r EXCEPT !.s = Fails(@, "UnexpectedAxis")]
    [] OTHER -> [r EXCEPT !.v = Append(offsets, <<key, @>>)]

FrameValues(s, items) ==
  LET done[i \in 0..Len(items)] ==
        IF i = 0 THEN [s |-> s, v |-> <<>>]
        ELSE IF done[i - 1].s.fault # Null THEN done[i - 1]
        ELSE Offset(Assignment(done[i - 1].s, items[i]), items[i].key, done[i - 1].v)
  IN  done[Len(items)]

(* Mutant: the axes stay where the assignments put them.                   *)
FrameAssignmentsMoving(s, items) == FrameValues(s, items)

(* frame_assignments puts the axes back after the last one, and before its *)
(* own errors, but not when an assignment fails: what is left of them are  *)
(* the variables and texts.                                                *)
FrameAssignments(s, items) ==
  LET r        == FrameValues(s, items)
      restored == r.s.fault \in {Null, "TextInFrame", "UnexpectedAxis"}
  IN  [s |-> [s EXCEPT !.symbols = r.s.symbols, !.strings = r.s.strings, !.fault = r.s.fault,
                       !.axes = IF restored THEN @ ELSE r.s.axes],
       v |-> r.v]

(* TRANS deletes every offset before it evaluates its own, ATRANS adds.    *)
MovedBy(w, translation, offsets) ==
  LET Moved(frame, o) == [frame EXCEPT ![o[1]] = IF w.key = "TRANS" THEN o[2] ELSE @ + o[2]]
  IN  FoldLeft(Moved, translation, offsets)

Translate(s, w) ==
  After(FrameAssignments(IF w.key = "TRANS" THEN ResetTranslations(s) ELSE s, w.items),
        LAMBDA t, offsets : [t EXCEPT !.translation = MovedBy(w, @, offsets)])

(* Rotation, scaling and mirroring: only their bare forms are interpreted, *)
(* and a bare absolute one deletes the whole frame.                        *)
Frame(s, w) ==
  CASE w.key \in {"TRANS", "ATRANS"} -> Translate(s, w)
    [] w.key \notin {"TRANS", "ATRANS"} /\ w.items # <<>> -> Fails(s, "UnsupportedStatement")
    [] OTHER -> IF w.key \in Additive THEN s ELSE ResetTranslations(s)

-----------------------------------------------------------------------------
(* Commands and jumps.                                                     *)

GCommand(s, code) ==
  IF code \in DOMAIN Vocabulary THEN Put(s, Vocabulary[code], code) ELSE Fails(s, "UnknownGCommand")

(* A bare word is a G command if the vocabulary has it, else a call; frame *)
(* instructions stand alone in their block.                                *)
BareWord(s, name) ==
  CASE name \in FrameKeywords -> Fails(s, "UnsupportedStatement")
    [] name \notin FrameKeywords /\ name \in DOMAIN Vocabulary -> Put(s, Vocabulary[name], name)
    [] OTHER -> Put(s, "call", name)

(* Of several jumps in a block the first that is taken wins.  A GOTOC      *)
(* whose target no active scope has is passed over.                        *)
Jump(s, w, visible) ==
  LET Taken(t, v) ==
        IF v = 0 \/ (w.kw = "GOTOC" /\ w.key \notin visible) THEN t
        ELSE [t EXCEPT !.flow = [tag |-> "jump", kw |-> w.kw, key |-> w.key]]
  IN  IF s.flow # Continue THEN s ELSE After(Evaluate(s, w.terms), Taken)

(* interpret_statement and its siblings, on one word of a block.           *)
Statement(s, w, visible) ==
  CASE w.tag \in {"address", "set"} -> Assign(s, w)
    [] w.tag = "char"   -> CharWrite(s, w)
    [] w.tag = "g"      -> GCommand(s, w.key)
    [] w.tag = "m"      -> WithMCode(s, w.key)
    [] w.tag = "bare"   -> BareWord(s, w.key)
    [] w.tag = "args"   -> Put(s, "call", w.key)      \* a call with arguments
    [] w.tag = "tool"   -> Put(s, "T", w.texts[1].literal)
    [] w.tag = "multi"  -> Fails(s, "UnexpectedRule") \* parsed as a statement, interpreted in DEF only
    [] w.tag = "define" -> Define(s, w)
    [] w.tag = "frame"  -> Frame(s, w)
    [] OTHER            -> Jump(s, w, visible)
=============================================================================
