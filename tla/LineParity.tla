----------------------------- MODULE LineParity -----------------------------
(***************************************************************************)
(* The same files interpreted twice, word for word, from fresh states:     *)
(* with the line driver disabled (NC_STAGE1=0) and with it enabled, as the *)
(* differential tests of line_driver.rs run them.                          *)
(***************************************************************************)
EXTENDS LineRun

CONSTANT
  Inputs           (* the sequences of programs to interpret                *)

VARIABLES
  grammar,         (* the run without the driver                            *)
  driver,          (* the run with it                                       *)
  departed         (* a line has been met that the two read differently     *)

vars == <<grammar, driver, departed>>

-----------------------------------------------------------------------------
(* What the driver reads otherwise than the grammar does: a word operator  *)
(* behind a value, a product of a STRING variable, and a block number      *)
(* glued to the next word.                                                 *)

IsConstant(terms) ==
  \A i \in DOMAIN terms : terms[i].read = "number" /\ ~terms[i].paren /\ (i > 1 => terms[i].op \in Arithmetic)

ReadsAlike(s, w) ==
  w.tag = "set" =>
    \/ IsConstant(w.terms)
    \/ /\ w.terms[1].paren /\ Len(w.terms) = 1
       /\ w.terms[1].read = "variable" => s.strings[w.terms[1].name] = Null

Glued(r) == \E i \in 1..Lines(r) : ClaimsLine(Program(r)[i]) /\ Program(r)[i].glued

Departs(r) ==
  /\ r.status = "running"
  /\ \/ r.line = 0 /\ Glued(r)
     \/ /\ r.line \in 1..Lines(r) /\ Claimed(r)
        /\ r.word \in 1..Len(Words(r)) /\ ~ReadsAlike(r.state, Words(r)[r.word])

-----------------------------------------------------------------------------
Init ==
  /\ \E files \in Inputs : grammar = NewRun(files, FALSE) /\ driver = NewRun(files, TRUE)
  /\ departed = FALSE

(* Each run is sequential and neither sees the other; they are stepped     *)
(* together, and one that has more to do goes on alone.                    *)
GrammarStep == IF grammar.status = "running" THEN Step(grammar, grammar') ELSE UNCHANGED grammar
DriverStep  == IF driver.status = "running" THEN Step(driver, driver') ELSE UNCHANGED driver

Next == GrammarStep /\ DriverStep /\ departed' = (departed \/ Departs(driver))
Spec == Init /\ [][Next]_vars

-----------------------------------------------------------------------------
WordsOf(files) ==
  UNION {UNION {Range(files[f][l].words) : l \in DOMAIN files[f]} : f \in DOMAIN files}

IsSequence(s) == s \in Seq(Range(s))

(* The words as the grammar lets them be written.  Numbers divide only by  *)
(* constants that are not zero: it is the integers of the model that ask   *)
(* it.  DIV, which the code tests, may meet any divisor.                   *)
OperandOK(t) ==
  /\ t.op \in UNION Range(Tiers) /\ (t.op \in {"/", "MOD"} => t.read = "number" /\ t.num # 0)
  /\ t.read \in {"number", "variable", "$AA_IW", "$AA_IM"} /\ t.num \in Int
  /\ t.read = "variable" => t.name \in Names
  /\ t.read \in {"$AA_IW", "$AA_IM"} => t.name \in Axes

ExpressionOK(terms) ==
  IsSequence(terms) /\ terms # <<>> /\ terms[1].op = "+" /\ \A i \in DOMAIN terms : OperandOK(terms[i])

TextOK(texts) ==
  \A i \in DOMAIN texts :
    IF texts[i].name = Null THEN texts[i].literal \in Seq(STRING) ELSE texts[i].name \in Names

AssignmentOK(w) ==
  /\ w.key \in Names
  /\ w.tag = "address" => w.num \in Int
  /\ w.tag = "set" => IF w.texts = <<>> THEN ExpressionOK(w.terms) ELSE TextOK(w.texts)

ArrayOK(w) ==
  /\ w.key \in DOMAIN Elements /\ w.num \in Nat /\ w.num < Len(Elements[w.key])
  /\ IsSequence(w.items)
  /\ \A i \in DOMAIN w.items :
       IF w.items[i].tag = "gap" THEN w.items[i].terms = <<>> ELSE ExpressionOK(w.items[i].terms)

WordOK(w) ==
  /\ w.tag \in {"address", "set"} => AssignmentOK(w)
  /\ w.tag = "char" => w.key \in Names /\ w.num \in Nat /\ TextOK(w.texts)
  /\ w.tag = "define" => IF w.items[1].tag \in {"array", "multi"} THEN ArrayOK(w.items[1]) ELSE AssignmentOK(w.items[1])
  /\ w.tag = "frame" => \A i \in DOMAIN w.items : w.items[i].tag \in {"address", "set"} /\ AssignmentOK(w.items[i])
  /\ w.tag = "jump" => ExpressionOK(w.terms)

ASSUME InputsAssumption ==
  \A files \in Inputs :
    /\ IsSequence(files) /\ files # <<>>
    /\ \A f \in DOMAIN files :
         /\ IsSequence(files[f])
         /\ \A l \in DOMAIN files[f] :
              LET words == files[f][l].words
              IN  /\ files[f][l].head \in Openers \cup Closers \cup {"ELSE", Null}
                  /\ IsSequence(words) /\ (files[f][l].glued => words # <<>>)
                  /\ \A i \in DOMAIN words : words[i].tag = "frame" => Len(words) = 1
    /\ \A w \in WordsOf(files) :
         /\ w.tag \in Tags /\ IsSequence(w.items) /\ (w.tag = "define" => Len(w.items) = 1)
         /\ \A v \in {w} \cup Range(w.items) : IsSequence(v.terms) /\ IsSequence(v.texts)
         /\ WordOK(w)

(* The one-pass fold of the driver computes what the tiers of the grammar  *)
(* do, on the constant expressions of the inputs (fold_const_expr).        *)
ASSUME FoldAgrees ==
  \A files \in Inputs : \A w \in WordsOf(files) :
    w.tag = "set" /\ w.terms # <<>> /\ IsConstant(w.terms) =>
      FoldConst(SubSeq(w.terms, 1, ValueTerms(w.terms))) = Tiered(w.terms, Operands(NewState, w.terms))

-----------------------------------------------------------------------------
Number == Int \cup {Null}

StateOK(s) ==
  /\ s.axes \in [Axes -> Number] /\ s.translation \in [Axes -> Int]
  /\ s.symbols \in [Names -> Number]
  /\ DOMAIN s.strings = Names /\ \A v \in Names : s.strings[v] = Null \/ s.strings[v] \in Seq(STRING)
  /\ s.row.line \in Nat /\ s.row.changes \in Seq(Names \X Int)
  /\ DOMAIN s.row.cells = Columns /\ \A k \in Axes \cup Blocks : s.row.cells[k] \in Number
  /\ LET codes == s.row.cells["M"] IN codes = Null \/ (IsSequence(codes) /\ Len(codes) \in 1..MCodesPerRow)
  /\ s.flow.tag \in {"continue", "end", "jump"} /\ s.fault \in Faults \cup {Null}

RunOK(r) ==
  /\ StateOK(r.state)
  /\ r.file \in DOMAIN r.files /\ r.line \in 0..(Lines(r) + 1) /\ r.word \in Nat /\ r.jumps \in 0..Limit

TypeOK == RunOK(grammar) /\ RunOK(driver) /\ departed \in BOOLEAN

Tables(s) == <<s.axes, s.translation, s.symbols, s.strings>>

(* The driver "must replicate the interpreter's effects exactly for the    *)
(* lines it claims" (line_driver.rs): at every line boundary, whatever the *)
(* lines before have assigned, defined, translated or jumped over, and     *)
(* whatever an initial-state program left behind, both runs hold the same  *)
(* variables, texts, axes and frame and have produced the same rows, and   *)
(* they end alike.                                                         *)
Replicates ==
  /\ driver.status = grammar.status /\ driver.state.fault = grammar.state.fault
  /\ Tables(driver.state) = Tables(grammar.state)
  /\ grammar.word = 0 => Delivered(driver) = Delivered(grammar)

(* ... up to the first line the two front ends read differently.           *)
AgreeOnClaims == departed \/ Replicates

(* The toolpath in the rows is the axis state: unless a block fails, an   *)
(* axis never moves without its machine coordinate in the row of that      *)
(* block, and the frame never changes under an axis already written in the *)
(* row (update_axis, frame instructions alone in their block and restoring *)
(* the axes).                                                              *)
WrittenWhenMoved(s, t) ==
  t.fault = Null => \A a \in Axes :
    /\ t.axes[a] # s.axes[a] => t.row.cells[a] = MachineOf(t, a)
    /\ t.translation[a] # s.translation[a] => t.row.cells[a] = Null

AxesMoveInRow ==
  [][ WrittenWhenMoved(grammar.state, grammar'.state) /\ WrittenWhenMoved(driver.state, driver'.state) ]_vars

(* Every name keeps one type (interpret_assignment): nothing but a DEF     *)
(* makes a STRING variable numeric or a numeric variable a text.           *)
TwoTyped(s) == {v \in Names : s.symbols[v] # Null /\ s.strings[v] # Null}
Defines(r)  == Words(r)[r.word].tag = "define"

OneType ==
  [][ /\ TwoTyped(grammar'.state) \subseteq TwoTyped(grammar.state) \/ Defines(grammar)
      /\ TwoTyped(driver'.state) \subseteq TwoTyped(driver.state) \/ Defines(driver) \/ departed' ]_vars

(* The scan rejects no program whose structures the grammar accepts, lets  *)
(* nothing else through but a second ELSE, and finds no structure only     *)
(* where every line parses on its own, as the line driver relies on        *)
(* (check_structures).                                                     *)
ScanExact ==
  grammar.line = 0 =>
    LET p    == Program(grammar)
        scan == CheckStructures(p)
    IN  /\ GrammarAccepts(p) => scan.error = Null
        /\ scan.error = Null => GrammarAccepts(p) \/ SecondElse(p)
        /\ scan.error = Null /\ ~scan.structured => \A i \in DOMAIN p : p[i].head = Null \/ p[i].goto
=============================================================================
