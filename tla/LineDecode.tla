----------------------------- MODULE LineDecode -----------------------------
(***************************************************************************)
(* The line driver (line_driver.rs): which lines it decodes without the    *)
(* grammar, the words it decodes them to, and what those words do.         *)
(***************************************************************************)
EXTENDS NcLines, FiniteSetsExt

-----------------------------------------------------------------------------
(* Decoding.                                                               *)

Arithmetic    == {"+", "-", "*", "/"}
WordOperators == {"DIV", "MOD", "AND", "OR", "XOR"}
Unclaimed     == FrameKeywords \cup {"DEF", "DIV", "MOD"}

(* How many operands the number scanner takes: literals joined by + - * /. *)
Folded(terms) ==
  LET stops == {i \in DOMAIN terms : terms[i].read # "number" \/ terms[i].paren
                                       \/ (i > 1 /\ terms[i].op \notin Arithmetic)}
  IN  IF stops = {} THEN Len(terms) ELSE Min(stops) - 1

(* decode_paren_product: `(NAME*2)`, `(2*NAME)` or `(2)`.                  *)
IsProduct(t) == t.paren /\ ~t.neg /\ t.read \in {"number", "variable"}

(* What stands behind the value is scanned as words of their own: a word   *)
(* operator is a bare word, and so is the name it applies to.              *)
ReadsAsWords(t) ==
  t.op \in WordOperators \ Unclaimed /\ t.read = "variable" /\ t.num = 1 /\ ~t.neg /\ ~t.paren

(* What of the right-hand side makes the value.                            *)
ValueTerms(terms) == IF terms[1].paren THEN 1 ELSE Folded(terms)

ClaimsSet(w) ==
  /\ w.texts = <<>> /\ w.terms # <<>>
  /\ w.terms[1].paren \/ w.inc => IsProduct(w.terms[1])
  /\ w.inc => Len(w.terms) = 1
  /\ ValueTerms(w.terms) >= 1
  /\ \A i \in (ValueTerms(w.terms) + 1)..Len(w.terms) : ReadsAsWords(w.terms[i])

(* decode_line_inner, one word.                                            *)
ClaimsWord(w) ==
  \/ w.tag \in {"address", "m"}
  \/ w.tag = "set" /\ ClaimsSet(w)
  \/ w.tag = "g" /\ w.key \in DOMAIN Vocabulary
  \/ w.tag = "bare" /\ w.key \notin Unclaimed

ClaimsLine(line) == \A i \in DOMAIN line.words : ClaimsWord(line.words[i])

HasContent(line) == line.n # Null \/ line.comment # Null \/ line.words # <<>>
IsBlank(line)    == ~HasContent(line) /\ line.label = Null

(* fold_const_expr: the sum so far, and the product being built, with the  *)
(* sign it will join the sum by.                                           *)
FoldConst(terms) ==
  LET value(t) == IF t.neg THEN -t.num ELSE t.num
      Next(acc, t) ==
        CASE t.op = "*" -> [acc EXCEPT !.product = @ * value(t)]
          [] t.op = "/" -> [acc EXCEPT !.product = Truncated(@, value(t))]
          [] OTHER -> [sum |-> acc.sum + acc.product, product |-> IF t.op = "-" THEN -value(t) ELSE value(t)]
      done == FoldLeft(Next, [sum |-> 0, product |-> 0], terms)
  IN  done.sum + done.product

(* The word itself, a product deferred to when it is executed; and the     *)
(* name of the last call read behind its value, if there is one.           *)
Product(w) ==
  [tag |-> "dynamic", key |-> w.key, num |-> w.terms[1].num, inc |-> w.inc,
   name |-> IF w.terms[1].read = "number" THEN Null ELSE w.terms[1].name]
Simple(tag, key, num) == [tag |-> tag, key |-> key, num |-> num, inc |-> FALSE, name |-> Null]

Decoded(w) ==
  CASE w.tag = "address" -> Simple("assign", w.key, w.num)
    [] w.tag = "m"       -> Simple("mcode", w.key, 0)
    [] w.tag = "g"       -> Simple("gcommand", w.key, 0)
    [] w.tag = "bare"    -> Simple(IF w.key \in DOMAIN Vocabulary THEN "gcommand" ELSE "call", w.key, 0)
    [] w.tag = "set" ->
         IF w.terms[1].paren THEN Product(w)
         ELSE Simple("assign", w.key, FoldConst(SubSeq(w.terms, 1, ValueTerms(w.terms))))

CallBehind(w) == IF w.tag = "set" /\ Len(w.terms) > ValueTerms(w.terms) THEN Last(w.terms).name ELSE Null

-----------------------------------------------------------------------------
(* Executing (execute_decoded).                                            *)

(* resolve_output_key decides what a key is; one type per name.            *)
DriverAssign(s, key, v) ==
  CASE key \in Axes   -> Put(UpdateAxis(s, key, v), key, v + s.translation[key])
    [] key \in Blocks -> Put(s, key, v)
    [] OTHER -> IF s.strings[key] # Null THEN Fails(s, "StringVariable")
                ELSE [Recorded(s, key, v) EXCEPT !.symbols[key] = v]

(* The variable of a product is looked up when the word is executed.       *)
DriverRead(s, d) ==
  CASE d.name = Null -> [s |-> s, v |-> d.num]
    [] d.name # Null /\ s.symbols[d.name] # Null -> [s |-> s, v |-> s.symbols[d.name] * d.num]
    [] OTHER -> IF AllowUndefined THEN [s |-> WithZero(s, {d.name}), v |-> 0 * d.num]
                ELSE [s |-> Fails(s, "UndefinedVariable"), v |-> 0]

(* Mutant: an increment adds to the machine coordinate.                    *)
DriverAssignDynamicMachine(s, d) ==
  After(DriverRead(s, d),
        LAMBDA t, v : DriverAssign(t, d.key, IF d.inc /\ Local(t, d.key) # Null THEN MachineOf(t, d.key) + v ELSE v))

DriverAssignDynamic(s, d) ==
  After(DriverRead(s, d),
        LAMBDA t, v : DriverAssign(t, d.key, IF d.inc /\ Local(t, d.key) # Null THEN Local(t, d.key) + v ELSE v))

Driven(s, d) ==
  CASE d.tag = "assign"   -> DriverAssign(s, d.key, d.num)
    [] d.tag = "dynamic"  -> DriverAssignDynamic(s, d)
    [] d.tag = "call"     -> Put(s, "call", d.key)
    [] d.tag = "gcommand" -> Put(s, Vocabulary[d.key], d.key)
    [] d.tag = "mcode"    -> WithMCode(s, d.key)

(* The calls behind a value write one cell, where the last one stands.     *)
Execute(s, w) ==
  LET t == Driven(s, Decoded(w))
  IN  IF t.fault # Null \/ CallBehind(w) = Null THEN t ELSE Put(t, "call", CallBehind(w))

-----------------------------------------------------------------------------
(* Declining a file (interpret_lines, before it touches state or output).  *)

CountUpTo(file, k, Counts(_)) == Cardinality({i \in 1..k : Counts(file[i])})
NeedsGrammar(line) == ~IsBlank(line) /\ ~ClaimsLine(line)

(* More than half of the lines seen need the grammar, judged from          *)
(* sampleMin lines on.                                                     *)
MostlyGrammar(file, sampleMin) ==
  \E k \in DOMAIN file :
    LET nonBlank == CountUpTo(file, k, LAMBDA l : ~IsBlank(l))
    IN  nonBlank >= sampleMin /\ 2 * CountUpTo(file, k, NeedsGrammar) > nonBlank

(* Every line for the grammar is padded with the newlines before it.       *)
PaddingBytes(file) == MapThenSumSet(LAMBDA i : i - 1, {i \in DOMAIN file : NeedsGrammar(file[i])})

Declines(file, sampleMin, budget) == MostlyGrammar(file, sampleMin) \/ PaddingBytes(file) > budget
=============================================================================
