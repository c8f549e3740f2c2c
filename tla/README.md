# Verification of the NC G-code interpreter

TLA+ models of the interpreter in `src/src` (Rust, crate
`nc_gcode_interpreter`), the TLC runs that check them on small programs, and
TLAPS proofs about its two drivers of block structures, its two front ends for
lines, its flattener and its row and batch streams. File and line references are to the repository;
`PROJECT.json` lists for every definition the lines it translates.

## 1. The system

A program goes through four stages:

    text --pest grammar--> parse tree --walker--> rows --flattener--> rows --sink--> table,
      \                              (or VM)    (OutputRows)                    rows or batches
       `-----line driver (files without block structures)--'

| Part | State it keeps | Operations | Works with |
|---|---|---|---|
| Block walker, `interpret_rules.rs` | the Rust call stack: one `run_blocks` per active block list, with a cursor, a jump counter and the loop that made it | execute a block, enter and leave IF/WHILE/LOOP/REPEAT/FOR bodies, GOTO/GOTOB/GOTOF/GOTOC, CASE, end of program | `State`, `OutputRows` |
| Cursor VM, `vm.rs` | an explicit stack of frames | `step_until` with a row budget, the same leaf functions as the walker; a clone of it, of the state and of the rows is a checkpoint | same; to become the resumable interpreter |
| Expressions, strings, definitions, frames, `interpret_rules.rs` | none of their own | the words of a block: assignments, DEF, SET, TRANS/ATRANS, G, M and T words, calls | `State`, the current row |
| Line driver, `line_driver.rs` | decoded lines, an index of jump targets | claims the lines it can read without the grammar, decodes them (in parallel), executes them; parses the others one by one; hands the whole file back when it pays or knows too little | same |
| Structure scan, `structure_scan.rs` | the openers not yet closed | `check_structures`: rejects unbalanced structures and decides whether the line driver may have the file | `interpreter.rs` |
| State, `state.rs` | symbol and string tables, axes, frame, `jump_scopes`, `seen_jump_targets`, options | assignments, axis updates, lookups | used by the drivers |
| Output, `output.rs` | the current row, the sink; for batches: buffer, row pool, builder, events | `start_row`, `last_mut`, `record_variable_change`, `finish`, `snapshot_collect` | flattener, channels |
| Flattener, `flatten.rs` | motion in effect, positions, the rows of the active spline | `push`, `finish` | between `OutputRows` and its sink |
| Stream bindings, `lib.rs` | a worker thread, a bounded row or batch channel, a result and an events channel, the iterator | `nc_to_rows`, `nc_to_batches`, `next()`, drop | Python, `interpreter.rs` |
| Errors, modal groups, command line, Python package | none that outlives a call | messages, tables, plotting | |

An initial-state program, where one is given, is interpreted first by the same
stages; its rows are thrown away and its state stays.

What is hard, and therefore what the properties are about:

* *Control.* The active scopes exist only on the Rust stack; `jump_scopes` is
  a second copy of them kept by hand, and GOTOC trusts it. Jumps leave loops
  and IFs, loops and jump cycles have limits counted in different places, and
  a second driver has to do all of it again with an explicit stack.
* *Two front ends.* A line is read by the grammar or by the line driver, which
  decodes it with code of its own before anything has run. What stands behind a
  value, products deferred to run time, jump targets collected from two kinds of
  lines and state left by an initial-state program must all come out the same.
* *Types and axes.* A name is in the numeric or in the text table by whichever
  statement came first; frame instructions borrow ordinary assignments and undo their
  effect on the axes.
* *Rows.* A row is finished by the *next* block; changes of a block without
  cells, increments of a FOR at its ENDFOR, and rows held back by a spline all
  have to come out in order and once.
* *Threads.* A worker, two or three channels, an iterator that may be
  dropped at any time, a worker that may fail or panic, and waits in both
  directions.
* *Recycling and carries.* Batches share a pool of emptied rows and carry
  fill values and columns.
* *Pausing.* A checkpoint is three clones taken between two blocks, with a row in
  flight.

Nothing is stored outside memory: a checkpoint is a value, so the only restart is
resuming one. There is one worker per iterator; the parallel decoding of lines is a
pure function of each line; nothing else runs concurrently.

## 2. Modules

| Module | Models |
|---|---|
| `NcProgram` | parse trees, jump targets, `resolve_jump`, conditions |
| `NcBlocks` | the state of a run and what both drivers of block structures share; the properties of a run |
| `BlockWalker` | the recursive walker |
| `FlowGraph` | abstract: the control-flow graph of the program text; `FollowsText` says the walker implements it |
| `CursorVm` | the VM; `MirrorsWalker` says every step is a step of the walker |
| `CursorParity` | walker and VM side by side on the same program, the VM paused, saved and resumed; `AgreeOffLimit` |
| `NcLines` | lines as words, the interpreter state they act on |
| `GrammarLines` | what the words of a parsed block do |
| `LineDecode` | the line driver: claims, decoding, execution, declining a file |
| `StructureScan` | `check_structures`, and the nesting the grammar accepts |
| `LineRun` | a run over program files, with the driver or without |
| `LineParity` | both front ends on the same files; `AgreeOnClaims` |
| `NcRows` | rows, forward-fill, tables and `BatchBuilder` |
| `NcFlatten`, `Flattener` | the flattener's functions, and their use on a program |
| `NcJobs` | the rows a call's program leaves behind, and its table |
| `Delivery` | abstract: what an iterator promises |
| `StreamWorker`, `RowStream`, `BatchStream` | worker, sink, channels and iterator; both streams implement `Delivery` (`KeepsPromise`) |
| `NcBlocks_proofs`, `BlockWalker_proofs`, `CursorVm_proofs` | proofs about the drivers of block structures |
| `LineParity_proofs` | proofs about the front ends and the structure scan |
| `NcRows_proofs`, `Flattener_proofs`, `RowStream_proofs`, `BatchStream_proofs` | proofs about rows, flattener and streams |
| `ProgramKit`, `JobKit`, `MC*` | small programs and calls for TLC |

Definitions marked "Mutant" (as in `InsertMLate`) are not part of the model: each is a plausible
bug in the definition that follows it, with which a run's property must fail.

### Correspondence

*Walker.* `stack` is the chain of `run_blocks` activations: a frame has the
block list (`scope`), the cursor (`index`), `jumps_taken` (`jumps`) and the
loop statement around it with its iteration count and FOR bound. Cursors are
1-based. One step executes one block up to and including everything
`interpret_block` does with it (row, statement, trailing comment), or tests
one loop at the end of its body, or takes a jump in one scope, or hands a jump
or a program end to the enclosing one. `flow` is `BlockFlow`; `status` is how
the run ended (`LoopLimit`, `NotFound`, `NotHere` and `Undefined` are
`ParsingError`s; `NotHere` has the hint that the target exists elsewhere).
`out` is the log of calls to the output (row started, cell, change, comment),
which determines all rows. `EnterIf` .. `EnterFor` are `interpret_statement_*`
up to the first iteration, `EndIf` .. `EndFor` their loop heads,
`TakeJump`/`Propagate` the jump arm of `run_blocks`, `JumpFailure`
`into_not_found_error`.

*VM.* The same variables; `PopAndAdvance`, `Propagate` and `PopAll` are the
functions of these names (`resolve_across_stack` is `TakeJump` and `Propagate`, one
scope at a time). `CursorParity` steps the walker and the VM side by side (`Run`; they share nothing, so the order
of their steps is of no account, and the one that has more to do goes on alone). The VM's state is its own set of
variables (`vmStack`, `vmEnv`, ...), its steps are those of an instance of `CursorVm` over them. Where
`step_until` returns because `budget` rows are committed, the caller has a `Snapshot` (the VM, the state, the
rows collected and the one in flight) and calls again with another budget: on the VM itself (`GoOn`) or
on nothing but the snapshot (`Resume`), any number of times. A snapshot is the VM as it stands at the pause, so
`Resume` has the effect of `GoOn`: what the runs and the proofs show of it is that those parts are all a run depends on. It
is no recovery from a crash, as nothing is persisted, and only the tests of `vm.rs` pause a VM.

*Lines.* A line is its block number, label, words and comment, the head word of a
structure, and whether its number is glued to the next word. A word is a record with a `tag`:
`address` (X5), `set` (X=.., with the operands `terms` or the concatenated `texts`), `char`
(a character of a text), `g`, `m`, `bare` (a name alone), `args`, `tool`, `multi` (R[1]=SET(..)),
`define`, `frame`, `jump`. The state `s` is `State` with the row being written, where control goes next
(`flow`) and the error that stopped it (`fault`). `GrammarLines.Statement` is
`interpret_statement` with the functions under it: an operator for each, from a state to a state, with what was
written before an error left in place. `LineDecode.ClaimsWord` is what `decode_line_inner` accepts, `Decoded` the
`DecodedLine` word, `Execute` what `exec_decoded` does with it, `Declines` the two reasons to
hand a file back. `LineRun` is `run_lines` or `run_blocks` over a flat file, one action per
word: `BeginFile` scans and decides, `StartParsed` and `StartDecoded` start the block, `ExecWord`
executes a word, `EndLine` and `TakeJump` close it, `EndFile` flushes or goes on to the main
program. `LineParity` steps a run of each kind side by side; `departed` turns true for good at
the first line the two read differently (section 5), and from there on nothing is claimed.

*Rows and streams.* `Flushed` is `flush`; `StartRow` and `Fill` are the two halves
of a block (start_row, then its statements); `outbox` is the loop of `deliver`
over the flattened rows. `pc` is the place of the worker, `iter` that of the iterator;
the sender lives while the output does, the receiver while the iterator has
it. In batches, `Completes`, `AcceptRow`, `AcceptLast`, `AcceptVariables` are
`accept`, `Emit` is `emit`, `spare` is the row `deliver` hands back.

### Abstractions

* *Walker and VM.* An expression reads at most one variable and adds a constant; values are
  integers. Leaf statements that touch no control are one plain block. GOTOS,
  which only warns, is such a block. A comment directly after an IF condition is
  left out.
* *Lines.* Numbers are integers and are divided only where the quotient is one; an operand is a number, or a
  number times a variable or an axis position. Left out are reals and their comparison, the arithmetic
  and string functions, bit operators and NOT, exponents, index expressions (an element of an array is a
  name), REP, GFRAME, warnings, and the suggestions in messages. DIV tests its divisor as soon as it is read, in a
  value array as well as in an expression; `/` and MOD, which the code computes with reals and without a test, have a constant
  divisor other than zero. Names are in upper case. The block number is a field of the row of its own. A DEF of
  several names is a word for each. Blank lines start a row that stays empty and is
  dropped. A program with block structures ends with status `structured`: it is the walker's.
  Which G code is in which group is a constant. The decoding of all lines, a pure map over them, is
  one step.
* *Structure scan.* A line is the first word that opens, divides or closes a structure; a
  structure written on a single line does not occur.
* *Flattener.* One geometric axis. How far apart samples are (planes,
  centre, sweep, TURN, spline mathematics) is replaced by `cut`, the number of chords the
  tolerance calls for on the curve that ends at a row. An arc that cannot be resolved is a row in arc
  motion without `address`: no centre and no CR, a zero radius, or a CR arc whose start and end coincide or whose radius is
  less than half the chord. `flatten_arc` passes all of these through alike. `ASPLINE` stands for CSPLINE too, `CIP` for every motion
  that is passed through; the degree of a B-spline is a constant.
* *Streams.* A stream interprets a *job*: the rows its blocks write, in order, and how the program
  ends. Files, the initial-state program, cell types and `disable_forward_fill` are left
  out. An error loses the row of its block (whether it happens in the block or,
  as a loop limit, between two). A panic comes from the check of
  `axis_index_map` (`state.rs:132`), before the first block. Interpreting a block is one step of the
  worker: it shares nothing but the channels with the iterator.

## 3. Runs

| Run | Module | What it shows |
|---|---|---|
| `walker` | `MCWalker` | type invariant; `Nested`, `ScopesMirrorStack`: the stack is the static nesting and `jump_scopes` its mirror; `CountersExist`: the FOR increment's `expect` cannot fail; `GotocNeverAlarms`; `WithinLimit`; `ChangesRebuildEnv`: replaying the recorded changes gives the symbol table; `LoopExit`: loops end only on their condition; `FollowsText`: refinement of `FlowGraph`; `Terminates` |
| `vm` | `MCVm` | `MirrorsWalker`: the VM refines the walker. TLC also evaluates that these programs are `Mirrorable`, the assumption of the proof |
| `parity` | `MCParity` | `AgreeOffLimit`, `RowsPrefix`, `BothEnd` with jumps back inside loops, where the VM may stop early, however often it is paused and resumed. TLC also evaluates `Alike`, the assumption of the proofs |
| `lines` | `MCLines` | `AgreeOnClaims`: both front ends hold the same variables, texts, axes and frame at every line, produce the same rows and end alike; `AxesMoveInRow`: an axis moves only together with its cell; `OneType`: only a DEF makes a name of one type one of the other; `ScanExact`: the scan accepts what the grammar accepts and finds no structure only where every line stands alone |
| `flattener` | `MCFlattener` | `HeldBack`, `ToolpathRecovered`, `FeedUnchanged`, `NothingLost`, `MovesAreLinear` |
| `rows` | `MCRows` | `KeepsPromise` (refinement of `Delivery`), `VariablesAtEveryRow`, `OutcomeReported`: no final state or error is missed but by a panic, `DropStopsWorker` |
| `batches` | `MCBatches` | `KeepsPromise`, `ColumnsAccumulate`, `EventsReplay`, `PoolBounded`, `OutcomeReported`, `CallsReturn` |
| `case_*` | | the disagreements of section 5 |

### Bounds

* Programs of the kit have three block lists: a top level of three blocks
  (assignment or label, a control statement, a tail), a body of two, and a
  third list nested in it or used as ELSE. Every loop kind, IF with and
  without ELSE, every jump keyword, two IF..GOTO in one block and CASE occur in bodies, with targets before, after, in
  place and outside. Three lists are enough for a jump to cross a scope that knows its
  target in neither direction, and for a loop in a loop.
* `Limit = 3`: a limit that is reached, and loops that end before. `LogCap = 100` exceeds
  the longest log. `Budgets = {1, 3}`: a pause early, and one inside a loop.
* Files for the front ends have up to four lines, or an initial-state program of a line and two lines behind it. A line that
  leaves something in the state comes first, then lines the driver claims, jumps and frames. `SampleMin = 4` and
  `PaddingBudget = 4` (the sample of lines, and the cost of padding lines that are parsed alone) are
  small enough that files of both kinds are declined and kept. Structures have five heads: IF with ELSE and a nested
  WHILE, and everything that is wrong with them.
* `MaxRows = 4` rows for the flattener: lead-in, two points and what follows.
  Curves have one or two chords.
* Channels of capacity 1 (1024 and 3 in the code): the smallest bound at which the
  worker blocks; batches of two rows, programs of up to five blocks: up to three
  batches, ending before, on and after a boundary.

Programs are finite, runs end, and so deadlock is not checked; that nobody waits
for ever is `Terminates`, `BothEnd`, `CallsReturn` and `DropStopsWorker`.

### Fairness

`WF_vars(Next)` for the drivers (in `parity`, of both and of the caller who calls `step_until` again): the interpreting thread runs until it ends. For
streams `WF` of the worker and of the iterator *inside* a call: both threads are
scheduled and `recv`, `send` and `join` wake up when they can. None is assumed of Python
calling `next()` or dropping the iterator.

## 4. Proofs

All theorems hold for every value of the constants that satisfies the named
assumptions of the modules (`ProgramsAssumption`, `LimitAssumption`, `LinesAssumption`,
`InputsAssumption`, `FoldAgrees`, `NullAssumption`, `DegreeAssumption`, `KindsAssumption`, `BatchSizeAssumption`,
`ChannelAssumption`, `JobsAssumption`): well-nested programs, limits and sizes that are naturals, sequences that are
sequences, names that are not two things at once. TLC evaluates each of
them for the constants of a run.

The provers cannot instantiate a theorem whose parameter is an operator, and so not the induction theorems of the
library. `SetInduction` states induction with a *set* instead of a predicate, and follows from the pigeonhole principle
for finite sets; `SeqInduction` (sequences grow by `Append`) and `Recursion` (a step function has a walk through a
sequence) follow from it. The models define what loops over a sequence as a function on the places of it
(`Scanned`, `Passed`, `FlushedSpline`, `Nested`), for which these are enough.

### The walker

`BlockWalker_proofs`:

* `TypeCorrect`: `Spec => []TypeOK`
* `NestingCorrect`: `Spec => []Nested`
* `VisibleTargets`: `Spec => []ScopesMirrorStack`
* `CountersNeverMissing`: `Spec => []CountersExist`

None is inductive alone. `Nested` needs types to speak of cursors;
`ScopesMirrorStack` needs `Nested`, because leaving a scope resumes the block of the parent
frame; `CountersExist` needs `Nested` to know that a FOR frame sits on its own FOR,
whose entry assigned the counter. The invariant proved inductive is the conjunction
of the four. Each action is one step of the proof, and what the operators of
`NcBlocks` do to stacks, symbol tables and the log (`Front`, `Append`, one frame replaced,
one variable assigned) are lemmas in `NcBlocks_proofs`.

On top of that invariant:

* `LimitsHold`: `Spec => []WithinLimit`. Every step of the walker is one of a few moves of the stack
  (nothing, a cursor moved, a counter raised after it was tested, a frame pushed with counters at zero, a frame
  popped), and each leaves every frame within its bound.
* `GotocIsSilent`: `Spec => []GotocNeverAlarms`. The strengthening is `Reachable`: while a GOTOC is being
  unwound its target is in a scope still on the stack. It starts true because `jump_target_visible` looked
  it up in `jump_scopes`, which by `ScopesMirrorStack` are the targets of the stack; a scope is popped only when
  it does not have the target.
* `LoopsExitOnCondition`: `Spec => LoopExit`, an action property.
* `ChangesAreEnough`: `~AllowUndefined => (Spec => []ChangesRebuildEnv)`. Every action appends to the log calls
  that `Records` the change it makes to the symbol table, and records compose. The assumption is needed: section 5.

* `WalkFollowsText`: `Spec => FollowsText`, the refinement. The position of the abstract machine is the cursor
  of the innermost frame; `Nested` says that a frame's parent stands on the block that owns the
  frame's list, so popping, looping and jumping are edges of the text.

### The VM

`CursorVm_proofs`:

* `VmNestingCorrect`, `VmVisibleTargets`: `Spec => []Nested`, `Spec => []ScopesMirrorStack`
* `VmMirrorsWalker`: `Mirrorable => (Spec => MirrorsWalker)`, a step simulation: both use the same
  state, and each step of the VM is a step of the walker.

`Mirrorable` names what separates the drivers: a limit of zero, comments behind a body, FOR over an axis word, and jumps back
within a loop body (section 5). The strengthening, `Mirroring`, says that the frames of loops have counted no jumps
and that a jump in flight was written in the block the cursor stands on or inside a body of it, so that
`Mirrorable` speaks of it.

### Both drivers side by side

At the end of `BlockWalker_proofs`, about `CursorParity`:

* `DriversAgree`: `Alike => (ParitySpec => []AgreeOffLimit)`
* `RowsAgree`: `Alike => (ParitySpec => []RowsPrefix)`

`Alike` asks for less than `Mirrorable`: jumps may lead anywhere, loop bodies included, where the VM's steps are not
steps of the walker because its frames count on (section 5). A limit above zero, no comment behind a control statement and FORs over
variables remain. The inductive invariant, `InStep`, joins the walker's own (`Core`) with: either the two are
`Abreast`, with equal variables, targets, log and ending, and frames that `Match` but for the count of backward jumps,
which is in the VM at least what it is in the walker; or the limit has stopped the VM (`StoppedEarly`) with a log that is
a prefix of the walker's; and a snapshot that is held is the VM as it stands. There is one lemma for each action of the
VM, which finds the walker's from where the cursor stands (`WalkerAtBlock`, `WalkerAtEnd`, `WalkerUnwinding`). Going round
a loop resets the walker's count and leaves the VM's, so `<=` is kept; at a jump the larger count can only trip the
limit earlier. From then on the walker's log only grows (`NextGrown`).

`VmMirrorsWalker` is about the steps of one run, `DriversAgree` about two whole runs.

### The two front ends

`LineParity_proofs`:

* `DriverReplicates`: `Spec => []AgreeOnClaims`, with undefined variables allowed or not.

The invariant is `Locked`: the runs have departed, or are in `Lockstep`: at the same place of the same file with the same tables,
flow and fault, and with rows that are equal but for two differences of the code. The grammar path writes
the block number when a block starts and the driver when it ends; and a line that is only a label starts a row
in one and none in the other, so that between lines it is what has been *delivered* that is equal. There is one lemma for
each kind of word (the driver's effect on it, if it claims it and reads it alike, is the grammar's), one that says no
word looks at the block number, and one for each action. `FoldAgrees` is assumed: that the one-pass
fold of constant expressions computes what the tiers of the grammar do. Over integers that is true of the constant
expressions whose divisions leave no remainder (those `MCLines` has, on each of which TLC evaluates it), and false of
others: it is a statement about the inputs of the abstraction, as the code computes with reals.

* `AxesMoveInRows`: `Spec => AxesMoveInRow`. The strengthening, `Sound`, gives axes, frame and row cells
  their shape, and says that no axis is in the row when the first word of a parsed line is executed: frame
  instructions, which stand alone, then change the frame under none.
* `TypesHold`: `Spec => OneType`. A word `KeepsTypes` if no name comes to be in both tables; statements compose of
  evaluations, stores and row updates that do. A read of an undefined variable defines it as a number
  only where no text of that name would have stopped the reading, and a store looks into the other table first. The
  frame instructions execute several assignments, each from the state the one before left, by `SetInduction` over them.
* `ScanHolds`: `Spec => []ScanExact`, by `ScanIsExact`, which is about every file whatever the run does. The scan walks the
  lines with a stack, the grammar nests spans of them; they meet in two inductions over the length of a span.
  `ListsLeaveScan`: over a span that is a list of blocks the scan makes no error and leaves the stack as it
  was. `SpansAreLists`: a span without an error that ends at the depth it began and comes down no further is a list of
  blocks, or two lists around an ELSE of the structure around it, unless there is a second ELSE. There the first
  line that comes back to the depth (`LeastExists`) closes what the first line of the span opened, because what is
  beneath does not change (`Beneath`). `NothingOpens`: without a structure the stack is always
  empty, so a line that divides or closes one would be an error.
* `LinesTyped`: `Printable => (Spec => []TypeOK)`. The invariant `TypedRun` is `Sound` with the shape of the tables, the row and
  the cursor. Expressions are evaluated by recursion over spans of their terms; `ValuesAre` shows, by induction on
  the length of the span, that the tiers of the grammar give an integer, and `FoldExists` and `FoldStays` that the
  driver's fold does. `FrameWalks` says the same of the assignments of a frame. What the words are made of is
  `WordOK`, in `InputsAssumption`: the names and operators the grammar admits, and divisors as section 2 says.
  `Printable` says that TLC's `ToString` of an integer is a string: the module gives it a definition from which that does not follow.

### The flattener

`Flattener_proofs`, with the lemmas on rows of `NcRows_proofs`:

* `Typed`, `HoldsBack`, `LosesNothing`, `KeepsFeed`: `Spec => []TypeOK`, `[]HeldBack`, `[]NothingLost`, `[]FeedUnchanged`.
  The invariant is that what has been let out `Follows` the rows pushed and not held back: the same changes in the
  same order, F and S ending alike, for every row let out a row pushed with whose line, changes and F and S, read up to
  there, it agrees, and for every row pushed one let out. `PushFollows` shows it of `push`; under it
  `FlushFollows` takes the rows of a spline one after the other and `RunIs` the samples of a
  curve.
* `RecoversToolpath`: `Spec => []ToolpathRecovered`. The invariant `OnPath`: the points let out without the mark, and
  those of the rows held back, are the points programmed; `fl.motion` and `fl.position` are the motion and position in
  effect at the last row pushed.
* `LinearMoves`: `SplinesMove => (Spec => []MovesAreLinear)`. `SplinesMove` says that a block which names a spline programs a
  position, and is needed: section 5. TLC evaluates it for the blocks of `MCFlattener`.

### The streams

`RowStream_proofs` and `BatchStream_proofs`, for every set of jobs, channel capacity and batch size:

* `Typed`: `Spec => []TypeOK`.
* `OutcomeAlwaysReported`: `Spec => []OutcomeReported`. The invariant, `Control`, ties the iterator to the worker: as
  long as the sender lives the iterator has not begun to ask for the result, so a worker that finds its receiver closed was
  dropped; and a thread that is done without a panic has left its result in the channel until it is taken.
* `PromiseKept`: `Spec => KeepsPromise`, the refinement of `Delivery`. The invariant `Progress` follows the
  rows through the pipeline: those taken, in the channel and in the outbox are, in this order, what the output `Owes` after
  the blocks executed, the current row and the spline held back excepted; what it owes at the end is `Rows(job)`. In
  batches those accepted by the sink are split once more, into those of batches sent and those in the buffer. The
  table of a prefix is a prefix of the table (`TabledStarts`), and a batch filled with the values carried
  from the batches before it is the next piece of the table (`BatchTable`), so that each step delivers a longer
  piece of it or leaves it alone, and the end of the iteration finds all of it delivered.
* `VariablesHold` (rows): `Spec => []VariablesAtEveryRow`. `RowsReport` says of the rows of a program that the
  changes up to any of them are those of the blocks up to its line; the flattener keeps that by `Follows`.
* `ColumnsHold` (batches): `Spec => []ColumnsAccumulate`.
* `EventsMatch` (batches): `Spec => []EventsReplay`. The log of events is the changes of the rows accepted, each stamped
  with the number of rows kept before it (`Logs`), so that the events up to row k are the changes up to
  the k-th row that has cells.
* `PoolStaysBounded` (batches): `Spec => []PoolBounded`. With flattening off, a block takes a row out of the pool and puts at most one
  back; the invariant counts the row under way from `deliver` to the sink and the spare one handed back.

### Only model-checked

Liveness (`Terminates`, `BothEnd`, `DropStopsWorker`, `CallsReturn`), which is out of the prover's reach. Every safety property
of a passing run is stated by a theorem.

## 5. Where code and documentation disagree

* `case_jumps`: the VM counts backward jumps of separate loop iterations together
  (`Frame.jumps_taken` is not reset by `scope_end`) and stops programs the walker finishes.
* `case_runaway`: `iteration_limit` does not bound FOR loops.
* `case_words`: the line driver reads `V=0 OR TRUE` as `V=0` and the calls OR and TRUE.
* `case_pool`: with flattening, the pool of recycled rows grows with the output instead of staying within a batch.
* `case_panic`: an `axis_index_map` that names no axis panics the worker, and the iterator ends without rows,
  error or state.

Differences that have no run of their own:

* *Walker and VM.* The VM drops a comment behind
  ENDIF/ENDWHILE/UNTIL/ENDFOR (`exec_block` returns on entering the body), and panics on a FOR over an axis
  word, which the walker skips. With `iteration_limit = 0` the walker reports the limit at a WHILE and the VM does not.
* *Variables.* With `allow_undefined_variables`, reading an undefined variable changes the symbol table
  (`interpret_rules.rs:236`) but is not recorded as a change, although replaying the changes "reconstructs the
  symbol table as it stood at any point" (`output.rs:139-140`).
* *Types.* `DEF REAL A` after `DEF STRING A` leaves `A` in both tables (`interpret_definition`), where
  `interpret_rules.rs:890` and `line_driver.rs:117` keep every name in one.
* *Frames.* The assignments of one TRANS see the earlier ones of the same block as axis positions
  (`frame_assignments`), and an assignment that fails leaves the axes of those before it moved. `AxesMoveInRow` is therefore
  about blocks that do not fail.
* *Arrays.* `R[0]=SET(..)` outside a DEF parses and then stops with `UnexpectedRule`.
* *Flattener.* A spline command restated on a block without a position comes out unchanged (`flatten.rs:579`), and
  the samples after it forward-fill as spline moves, which `flatten.rs:635-636` means to prevent.
* *Line driver.* Besides word operators: `N10X5` is a number and a word to it (`line_driver.rs:804-812`) and one call to the
  grammar; a product of a STRING variable counts as an undefined variable instead of an error. At these lines `LineParity` departs.
  Not in the model are a frame keyword as the target of an assignment, the address N as
  a word (`N10 N=5`: the driver writes the block number last), axis words in lower case, and `DEFREAL A` without a space.
* *Structure scan.* `structure_scan.rs` says keywords stand only at the start of a line; the grammar also
  accepts closers within a line, and structures written on one. A second ELSE passes the scan and stops at the grammar (`ScanExact` says so).

## 6. Not modelled, and the plan

Not modelled: the grammar's text level, reals (their comparison, formatting and functions), G-code tables, error wording,
conversion to Python and Arrow values, file and command-line I/O, plotting (no state, or none that orders anything). For
these TLA+ has nothing to check (tables, wording) or no arithmetic (reals).

Left for later, in this order:

1. *Expressions*: string functions, bit operators, index expressions and REP in `GrammarLines`.
2. *Composition*: a file with structures through `GrammarLines` and the walker together, instead of the two halves
   each with a simple form of the other.
