# A TLA+ model of rust-kap

rust-kap is an interpreter for the array language Kap, written in Rust.
This directory holds TLA+ modules that model its evaluator, TLC
configurations that check them on small instances, and proofs, checked by
TLAPS, that the main properties hold for every value of the constants.
Paths below are relative to the repository; `evaluator.rs` is
`kap-core/src/evaluator.rs` and `lib.rs` is `kap-core/src/lib.rs`.

1. [The system](#1-the-system) - its parts, their state, what is hard
2. [The modules](#2-the-modules) - which module models what, and how
3. [The runs](#3-the-runs) - what TLC checks, bounds, fairness
4. [The proofs](#4-the-proofs) - what TLAPS proves, and the argument
5. [Where documentation and code differ](#5-where-documentation-and-code-differ)
6. [What is not modelled](#6-what-is-not-modelled)
7. [Plan](#7-plan)

## 1. The system

A source text is tokenised, then parsed and evaluated *one statement at a
time* (`eval_string_in_env`): before each statement the parser is seeded with
the names that are functions at that moment. The evaluator is a recursive
function over the syntax tree; it is single-threaded (`Rc`, `RefCell`), and
`thread:makeThread` runs its body on the spot. What makes it hard is therefore
not parallelism but *re-entrancy and unwinding*: every statement may call
functions, load files, run handlers or thunks that change the very tables the
caller is using, and every one of them may end early by an error, a thrown
tag or a return aimed at some outer activation. All clean-up is written by
hand around recursive calls.

### Components

| Component | State it keeps | Operations | What is hard, what must hold |
|---|---|---|---|
| **Namespace registry** (`lib.rs` `NamespaceRegistry`) | current namespace; per namespace bindings, exports, imports; constants; marks of function definitions. One instance shared by all environments of an engine | `ns_define`, `resolve_bare`, `mark_fn_def`, `unmark_fn_def`, `collect_function_names`, export, import, set namespace | A name must be found where the directives in force say, and nowhere else; a library's directives must not leak into the session |
| **Lexical environments** (`lib.rs` `Environment`, `evaluator.rs` `impl Environment`, `apply_user_fn`) | tree of scopes: bindings, pending `:local` marks, function names, call-frame and root flags, home namespace, depth of running bodies | `child`, `lookup`, `assign`, `define`, `declare_local`, application of functions, lambdas, blocks and macros | Reading and assigning walk the chain in different orders; sealed frames stop one walk and not the other; closures outlive the block that made them; flags are raised and lowered by hand around a body that may fail |
| **Library loader** (`use_file`) | `include_loaded`, `include_stack`; the namespace saved across a file | `use()`; the statement loop; `IncludeGuard::drop` | Files that use each other must be cut off, load once, and leave guard and namespace right on every way out |
| **Non-local control** (`return_arrow`, `apply_escape`, `catch_apply`, `throw`, `int:unwindProtect`, `thread:makeThread`, `adverb_each`) | activations and their ids; signals in flight; captured and suspended returns in the heap | return, capture, force, throw, catch, protect, thread, each | A signal must be stopped by exactly the right construct; handlers run once, innermost first; captured returns may be used after their target ended |
| **Dynamic bindings** (`dynamicequal`) | thunks, ids, the set of thunks being forced | bind, copy, read | a body is evaluated at each read, in the bindings of that moment; the circularity guard on every path out of a failing body |
| **Destructuring** (`bind_destruct_target`) | none of its own | bind leaf by leaf | a later target fails after earlier ones are assigned |
| **Feeders** (`feeder:make`, `put`, `att`) | named transformers with their connections | make, attach, put | transformers may change the graph while a value travels through it; cycles |
| **Array primitives** (`evaluator.rs` 6300-25100, `array.rs`) | none; but an array is kept in one of two layouts and carries titles | shape, reshape, take, drop, rotate, transpose, join, search, sets, grade, sort, index, assign, partition, reduce, scan, rank, power, trains, under, encode, ... | each primitive walks the storage, the dimensions and the titles with code of its own, and is given whatever another one left: nested rows, empty axes, partial titles; boundary counts |
| **Numbers** (`number.rs`) | none | promotion Long to BigInt, Rational, Double, Complex; comparison; factors | the 64-bit boundary; one total order over five kinds |
| **Maps** (`map.rs`) | vector of pairs | lookup, with pair, without | last write wins, order of keys |
| **Streams and processes** (`stream.rs`) | byte buffer, end-of-file and closed flags, child process | read byte, line, bytes; write, flush, close | partial reads, use after close |
| **Binary encoder** (`encoder.rs`) | read position | dynamic integers, lengths, atoms, arrays | truncated input, sign and length boundaries |
| **Lexer and parser** (`lexer.rs`, `parser.rs`, `ast.rs`, `token.rs`, `lex_helpers.rs`) | position; known functions | one statement per call | the same text parses differently when a name becomes a function |
| **Session** (`session.rs`) | root scope, engine | eval, load the standard library | state survives failing statements |
| **REPL, RIDE server** (`kap-cli`) | pending continuation lines; bytes of a connection, peer identified | read, evaluate, print; framed commands | half frames and several frames in one read, a peer that leaves between two messages of one answer; when a text is a whole program |
| **SQL, JVM bridge, native API** (`sql.rs`, `jvm.rs`, `jvmbridge.rs`, `native/mod.rs`, `kap-derive`, `kap-ext-stats`) | handles of external libraries; table of native functions | open, query, close; reflection; register | handle lifecycle |
| **CSV, HTML, time** (`csv.rs`, `html.rs`, `time.rs`) | none | conversions | - |
| **Standard library in Kap** (`kap-stdlib`), **conformance harness** (`tools`, `run_conformance_tests.sh`) | - | programs *in* the language; test tooling | - |

### How they interact

* A statement of the session runs in the root scope. The root, and the anchor
  scope of a file, bind in the registry's current namespace; all other scopes
  bind lexically unless the namespace already knows the name.
* `use()` opens an anchor scope below the *caller's* scope, evaluates the
  file's statements in it, follows the file's namespace directives with the
  anchor's home namespace, and restores the namespace it found.
* Applying a function opens a scope below the one the function was defined in;
  the caller's scope is not on its chain. A block applied on the spot opens one
  below the caller's.
* A signal (`AplError`) unwinds these nested evaluations; `apply_user_fn`,
  blocks, `catch`, `unwindProtect`, `makeThread`, `each`, files and the session
  are the places where it may stop or change.
* Before each statement the function names of the scope chain and of the
  registry are handed to the parser.

The full list of hazards, each at the line where it bites and with the
properties that would show it, is in `PROJECT.json`.

## 2. The modules

| Module | Models | Uses |
|---|---|---|
| `Registry` | the namespace registry: state and operations; no steps of its own | - |
| `Scopes` | name binding in the evaluator on top of the registry: scopes, calls, blocks, macros, files, directives, errors | EXTENDS `Registry` |
| `LoadOnce` | abstract: files load nested, each at most once, and end | - |
| `UseFile` | the loader: guards, statement loop, errors, missing and broken files | INSTANCE `LoadOnce` |
| `Unwind` | abstract: protected evaluations end through their handler, once, innermost first | - |
| `Control` | returns, throws, catch, unwindProtect, makeThread, each, files, session | INSTANCE `Unwind` |
| `Feeders` | the feeder graph and the values pushed through it | - |
| `AplValues` | values and the views the primitives take of them | - |
| `Arrays` | the two layouts of arrays, equality and order of values | EXTENDS `AplValues` |
| `Rearrange` | reshape, reverse, rotate, transpose: the primitives that move storage children and never look inside them | EXTENDS `AplValues` |
| `ArrayLaws` | what they promise of an array of any rank and size | EXTENDS `Rearrange` |
| `Structural` | shape, ravel, join, laminate, take, drop | EXTENDS `Arrays`, `Rearrange` |
| `Searching` | keys, index-of, membership, find, the set functions, where, interval, grade, sort, range, deal, boolean lifting, replicate, expand | EXTENDS `Structural` |
| `Indexing` | enclose and disclose with axes, partition, group, enlist, pick, squad, `a[...]` and its assignment | EXTENDS `Searching` |
| `Scalars` | lifting of arithmetic, comparison, character and bitwise functions; classify, case, labels | EXTENDS `Indexing`, `Bitwise` |
| `Higher` | reduce, scan, each, outer and inner product, rank, power, key, trains, under for take and drop | EXTENDS `Scalars` |
| `KapMap` | maps and the functions on them | EXTENDS `AplValues` |
| `MapStore` | a map in use: made, put into, taken from, collected in; the laws of maps | EXTENDS `KapMap` |
| `Codes`, `Encoder` | encode and decode in a radix; the binary format | EXTEND `Arrays` |
| `Workspace` | a session that applies one primitive after the other; the laws of values | EXTENDS `Higher`, `KapMap`, `Codes`, `Encoder`, `ArrayLaws` |
| `Numbers`, `Arithmetic` | the five kinds of number; a chain of calculations and its laws | `Arithmetic` EXTENDS `Numbers` |
| `Assignments` | dynamic bindings and destructuring | - |
| `RideMessages` | requests and messages of RIDE, and the answer each request deserves | - |
| `Exchange` | abstract: the answers are said in order and in full | EXTENDS `RideMessages` |
| `Ride` | a RIDE connection read by read and send by send | EXTENDS `RideMessages`, INSTANCE `Exchange` |
| `Streams` | an input stream, its readahead, a child process and the wait for it | - |
| `Repl` | the lines of the read-evaluate-print loop | - |
| `MCLexical`, `MCModules`, `MCUseFile`, `MCControl`, `MCValues`, `MCHost` | instances for TLC (`Feeders` needs none: its parameters are plain sets and numbers) | EXTEND the above |
| `Recursion` | lemmas about induction, sequences and recursive functions that the proofs cite; nothing of the code | EXTENDS TLAPS |
| `ScopesProofs`, `UseFileProofs`, `ControlProofs`, `FeedersProofs`, `HostProofs`, `ArithmeticProofs`, `ValuesProofs` | theorems and proofs (`HostProofs`: `Streams`, `Repl` and `Ride`; `ValuesProofs`: `Assignments`, `MapStore` and `ArrayLaws`) | EXTEND the above and TLAPS |

**Registry and Scopes.** A scope is a number given in order of creation, so a
parent is always smaller than its child. A scope's `chain` is the set of
scopes from it up to the root; "the nearest scope such that" is the greatest
number in a subset of the chain. The evaluator's recursion is the variable
`stack`: one frame per evaluation in progress (session, function, block, macro,
file); the statement on top runs. One action is one statement or one end of an
evaluation: `Assign` is the whole of `Instr::Assign` (constant check, unmarking,
binding), `DefineFn` commits and marks before it checks the body, as the code
does, `ApplyUserFn` is the entry of `apply_user_fn` and `Leave` the way out of
any evaluation, by value or by error. `BindScope` is `Environment::assign`'s
choice of scope: pending locals first, on the whole chain; then real bindings,
up to the innermost sealed frame; then that frame; then the namespace. `Lookup`
is `Environment::lookup`: scopes, the registry, the home namespaces of the
anchors on the chain, the engine's table. Function bodies are not fixed
programs: while an evaluation is in progress *any* statement may come next, so
a run covers every body that fits its bounds. Values are data or closures; a
closure remembers its scope, whether it is sealed and its parameter.
The history variable `outerNs` records what statements outside files set the
namespace to.

**UseFile and LoadOnce.** Requests (paths) and the basename each resolves to are
constants, as are the files' statements: plain, or a `use` of another request.
Files can be missing (resolution fails) or broken (a plain statement raises),
and can be repaired between two statements of the session. `Skip`, `NotFound`
and `Begin` are the three ways through `use_file` before evaluation, `End` is
`IncludeGuard::drop`. `LoadOnce` sees the basenames of the loads in progress
and the set of loads that ended.

**Control and Unwind.** A frame is an activation together with the construct that
owns its outcome. Rust's `Result` is the variable `outcome`: `Value` while the
innermost activation runs, otherwise the signal leaving it. An activation's
`home` is what `return_target_env` finds from its scope: its own id for a block
body, the target of the scope that made it for a bare function body, the
caller's for a file. `closures`, `escapes` and `suspended` hold the targets of
values in the heap that can raise a return later, wherever they were passed to.
Each `End...` action is one construct's treatment of the outcome. `raisedAt`,
`cleaned` and `reported` are history.

**Feeders.** `pushes` is the stack of `feeder_put_value` calls. One is reached
(`Reach` copies the connections), transforms the value, forwards the result to
the copied connections one after the other and is left. While its transformer
runs, any operation may happen, nested puts included; errors abort pushes until
a transformer, or the session, handles them. `found`, `sent`, `visited` and
`calm` are history.

**Arrays to Higher.** A value is a record: a number (an integer here), a
character, a string, a list, a map, null, nil, or an array of dimensions, data
and labels. `data` is the storage as the code keeps it, `ArrayData::Nested`:
for rank 2 and above either the cells in row-major order or one nested array per
row, since some primitives write one and some the other. `LogicalCells` is the
walk that the careful primitives use, `Elements` what the others take. One
operator is one primitive with the early returns and errors of its function in
`evaluator.rs`; a failure the code reports is the value `Err`, an index out of a
`Vec` is `Trap`. The functions that operators take are given by name and applied
by `Monadic` and `Dyadic`, so that nothing needs an operator as an argument.
Titles are numbers, 0 where an axis label is missing. `Rearrange` is apart from
`Structural` because its primitives need no walk of the storage: a reversal is
given by the coordinates each storage child comes from (`Moved`), a transposition
by the permutation of the axes, and `ReshapeFill` by the dimensions alone, so
that they can be proved about. `ArrayLaws` names the last result `it`, as
`Workspace` does, and nothing else of the session.

**KapMap, MapStore.** A map is the vector of pairs of `map.rs`; a look-up takes
the first pair with an equal key (`FirstAt`). Keys are equal when what they hold
is, place by place: `KeyEqual` compares one level of nesting after the other, as
far as `MaxDepth`, where the code recurses; nil and maps equal nothing, not even
themselves. The functions that put, remove and collect are recursive functions
along the pairs given. `MapStore` is a program at work on one map: `Make` is the
monadic `map:with`, which keeps equal keys, `PutIn` the dyadic one, `TakeOut`
`map:remove`, `CollectIn` `map:append`, with the pairs written as a vector or as the
rows of a matrix, boxed or not. `clean` says that no key was given twice when
the map was made. Maps among other values are in `Workspace`.

**Codes, Encoder.** `Codes` is `encode`, `decode` and their
big-integer form; a loop that never ends is the value `Hang`. `Encoder` writes a
value as a sequence of bytes and reads it back with a position, byte for byte
as `encoder.rs`: shortest integer forms, sign extension, lengths, tags.

**Workspace.** `it` is the last result. Each action is a group of primitives
applied to it, with operands out of small sets, as a user types statements; at
most `MaxChain` of them follow a literal of `Seeds`. This is the point of the
module: a primitive is tried on what other primitives leave, in their layouts,
not on arrays a tester wrote down. `regular` says that the last step was a
primitive given a value stored flat in a case the code gets right: `Unless`
names the other cases, which are followed but claim nothing (section 5). What an
ill-stored array turns into is not followed further.

**Numbers, Arithmetic.** A number is a kind with a numerator, an imaginary
part and a denominator. `MaxLong` scales the machine integer down; a double is
an exact fraction, an infinity or NaN, and comparisons that go through
`i64::MAX as f64` meet `MaxLong + 1`, as in the code. `Arithmetic` applies one
operation after the other to the last result, so a big integer that would fit a
machine integer, which the code does not bring back, is met by the next one.

**Assignments.** `bodies` numbers the thunks; `bound` maps names to values or
thunks; `Read` forces what it finds and goes on forcing inside. `dynActive` is
`Engine::dyn_active`; `Forcing` is `APLValue::force` as a function of a thunk and
the set of thunks active before it, and gives the value and the set after it. A
target of a destructuring assignment is a group of names and of groups of names,
matched leaf by leaf (`BindEach` is the loop of `bind_destruct_target`,
`BindInner` its recursive call); the first leaf that fails leaves the earlier ones
bound.

**Ride and Exchange.** A frame is a sequence of cells, its header first; a read
takes any number of cells up to `ReadSize`, across frames. `todo` is what is
left of the running handler: one action per message sent, one for the
evaluation. The peer sends when it likes, stops in the middle of a frame,
closes, or resets; a send to a peer that is gone fails sooner or later and then
always. The sends whose result the code drops (`let _ =`) are `Ignored`.
`Exchange` knows only requests and messages: `ConversationOf` is what a session
that serves one request after the other would say, and the interpreter may say
nothing but the next message of it, or hang up when it must.

**Streams.** One stream over memory, a file or a child's output, and the
primitives one after the other. `FillPending` is one read of the system, of any
size up to a block; `Collect` the loop of `read_line`, `read_bytes` or
`read_all_lines`, a byte at a time; `TimeOut`, `Sleep` and `WaitOver` are the
polling loop of `wait_timeout`. The child writes while the pipe has room, ends,
or is killed when it writes to a stream that was closed.

**Repl.** A line is a sequence of brackets and backticks; the loop appends it to
the buffer and hands the buffer over when it is a whole program, which is
decided by `has_unbalanced`, a count of brackets of every kind.

Names follow the source (`unassignedLocals`, `includeStack`, `fnBodyDepth`,
...). Operators whose comment starts with "Mutant:" are plausible bugs of the
definition that follows them (in the modules of values, the operator before the
mapped one, as `WindowFront` before `Window`): each property is violated when its
mutant takes the definition's place, which shows that the property can fail.

## 3. The runs

| Run | Configuration | Question | States, time |
|---|---|---|---|
| `lexical` | `MCLexical.cfg` | Does a program of nested calls, blocks, sealed functions and pending locals read what it assigns, and write only where it may? | 266 thousand, 40 s |
| `modules` | `MCModules.cfg` | Do namespaces, exports, imports, constants and nested files stay apart, whatever fails? | 623 thousand, 105 s |
| `use_file` | `MCUseFile.cfg` | Do files that use each other, fail, are missing and get repaired load at most once and return? | 27 thousand, 6 s |
| `control` | `MCControl.cfg` | Do signals stop exactly where they must, and is every protected activation cleaned up? | 829 thousand, 25 s |
| `feeders` | `MCFeeders.cfg` | Does a value reach the right feeders, in order and to an end, while transformers change the graph? | 175 thousand, 22 s |
| `values` | `MCValues.cfg` | Do values keep their layout, titles, order, cells and identity through chains of primitives, do numbers stay exact through chains of calculations, is a map its keys, do dynamic and destructuring assignments bind what they should? | 22 thousand, 190 s |
| `host` | `MCHost.cfg` | Do the RIDE server, streams and the REPL lose, repeat or reorder nothing? | 159 thousand, 40 s |
| `doc_seed`, `doc_cache`, `doc_home`, `doc_return` | `Doc*.cfg` | four statements of comments that the code does not keep (section 5) | - |

**lexical** - one variable name `a` and one function name `f`, two data values,
four scopes (root and three nested), five statements. The shortest violation
of each mutant needs at most four scopes and five statements: define, call,
assign inside, leave or capture, read. Properties: `IInv` (the invariant of the
proofs: types, the tree of scopes, live closures), `BodyDepthMatchesStack` (the depth
that defers the constant check counts running bodies, after any errors),
`WritesStayOnChain`, `FramesSealed` (a sealed call cannot change older bindings
except pending locals, nor the namespace), `ReadYourWrites` (a read in the same
scope returns what the previous statement assigned, unless an outer scope holds
the name as a pending local, which assignments reach first and reads do not),
`LexicalScoping` (a called body starts with the bindings and the assignment target
of the scope its function was written in: a call that opened its scope below the
caller would violate it).

**modules** - namespaces `default`, `kap` and one library, three scopes, three
nested evaluations, six statements, one import: enough for a file that changes
namespace, binds, exports or declares a constant, fails, and a session
statement that then imports and reads. Properties: `FileNamespaceContained`,
`UnexportedNamesInvisible`, `ConstantsHold`. (That a read returns what was
assigned, with qualified names and files too, is proved: `ReadsSeeWrites`.)

**use_file** - files `x` and `y` use each other, `y` uses `z`, and another `z` in a
directory of its own shares the basename; three requests of the session and
four nested loads, one more than distinct basenames, so a missing cut-off would
show. `GuardMatchesLoads` (the recursion guard is exactly the loads in
progress), `ImplementsLoadOnce`, and the liveness property `EveryUseReturns`.
*Fairness:* `WF_vars(LoaderStep)`. `LoaderStep` is what the interpreter does by
itself once a `use()` is being evaluated: a single thread that runs the
statement loop and does not wait for anybody. The session's next `use()` and the
repair of files are not in it: nobody has to issue them. A file whose plain
statement never ends would break the assumption; plain statements are atomic
here.

**control** - two tags, three activations besides handlers, four nested
activations, three statements that raise, capture or make a bare function. That
is enough for a return that aims at an outer block from a bare function
protected in between, whose handler throws; for an escape captured in one call
and applied after it ended; and for a throw through a file or a thread inside a
catch. `MaxIds` bounds the activations the program starts; handlers may still
be applied after that, so no behaviour is cut off between a protected body and
its handler. `SignalsStop`, `ReturnsLandWhereAimed`, `ImplementsUnwind`.

**feeders** - three feeders and seven operations: the smallest acyclic graph in
which depth first differs from any other order and a feeder is reached twice
(three makes, three attaches) and a put into it; with fewer makes, the
operations are left to transformers. Five nested pushes are two more than an
acyclic graph of three feeders can nest by forwarding alone.
`ForwardsWhatItFound`, `DeliversDepthFirst`, and the liveness property
`PutsReturn`: a put returns or the recursion overflows. *Fairness:*
`WF_vars(PushStep)`, the steps the interpreter takes by itself once it is
pushing. That transformers end is assumed: they perform finitely many
operations (`MaxOps`), as no fairness asks them for another one.

**values** - `MCValues` puts four machines of values side by side: the
variable `machine` picks one at the start and the others idle. *Workspace*:
thirteen literals (a number, a character, a string, titled vectors and matrices,
an empty matrix, nested and mixed vectors, a box, a map), arrays of at most four
cells, rank 3 and depth 2, numbers up to 2 in magnitude, and two primitives after
a literal; the laws are asked of every value reached, and apply a third and a
fourth. Four cells are what a 2 by 2 matrix needs, the smallest in which rows and
columns, layouts and axes differ, and in which a permutation, its inverse and a
repeated element can be told apart; two primitives are what it takes to make
each layout and each kind of title and hand it on. *Arithmetic*: `MaxLong` is
9000, beyond the square of the largest prime the scaled table divides out, so
that the strong pseudoprime test is really asked; thirteen numbers around the
borders, two operations after each, and 42 machine integers, small ones,
products of two primes and large primes, that are tested and not computed with.
*Assignments*: three names, one of them a
constant, and two dynamic bindings, which can form a circle through one another,
through themselves and through a catch. *Maps*: as keys a number, the same number in a
box, a vector, and nil, which equals nothing; as values a box and the null that
append takes for none; up to two pairs in a statement, in the map and collected
under a key, so that a key can be equal to the first, the second, both or
neither.

* `StorageSound`: a primitive given flat storage leaves storage that is the cells
  or the rows, titles that fit the axes, and indexes nothing out of range.
* `LayoutBlind`: the primitives that go through the logical cells give the same
  cells for both layouts of one matrix.
* `TakeDropSplit`: counts that are negative, zero or too long.
* `RearrangeExact`: reversals undo themselves, rotations add up, a transposition
  is undone by the inverse order of the axes and takes a reversed axis to where it
  takes the axis, and a reshape, with a computed dimension or without, uses the
  cells in order; no cell, title or place is lost.
* `LabelsFollow`: a cell keeps the titles of its place.
* `GradeSorts`, `SearchAgrees`: grade is a stable sorting permutation that sort and
  interval follow; eleven search and set functions, which compare values in four
  different ways, agree on which are the same.
* `AssignSelects`, `UnderWindowExact`: what is overwritten is what the index
  selects, and no more.
* `FoldLaws`: reduce, scan, windows, products and rank against folds of the lanes.
* `RoundTrips`: what else can be undone: boxes, partitions, digits, encoded bytes.
* `MapLaws`: a map is its keys: what is put in is found under every equal key and
  changes no other, the later of two pairs counts, what is taken out is gone, an
  index of the keys reads the values, the array of the pairs makes the map again,
  and equality does not look at the order of the pairs.
* `NumbersExact`, `NumbersOrdered`: nothing is rounded or wrapped on the way through
  the kinds; one total order.
* `Primality`, `TrialDivision`: the test of primality finds the primes; the factors
  of a number are primes in order and multiply to it, and its divisors, found in
  pairs around the square root, are all there are.
* `CircularExact`, `DestructExact`: a read reports a circle only where there is
  one, fails where there is one and no catch, and leaves the guard empty; a destructuring assignment binds the leaves
  before the first that fails.

What a law leaves out, its comment says; section 5 lists why.

**host** - again three machines, picked by `machine`. *Ride*: twelve requests,
of each kind of answer, with one that marks its frame wrongly, one shorter than
its header and one that is an empty command list; two of them, frames of two to four cells and reads of up to
five, so that a read ends within a frame, at its end, and in the middle of the
next. *Streams*: up to three bytes, blocks of two, a pipe of two, three
primitives: enough for a block used by two primitives, a last line without its
end, and a child that waits for its reader. *Repl*: three lines of up to two
marks. `ImplementsExchange` (with its liveness), `StreamExact`, `JobsReturn`,
`ReplRunsWholePrograms`. *Fairness:* `WF(Serve)`: the connection's thread runs,
and a read of the socket returns what has arrived; `WF(Primitive)`: the
interpreter runs the primitive it is in; `WF(Child)`: the operating system runs
the child, which writes when there is room and ends. The peer owes nothing: it
may never send, leave, or read. Every wait and read returns but the one wait
nobody can end, for a child that waits for its output to be read
(`WaitsForReader`).

Tags and data values are symmetric in `lexical` and `control` (no action and no
property names one of them), and both runs check safety only.
Runs say `CHECK_DEADLOCK FALSE` because their bounds on statements end every
behaviour.

## 4. The proofs

TLAPS checks these for every value of the constants that satisfies the
assumptions `RegistryAssumption`, `ValueAssumption`, `ScopesAssumption`,
`UseFileAssumption`, `ControlAssumption`, `FeedersAssumption`, `RideAssumption`,
`StreamsAssumption`, `ReplAssumption`, `MaxLongAssumption`,
`ArithmeticAssumption`, `AssignmentsAssumption`, `KapMapAssumption` and
`MapStoreAssumption` (bounds are numbers, `default` and `kap` are namespaces,
data, closures and "unbound" are different things, a read of a socket and the
buffers of a stream hold at least one cell or byte, an opening bracket is not a
closing one, the largest machine integer is at least 2, constants are names,
targets and values of destructuring assignments are at most two deep, and what a
key or a value of a map holds is again one of those the program may write, a box
holding something).

* **Recursion** - the prover takes no induction theorem that has an operator as a
  parameter, so induction is done by the least number of a set (`LeastNumber`,
  `InductionUpTo`: the numbers at which a property fails have a least one).
  From it: a recursive function over a sequence exists (`RecursionExists`),
  and what `FlattenSeq` does to an appended sequence. That is why operators whose
  value is proved about are recursive functions or folds here.

* **ScopesProofs** - `InductiveInvariant`: `Spec => []IInv`. Types alone are not
  inductive: that a new scope's chain is a tree needs that the scope it is opened
  below exists, and this scope may come out of any table, as a closure's. So
  `IInv` adds: every closure in a namespace, a scope or the engine's table closes
  over a created scope (`ClosuresLive`, kept by `Lookup`: lemma `LookupLive`),
  running evaluations run in created scopes of increasing number, and the body
  depth of a scope is 1 or 0 (`StackInv`), without which leaving a body could
  take it below zero. `TypeCorrect` and `ChainsFormTree` follow.
  `WritesOnChain`, `CallFramesSeal`: from
  `BindScopeProperties` (the scope an assignment binds in is on the chain, not
  above a sealed frame unless pending). `ReadsSeeWrites`: from
  `BindScopeNearest`, that no scope nearer than the one assigned binds the name.
  `BodyDepthCounts`, `ConstantsAreKept` from the invariant. `FilesKeepNamespace`
  needs `OuterNsInv`: the namespace saved by the outermost file in progress, or
  the current one if there is none, is the one set outside files.
  `UnexportedStayHidden`: an import that shows the name would have to be of the
  one namespace that binds it, which does not export it, so `ResolveBare` finds
  nothing (lemma `UnexportedUnresolved`), nor do the scopes and the anchors.
  `BodiesAreLexical`: what a called body reads and assigns was there in the scope its
  function closes over. The new scope could change that if it were not empty, so the
  invariant is strengthened by: scopes that are not yet created hold nothing
  (`FreshScopes`, kept by every statement: `FreshKept`). Then a lookup from the new
  scope is the lookup from its parent (`CallReads`), and the scope an assignment
  binds in is on the chain, which is the parent's but for the new scope
  (`BindScopeOnChain`).
* **UseFileProofs** - `LoaderInvariant`, `GuardIsExact`, and
  `LoaderRefinesLoadOnce`: with the guard equal to the loads in progress and
  contained in the cache, `Begin` is `LoadOnce`'s `Begin` of a basename not seen
  before, `End` its `End`, and all other steps stutter. (The fairness part of
  `LoadOnce` is checked by TLC only.)
* **ControlProofs** - `SignalsStopAtWalls`, `ReturnsLand`,
  `ProtectImplementsUnwind`. The invariant adds to the types that activations
  are numbered upwards along the stack and that a signal in flight unwinds the
  very stack it was raised on; then each `End...` action passes one frame, and
  its guards say why that frame may be passed.
* **FeedersProofs** - `FeedersTyped`, `ForwardedAsFound`. Types are
  inductive by themselves; the second theorem needs what a push keeps while its
  transformers attach more: what it has served followed by what is left is what it
  found when it was reached (`GoodPush`). Forwarding moves the head of one to the
  end of the other (lemma `Served`), and a push ends when nothing is left. A graph
  that grows keeps good pushes good (`GraphChanged`), because feeders are never
  taken away.
  `DeliveredDepthFirst`: while nothing disturbs a put (`calm`), the graph is the one
  it started in and the pushes under way are a path in it, each serving the
  connection its sender served last. Every push owns a *part* of `visited`: its
  feeder and the searches from the connections served, up to the one being served
  (`CalmInv`). Forwarding opens a part with one feeder; the end of a push
  completes its part, which is then the search from its feeder, and joins it to
  the part of the push outside it (`PathServed`, `PathDelivered`). A search is
  bounded by a depth as in `DepthFirst`; `SearchSteps` says that it is its feeder
  followed by the searches of one less.

* **HostProofs, RIDE** - `RideTyped` and `RideAnswers`: every step of a connection is a step
  of `Exchange` or a stutter. The invariant names a number k: the first k requests
  asked are taken, the bytes buffered and under way are exactly the frames of those
  behind them (`Wire`), and what was said, followed by what the rest of the handler
  will say (`AllDue`), is the conversation about the first k requests. A read
  moves bytes, a frame cut off raises k by one, a send moves one message across;
  conversations about more requests begin with those about fewer. The types
  alone say none of this, and neither half is inductive without the other: a frame
  that is cut wrongly answers the wrong request.
* **HostProofs, input** - `StreamBytesExact`: what was read, is in the readahead, in the
  pipe and at the source is the content, in this order, apart from the line end that
  `read_line` adds to a last line without one, and that can only be at the very
  end, when nothing is left to read (`StreamInv`). `ReplWholePrograms`: the lines
  run and the lines collected are the lines typed, and what is collected is not
  yet a program unless the input ended. The code counts depths;
  the property speaks of brackets that match. `BalancedIsMatched` proves these to be
  the same: walking along the text, the depth is the height of the
  stack of brackets that wait for their partner, as long as it is not negative.

* **ArithmeticProofs** - the numbers, for every width of the machine integer. `gcd`
  and `power` are recursive functions; that they exist comes from `EndlessExists`
  (an endless sequence of approximations) and a least counterexample. `GcdIs`:
  the result divides both and is a combination of them; hence lowest terms are
  unique (`LowestUnique`). From there an operation is described by the fraction it
  returns (`Is`): two exact results are the same number when their fractions are
  equal by cross-multiplication (`IsUnique`), which makes each law an identity
  between polynomials. `Remainder` is unique in the same way, so the quotient
  that `Modulo` never computes and the floor of `Div` must agree.
  `ResultsHeld` is the invariant: a result is a number of one of the five kinds,
  and an exact one is in lowest terms, without a denominator when it is an integer
  and in range when it is a machine integer. The laws need all of it (a
  rational that is not in lowest terms breaks equality, a machine integer out of
  range breaks `Gcd`), and every operation of `Combination` and `Alone` keeps it.
  `LawsOfExactNumbers` and `NumbersTotallyOrdered` are about any numbers of that
  form, `ExactNumbers` and `OrderOfNumbers` about those that calculations reach.

  Trial division: `factors` exists like `gcd` does, because what is left of a number
  shrinks. `FactorsArePrimes` is by the least number for which it fails: as long as
  nothing below the next trial divisor divides what is left (`Undivided`), the
  smallest divisor found is a prime, and it keeps what is left undivided below
  itself; when none is found up to the square root, what is left is a prime
  (`PrimeByRoot`). `OtherDivisor`: the divisor on the other side of the root, hence
  `Divisors` misses none, and an odd number needs no even trials. `FactorsAndDivisors`
  is about any whole number, `WholeNumbersDivided` about those that calculations
  reach.

* **ValuesProofs, assignments** - dynamic bindings and destructuring, for any names, any
  number of thunks and groups of any width. `AssignmentsTyped` is the invariant: names hold
  values or thunks that exist, no thunk is marked as active between two
  statements, constants keep their value. That `Forcing` is defined at all comes
  from a set of active thunks that only grows on the way in: `ForcingExists` applies the
  definition again and again, and with m thunks not active nothing changes any more
  after m + 1 times. `ForcingTidy`: whatever the bindings and however it ends, the
  evaluation of a thunk leaves the set of active thunks as it was. `CirclesReported` has two
  directions, each by induction over the thunks not yet active, and both speak of a
  thunk being *clear*: nothing it reaches is active or reaches itself. A clear
  thunk is not reported (`ClearForces`: its operands are clear with one more
  thunk active, because it does not reach itself); and a thunk that gives a value was clear
  as far as sums go (`ForcedIsClear`: what it reaches is its operands and what they
  reach, and those were evaluated with it active). `LeavesBound`: what some leaves
  bind (`Binds`) composes along a sequence of leaves (`BindsMore`, `BindsEnded`),
  so the loop over a group binds the leaves of its members one after the other,
  first for groups of names, then for groups of those.

* **ValuesProofs, maps** - any keys and values of any depth, and maps of any size. Equality of keys is
  compared level by level, so it is symmetric and transitive (`KeyEqualSymmetric`,
  `KeyEqualTransitive`) because each level of a comparison is the swapped one, or the
  one through the middle value; it is not reflexive, nil being unequal to itself,
  and the laws say where they need that a key equals itself. One statement changes a
  map in one of three ways: a pair put in (`Puts`: the first equal key takes the value,
  or the pair goes to the end), a key taken out (`TakenOut`), and pairs collected
  (`AppendPairPuts`); what an argument of several pairs does is the last of a chain of
  maps, each made from the one before it (`WithPairsSteps`, `AllCollectedSteps`,
  `WithoutKeysTakesOut`). `MapsTyped` is the invariant: a map is a
  sequence of pairs that were written or collected, and a clean one has no two equal
  keys. `MapsKeepTheirLaws` follows from it law by law. For the last law, equality up to
  order, it needs that an injective function on the places of a map also reaches
  every place.

* **ValuesProofs, arrays** - reverse, rotate, transpose and reshape, for arrays of every
  rank and size stored as their cells (a vector always is; a matrix where the
  primitive that made it did so), with or without titles. The cells may be anything, arrays
  too, since these primitives do not look inside. The ground is that `Flat` and `Coords`,
  row-major numbers and coordinates, are each other's inverse (`FlatOfCoords`,
  `CoordsOfFlat`), by induction along the dimensions, whose products are a recursive
  function that exists by `RecursionExists`. From there each of the primitives gives an
  array described by what is at a coordinate (`Built`): a turned axis (`Turned`) takes
  its coordinate through a function, and functions compose, so that a reversal, which is
  its own inverse, undoes itself, and rotations, remainders of sums, add up (`TurnedTwice`,
  `TurnTwice`). A transposition (`Transposed`) composes the coordinates with
  the order, and an order names every axis because it is one to one on a finite set
  (`OrderCovers`); that a turned axis follows is the same permutation of one changed
  place (`TransposedTurned`). Titles are turned with the cells and exchanged with the axes,
  by lemmas of their own. `AxesTurned` and `AxesExchanged` are the laws for any axis,
  any distances and any order; `ArraysRearranged` adds the reshapes, to rows of
  any length, and is the property of the run. (Where titles do not follow
  their axes, section 5, the law of the transposition claims nothing: `TitlesFollow`.)

Only model-checked: the other properties of the run `values`, and liveness
(`EveryUseReturns`, `PutsReturn`, `JobsReturn`, the fairness of `LoadOnce` and
`Exchange`), which this prover does not do. Most modules of values walk trees with
`RECURSIVE` operators, or take bits from `Bitwise`, which it cannot read; so the laws
of `Workspace` stay with TLC, but for `RearrangeExact`. So does `Primality`: that the strong pseudoprime test
with the code's bases has no exception below 2^64 is known from computation only.

## 5. Where documentation and code differ

Each is a run in which TLC finds the statement violated; `PROJECT.json` quotes it.

* `doc_seed` - "only names defined via a function definition": a name redefined as
  data is still handed to the parser as a function, from the scope's own set.
* `doc_cache` - "a failed or completed include does not permanently block a later
  use": a failed one does, by the other cache.
* `doc_home` - "must resolve against the defining file's namespace": the namespace
  current at the call is asked first.
* `doc_return` - "`eval_string_in_env` converts it to a runtime error": only
  throws are converted there; returns reach the embedder as they are.

### Divergences without a run

Seen while modelling; the models follow the code, and where a law would be false
its comment or an `Unless` says so. Lines are of `evaluator.rs` unless named.

*Layouts.* `logical_cells` (7262) takes cells that are arrays for rows when they
have the trailing dimensions, so an n by 1 matrix of one-element vectors reads
as its contents. On nested rows (from `⍳2 3`, monadic `⍪`, `build_nested`) `⌽ ⊖ ⍉`
index out of range, `⍴` cycles rows, sort puts null, grade compares rows,
membership and index-of give fewer cells than dimensions, and `≡` tells a matrix
from the same matrix stored flat.

*Empty and ragged.* Reduce of a 2 by 0 matrix, group, partition and index of
empty axes, `⍪` of an empty matrix and an inner product with an empty frame panic
or leave cells and dimensions that do not fit; so do encode with a matrix of
radices, monadic `≠` of a matrix, `⊂[axis]` off the last axis, `⊃ 1 (3 4)`,
disclose with axes of a lower-rank element, and the rank operator over results
of several ranks. Expand writes one dimension per count and as many elements as
the counts add up to.

*Titles.* Rotation turns the titles against the elements; transposition moves the
titles by the permutation and the dimensions by its inverse; rank up and down
keep them (6668); indexed assignment drops them.

*Order of lanes.* Reduce of rank 3 and enclose along an axis number the lanes
first axis fastest and store them last axis fastest.

*Functions.* Deal draws from a range that shrinks from the wrong end, so `1?6` is
always 5 (23634). Arithmetic of two arrays compares only their element counts;
with a character it keeps the number cells only. A comparison with an array
gives a vector. `1 2 3 ∧∵ 1` is an error and `1 ∧∵ 1 2 3` is not. Encode with
radix 1 or 0 never ends (24846).

*Numbers.* A big integer with a rational is added in doubles, and with a complex
number loses the imaginary part. A big integer does not come back to a machine
integer. `1⋆¯1` is a rational 1/1. `0⋆¯1`, the remainder of the least integer by
-1 and some least common multiples panic. The order called total
(`number.rs` 275) has a circle through the double 2^63.

*Maps.* Monadic `map:with` keeps duplicate keys; `deep_equal` is then not symmetric
(`map.rs` 111). Between a map and another value there is no order (`lib.rs` 1094):
comparing them fails, sorting and grading take them for equal. A missing key is null to `map:get` and nil to indexing.

*Encoding.* An integer of one byte is read back unsigned: -128 to -5 change.

*Bindings.* A dynamic binding whose body is another one hands on the thunk
unforced.

*Host.* In serve mode the magic of a frame is not looked at, and a frame shorter
than its header, or an empty command list, ends the connection's thread by a
panic. The REPL counts brackets of all kinds together and inside strings.

## 6. What is not modelled

The syntax tree and its parsing (statements are actions), macro expansion beyond
the scope it opens, formatting and messages, the text of errors. In `Scopes`:
user-defined operators; values are data or closures, and destructuring and
dynamic bindings have a module of their own over one scope. In `Assignments`:
the modified form of a destructuring assignment, and groups within groups within
groups (the code's recursion has no bound). In `Control`: evaluation of
arguments before a call (a statement that raises covers it), and the thread
builtins' locks and condition variables, which do nothing in a single-threaded
evaluator. Of the array primitives: matrix division, inverses and the kinds of
under besides take and drop along an axis, roll (random), the string primitives,
number parsing and formatting. Of the numbers: rounding of doubles and the
transcendental functions; of the encoder: the eight bytes of a double. Of the
streams: output, a child's input and its error output, and the replacement of
invalid UTF-8. Of the RIDE server: JSON, and the connections of serve mode beside
one another, which share nothing.

Left out as components: SQL handles and the JVM bridge (they wrap libraries
outside the repository), the native extension table (filled at start and then
constant), CSV, HTML and time (conversions without state), the standard library
in Kap (programs of the language, not of the interpreter) and the conformance
harness.

## 7. Plan

In this order; each with its hazards from `PROJECT.json`.

1. *done* `Registry`, `Scopes` and their proofs; `UseFile`, `LoadOnce`; `Control`,
   `Unwind`; `Feeders`.
2. *done* `Assignments`: dynamic bindings, destructuring.
3. *done* The values: `Arrays` to `Higher`, `KapMap`, `Codes`, `Encoder` and the
   laws in `Workspace`; `Numbers` and `Arithmetic`.
4. *done* `Ride`, `Exchange`, `Streams`, `Repl`.
5. *done* Proofs: `UnexportedNamesInvisible`; `Feeders`, its order of delivery
   included; `Ride` against `Exchange`; `Streams`; `Repl`; the laws and the order of
   numbers.
6. *done* `CircularExact`, `DestructExact`, `MapLaws`, `TrialDivision` and `RearrangeExact`
   as theorems.
7. Composition of `UseFile` with `Scopes`: a file that counts as loaded although
   its bindings became locals of a sealed call.
8. More laws of `Workspace` as theorems: take and drop, joins, titles, over a walk of
   nested rows that is a recursive function.
9. Statement-level parsing: which names are functions when; macro expansion.
