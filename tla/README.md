# NetQRE synthesizer: a TLA+ verification project

NetQRE learns programs that tell two sets of network traces apart.  An
*enumerator* process grows candidate programs from a grammar; *execution
servers* run candidates on the traces.  This directory holds TLA+ models of that
system from the thread pool to the gates that run a program, the TLC
configurations that check them, and proofs about them for TLAPS.

## 1. Inventory

| Component | State | Operations | Talks to |
|---|---|---|---|
| `MasterThread` / `WorkerThread` (`synthesizer/core/multithread.*`) | `pending_tasks`, `finished_tasks`, `buzy_workers`, all under `task_lock`; the mailbox in each worker | `hire_workers`, `do_task` / `do_filter` / `do_accept`, `find_finished_task`, `all_tasks_done`; `working_loop` | `SearchGraph` drives it; workers call `filter` and `accept` |
| `SearchGraph` and `RedundancyPlan::filter` (`search_graph.*`, `redundancy.*`) | `this_round`, `buffer`, `answer`, `pending_answer`, counters of one round; `visited`, shared with all workers and with no lock | `explore_new`, `finish_tasks` (`check_redundancy`, `check_accept`), `gather_candidates`, `prepare_next_round` | the pool; `SyntaxTree::multi_mutate`; `MergeSearch` calls it |
| `NetqreClientManager` / `NetqreClient`, servers (`netqre2dt/rpc`) | `cache` (under `cache_lock`), `next_client` (no lock), per client `count_lock`, `buzy_threads`; futures in flight | `exec`, `distribute`, `collect`; the handler of the server | called by every worker in `accept`; remote servers |
| `accept()` of the interface (`netqre2dt/rpc/interface.hpp`) | `threshold`, `indistinguishable_is_negative` of the example handle, weights of the constraint: shared, no lock | `accept`, `test` | `NetqreClientManager` |
| `MergeSearch` (`synthesizer/core/merge_search.hpp`) | tree of example sets, `global_pool`, `global_answer` | `collect_tree`, `search_by_layer`, `real_search_single` | one `SearchGraph` after another |
| `SyntaxTree` (`general-lang`) | tree, options, memoised hash and completeness | `mutate`, `multi_mutate`, `search_and_replace`, `equal`, `hash`, `prune` | the search |
| Data transducer (`data-transducer`) | gates with memoised values, circuits, ports | `combine_*`, `tick`, `set_state_in`, `get_state_out`, `process` | the interpreter |
| Interpreter (`netqre2dt/interpreter.*`, `op.*`) | value space: one transducer per tuple of parameter values; interval values | `interpret`, `bind_context`, `process` | the server and `accept` |
| Parser, tokenizer, JSON, `main` | none that lasts | text and packets to data | everything |

Hard behaviour: several threads over one queue; a termination test that runs
beside them; a hash set and trees shared with no lock; answers that overtake each
other; a lock held over a blocking remote call; a cache looked up in one critical
section and read in another; servers that die; budgets and boundary values.
`PROJECT.json` lists the hazards line by line, each with the property that would
catch it.

What makes each component correct:

- **pool**: each task comes back exactly once; "all done" is said only when it
  is true;
- **search**: unlocked work happens only while the pool is empty; no candidate is
  lost; what is returned is complete, accepted and not redundant; the best are
  explored first; rounds and searches end;
- **execution**: answers line up with examples, the shared cache is faithful,
  calls return;
- **accept**: nothing within the intervals of a refused partial program is
  acceptable; the threshold separates the examples and belongs to the program it is printed for;
- **MergeSearch**: the division covers all examples, the pool holds no program
  twice, no program that is right on all examples is overlooked;
- **SyntaxTree**: mutation is undone, equality agrees with the hash; the code of a
  partial program stands for all its completions;
- **transducer, interpreter**: a tick computes what the expression means, in any
  order of the gates; the answer of a partial program covers its completions.

## 2. Modules

| Module | Stands for |
|---|---|
| `TaskQueues` | the state under `task_lock`; an operator is one lock ... unlock section |
| `WorkerPool` | the pool with a client that calls in any order, and the exit of a worker that misses a requirement |
| `TaskPool` | abstract specification: what the pool promises, with no threads or queues |
| `Vectors` | `select_` and `sort_by_`, which the search and `MergeSearch` use |
| `SearchGraph` | `enumerate_random_v2` on top of `TaskQueues`, with the real `filter` and its unlocked look at `visited` |
| `RpcClient` | `NetqreClientManager`, its clients, the servers and the network |
| `ExecService` | abstract specification: what `accept()` expects of a call of `exec` |
| `Oracle` | the verdicts of `accept()` as operators: pairing, counting, weights, threshold |
| `Accept` | the life of programs under `accept()` and `test()`, from the starting symbol to the report of `main` |
| `ExampleTree` | `collect_tree`: the division of the examples into layers |
| `MergeSearch` | the pool and the answers, layer by layer, over abstract searches |
| `Circuit` | what gates compute, and a clock cycle of a circuit, call by call |
| `Transducer` | a machine's circuits and a run of it over a stream |
| `Interpreter` | expressions, the machines built for them, and what they mean |
| `MCWorkerPool`, `MCSearchGraph`, `MCRpcClient`, `MCAccept`, `MCMergeSearch`, `MCTransducer` | instances for TLC |
| `WorkerPool_proofs`, `SearchGraph_proofs`, `RpcClient_proofs`, `Accept_proofs`, `MergeSearch_proofs`, `Transducer_proofs` | theorems |
| `TaskQueues_proofs`, `Vectors_proofs` | the lemmas they share |

`WorkerPool` and `SearchGraph` both EXTEND `TaskQueues`, so the queues they use
are the same definitions, and the lemmas about them are shared.  `Accept` and
`MergeSearch` share the verdicts of `Oracle` in the same way.  The layers meet in
constants: what one module takes as a constant (the oracle of `SearchGraph`, the
intervals of `Accept`, the searches of `MergeSearch`, `Value` of `RpcClient`),
another one describes.

### TaskQueues, WorkerPool

A worker's loop is three steps: take a mailbox (`TakeTask`, lines 118-127), work
off the lock, hand it back (`PutResult`, 147-153).  A worker
that finds the queue empty sleeps and changes nothing.  `hand[w]` is the `msg` of
worker `w` while it holds one.  `buzy_workers` is the counter of the code, not a
derived value: `BusyIsHolding` says what it counts.  In `WorkerPool` a task is an
identity, submitted once, so that it can be followed; `submitted` and `collected`
are history.

There is no destructor in the model, and no KILL.  `hire_workers` stores in
`worker_pool` (`multithread.h:70`) workers that hold the master by `shared_ptr`
(`multithread.h:82`), so `~MasterThread` is never run, nothing else pushes a KILL,
and the branch for it in `working_loop` is dead code.  Every search therefore leaves
its threads running, and `MergeSearch` makes a search for every part: there are
soon more threads than the `threads` of `synthesizer/README.md:66`.  They poll
empty queues and take part in nothing, so the other properties do not depend on it.
It is a fact about ownership that any run shows, and no module is about it.

### SearchGraph

A program is a member of the set `Program`; `Expand[p]` holds, for each hole
`multi_mutate(p)` may pick at random, the queue it then produces; `Accepted`,
`Redundant`, `Complete` and `Complexity` are what the oracle, the rules and the
tree say of a program.  `mpc` is the place of the master in the code; each action
runs up to the next access to the pool or to `visited`.  The index `i` counts from
1, so the code's `done` is the place `i - 1`.  A sort of equal keys keeps their
order (`sort_by_` belongs to a library; its choice among equals is fixed here).

`Lookup` is the unlocked `visited->count` of a worker.  It may miss any program
while the master inserts one, see the one being inserted or not, and miss a
program of `this_round` that `multi_mutate` is changing in place.  It never takes
that tree for another program: `equal()` compares hashes first, the tree keeps the
hash it had when it was inserted, and no option of the grammar is empty, so a
child's hash differs.  A crash of the unlocked set itself is not modelled.

`total_programs_searched`, `progress`, the drop counters and all output are left
out.  `search_counter` stops counting at `give_up_count + 1`: only the comparison
with `give_up_count` is ever made.

### RpcClient

An `ExecConf` is one value; a call of `exec` is the sequence of its positive and
then its negative configurations, handled in the code by two copies of one loop.
`next_client` is read and written back in two steps; each lock section is one
step, but `collect` is two (`Lock`, `Receive`), because it blocks on the answer
with `count_lock` held.  A server answers its requests in any order
(`async_run(THREAD_COUNT)`), and may die with what it has; nothing restarts it.
`Value[f]` is what a server computes: the examples are fixed, so it is a function.
The answer of a call to a dead server never arrives.

`ExecService` has one state for a caller, its list and its result; `running`,
`list` and `result` are read off `RpcClient` by the definitions `running` and
`result`, and all that happens between the call and its return is a stutter.

### Oracle, Accept

An example is a model value; the answer of a program on it is an interval, or
`Unmatched` (-1, -1).  `Sorted` is the set of all orders the library's `sort_by`
could return, so a property holds for whichever it takes among equals.

`norm_zip` pairs the two classes, which may have any sizes: the toy data of the
repository has one positive and two negative traces, and `collect_tree` halves
each class on its own.  It belongs to a library (Rubify) that is not part of the
sources, so it is a constant operator, and `ZipAssumption` says all that is
assumed of it: it goes through both classes in order, and the last pairs take no
more than their share of either.  In the instances it is `Stretched`, which
stretches the shorter class to the length of the longer; TLC checks the assumption
for it.  With unequal classes an answer may be in several pairs, and its weight is
then updated as often (`TimesUsed`).

`required_accuracy` is a fraction with one bit, `low`: 1.0 - `required_accuracy` as
a double is less than the share of pairs that may be invalid, so that a program
with just this share is refused (`interface.hpp:485`).  It is so for 0.9 and 0.8,
and not for the 0.99 and 0.3 of the shipped configurations.  The comparison of a
complete program (line 435) divides the same integers that the decimal stands for,
and is exact.  Weights are counted in units, `One` of them being 1.0; the halving of
a weight rounds down.  The halving of the threshold is integer arithmetic in the
code too (`Half`).

`Accept` starts a program with the answers of the starting symbol, and `Mutate`
gives it those of any other in `Programs`: nothing is assumed of what a mutation
does to the intervals, which with the abstracts of the shipped grammar need not
narrow (see section 4).  `PruningSound` is therefore about `Outcomes`, the
complete answers within the intervals of a refused program; which completions have
such is what `AbstractCovers` of `Interpreter` is about.  A complete
program is first accepted on the handle `e` of its search (`AcceptComplete`), then
by `MergeSearch` on all examples under the shared weights (`AcceptGlobal`), last by
`main` (`Report`).  `target` is `accuracy/accuracy_exp` as a weight, one of `Targets`,
and may be more than 1.0: the code does not check it.  `threshold` is the field of the whole handle;
that of a part is written and never read.  Concurrent calls of `accept()` write it
in any order, as do the sequential ones here: the only reader is `main`, after all
of them.

### MergeSearch

A handle is a pair of sequences of examples.  The layers of handles are the
constant `e_tree`, of which `TreeAssumption` asks only what the search needs: no
layer is empty, and the whole is one of the handles.  In the instance it is what
`ExampleTree` computes, where `Collected` is the recursion of `collect_tree`;
`DivisionCovers` says that this meets the assumption, and more, for all sizes up
to 7.  `StartSingle`, `Search`, `SkipAnswer`,
`TakeAnswer` and `EndSingle` are the parts of `real_search_single`, `Filter` the
end of a layer.  `Search` returns any sequence, up to `MaxReturned`, of programs
that fit the handle and are not eliminated, with repetitions, because
`SearchGraph` shows that a search may return those (`DistinctAnswers`).
`randint()` is a choice.  `prune()`, which adds shortcuts to the grammar, and
fields nothing reads are left out.

### Circuit, Transducer

`Circuit` and `Transducer` know nothing of expressions: a circuit is its gates,
the wires into and out of each and their operators; a machine is an epsilon
circuit and one for each predicate, over the same gates.  So they can be proved
about for every circuit that is wired as the code wires (`IsCircuit`: `wire_in`
and `wire_out` in pairs) and whose wires lead to gates that expect the registers
they bring (`RegistersFit`).

A clock cycle goes call by call.  `tick()` calls `posedge()` of every gate; one
that fires computes, then tells each gate it is wired to (`wire_ready()`) and
calls its `posedge()`, and only then counts `ready_wires` up once more.
`cycle.todo` is what is left of all the calls under way, the innermost first:
calls of `tick`, announcements along wires, and the ends of calls.  `Posedge` is
the next of them; `Orders(c)` are the orders in which `tick` may come to the
gates.  `Settled` says what a cycle is to come to, with no calls: round by round,
the gates compute whose inputs all have.

`Loaded` is what `reset`, `set_stream_in` and `set_state_in` leave in the gates,
stale values included: an input that is not set holds no state.  A run alternates
the epsilon circuit with one circuit for each predicate, one after the other, for
each word of the stream; `StateOut` is `get_state_out`.  `Char` runs the circuit
of every tag, of an unmet predicate as well, as the code does: `tag_bitmap[j]` is
a pointer, set for each tag, and its value goes to the stream gates.

### Interpreter

An expression is a tree; a hole stands for a symbol the search has yet to fill,
and `to_code` replaces it as the code does, by the abstract of the shipped grammar
`netqre.json`.  `#agg_op` has no abstract, so a program is only run once an
aggregation is chosen or the whole node is still a hole.

The gates of a node are named by the node's place, the slot of the state they
hold, and their side: `i` takes a state in, `o` gives it out.  `EpsilonWires` and
`CharWires` are the wires of the `combine_epsilon_*` and `combine_char_*`
functions; all circuits of a transducer have the same gates.  `Machines` and
`MachineRegisters` are what the instance gives `Transducer` for its constants, so
TLC evaluates `TransducerAssumption` for the machine of each program.

`Ways` and `Values` say what an expression means, with no gates: how many ways it
has to match a stream and the values of these.  A word is the set of the
predicates it meets.

## 3. Runs

| Run | Instance | Shows |
|---|---|---|
| `worker_pool` | 3 workers, 4 tasks | exactly-once delivery, truthful `all_tasks_done`, refinement of `TaskPool`; every submitted task comes back |
| `search` | 2 workers, 8 programs, `batch_size` 2, `explore_rate` 1, 3 answers, budget 4 | rounds are barriers; no accepted candidate and no child is lost; sound answers; short only for a reason; best first; rounds end; an empty-handed search gives up |
| `rpc` | 2 callers, 2 servers, 2 configurations, 2 calls each | answers line up, faithful cache, a noted hit stays, counters and locks are right; calls return while servers are up; refinement of `ExecService` |
| `accept` | 2 positive and 3 negative examples, whole, and in parts of 1 and 1, 1 and 2; values to 2, accuracy 1/2, 2 answers, weights from 4/4 down to 2/4 or up to 8/4, symmetry among like examples | `PruningSound`, `ThresholdFits`, `AnswersStandAlone` |
| `merge` | 4 pairs in 3 layers, 6 programs, 3 answers, accuracies 1 and 3/4 | `DivisionCovers` (all sizes to 7), `PoolDiffers`, `NoAnswerOverlooked` |
| `transducer` | 12 programs, 4 of them with holes; 2 predicates; streams of up to 3 words; gates called first to last and last to first | `StacksAlign`, `AnswersAllWays`, `CyclesNeverAnswer`, `AnyOrder`, `OnlyCyclesWait`, `AbstractCovers` |
| `duplicate_answers` (violation) | as `search` | `DistinctAnswers`: one search may return a program twice |
| `never_gives_up` (violation) | as `search` | `GivesUp`: with an answer in hand the budget ends nothing |
| `training_accuracy` (violation) | as `accept` | `TrainingAccuracy`: the reported threshold may classify too few training examples |
| `refused_for_good` (violation) | 1 positive and 5 negative examples, accuracy 0.8 | `RefusedForGood`: a partial program with just the allowed share of invalid pairs is refused |
| `answers_differ` (violation) | as `merge`, with `accuracy_exp` equal to `accuracy` | `GlobalAnswersDiffer`: an answer may be reported twice |
| `open_iter` (violation) | `iter(#qre_ps, sum)` | `EveryGateComputes`: its gates form a cycle |

Bounds.  With three workers all can be busy while a task waits, and two can race
for one with the result of the third outstanding.  The grammar of `search` has a
start with three choices, two partial programs that share a finished child, a
partial program over the complexity bound, a redundant and a rejected program; the
run passes through rounds that leave programs in `buffer`, through
`TooMany`, through the budget with and without answers, and through exhaustion.
Two callers with overlapping lists are enough for both to miss, one to hit what
the other wrote, and each to wait for a lock the other holds; a second call finds
what the first left.  `MaxCalls` is the only bound that is no parameter of the
code.

In `accept`, three pairs let one or two be invalid at accuracy 1/2, and one of the
positives is paired twice, so both verdicts go either way, unmatched examples sort before and after valid ones, and
the weights of one answer decide about the next.  Symmetry permutes examples of
the same widest answer; no property tells them apart, and there is no liveness.
In `merge`, the programs are chosen so that one fits the whole and single pairs
but no half, one only the left half, one only one pair, one the right half and,
with a mistake, the whole; three layers are the fewest in which a program is
dropped, missed by one layer and found again.  Programs and values are constants
there because the search itself has no say in them.  In `transducer`, the programs
have every node inside every other that the grammar allows and the machine
treats differently, ambiguous ones included, stars in stars, and holes at all
depths; three words are enough for an iteration to begin, go on and end while
another way is a word behind; each cycle is run in both orders, the one that meets
most gates after their inputs and the one that meets most before.  The bounds that are no parameters of the code are
`MaxValue` of `Accept`, `MaxReturned` of `MergeSearch`, and `MaxWords`.

Fairness.  Threads are scheduled by the operating system, so each thread's next
step is weakly fair, and the oracle returns (`Process`).  The pool's client is
assumed to keep polling only for `EveryTaskComesBack`; the search does so in
`finish_tasks`.  A server that is up answers.  Nothing is assumed of failures: a
worker may exit the process and a server may die at any time.  Weak fairness is
enough for `count_lock`: once a caller can get it, no other is stuck in
between, because each caller makes finitely many calls.

`Accept`, `MergeSearch` and `Transducer` claim no liveness: `AnswersAllWays`
says what has been computed when a run ends, and a run has a fixed length.

Deadlock is not checked where the system stops for good: the pool's tasks are done
or the process has exited, the search has returned, all calls are made or a call
waits for a dead server, an answer has been reported, a stream has ended.

## 4. Findings

1. `answer_count` is documented as the number of *different* programs
   (`synthesizer/README.md:65`), but equal candidates pass the filter together:
   a program enters `visited` only when its answer comes back, and
   `gather_candidates` puts the last explored program into `buffer` again.
2. `give_up_count` is documented as a total (`README.md:79`); the code asks for
   an empty `answer` as well (`search_graph.cpp:302`).
3. `accuracy` is documented as the accuracy over the training set
   (`README.md:74`).  The threshold of an accepted program is the integer half of
   the sum of two answers (`interface.hpp:453`): for a positive of 1 and a negative
   of 0 it is 0, and `test()` counts that negative as wrong, as does anyone who
   uses the printed threshold.  `ThresholdFits` says what does hold: enough
   positives on or above, enough negatives on or below.
4. A partial program is refused when its share of invalid pairs is more than
   1.0 - `accuracy` (`interface.hpp:485`), a complete one when its share of valid ones
   is less than `accuracy` (line 435).  In doubles these are not the same: with
   accuracy 0.9 and one of ten pairs invalid the partial program is refused and its
   completion would be accepted (0.8 and one of five in the run).  `PruningSound`
   says that this is the only case, where each negative is paired once.
5. `answer_count` again: `MergeSearch` drops an answer that fits no part of a
   layer from its pool (`merge_search.hpp:181`), does not eliminate it from the
   next search, and reports it a second time.  It needs an accuracy below 1 and
   weights that have not fallen below it; with accuracy 1 nothing is lost
   (`NoAnswerOverlooked`).
6. `gate.h:41` promises that all gates compute, in topological order.  A star
   around an expression that may match nothing wires a cycle
   (`circuit.cpp:624`), whose gates wait for each other with no message; the
   program then matches no stream at all (`CyclesNeverAnswer`).  The search runs
   into it by itself: the abstract of `#qre_ps` is an `iter`, so the partial
   program `iter(#qre_ps, sum)` is refused on all examples, with all its
   completions, whenever `multi_mutate` happens to fill the aggregation first.

Three more need no run to be seen.  Threads are left behind (section 2, the pool).
Programs are documented to go to the least busy server (`README.md:10`); the code
takes the next one (`client.hpp:144`), and nothing calls `get_buzy_threads`.  And
`accuracy_exp` is documented as a belief (`README.md:76`), and nothing checks that it
is not less than `accuracy`: if it is, the weights rise above 1.0
(`merge_search.hpp:34`), an answer may be found with fewer valid pairs than
`README.md:74` says, and `main`'s own `accept` refuses it (`disowned` in `Accept`).
`AnswersStandAlone` says how far it may fall short: by the factor
`accuracy/accuracy_exp`, however many answers have raised the weights.

`AbstractCovers` has a condition that is worth a reader's attention.  The abstract
of `#re`, `_ *_`, takes a word, but a completion such as `*_` may match none; then
`split(/*_/, /*_/, sum)` answers 2 on a stream of one word, and its abstract 1.
The property is about the completions that take a word wherever they match.

## 5. Proofs

Every safety invariant and action property that a run checks is a theorem, except
`DivisionCovers` and the three that compare a run with the recursive meaning of
an expression.  All are for every value of the constants, under the assumptions
the modules name: `QueuesAssumption` (finitely many workers; Idle is no
task), `SearchAssumption` (types of the parameters,
`explore_rate <= batch_size`), `RpcAssumption` (finitely many callers, at least
one server, a value for each configuration), `OracleAssumption`,
`ZipAssumption` and `AcceptAssumption` (two finite, disjoint classes of examples of
any sizes, none of them empty, also in the parts; what is said of `norm_zip` above;
an accuracy in (0, 1]),
`MergeAssumption` and `TreeAssumption`, `TransducerAssumption` (every machine is
an `IsMachine`: circuits over the same gates, wired in pairs, whose wires are
consistent about registers).

- **Pool** (`WorkerPool_proofs`).  `TypeCorrect` and `BusyCounted` hold together:
  the counter's range follows from what it counts, and
  `QueueInv == QueuesTypeOK /\ BusyIsHolding` is inductive, one lemma for each
  lock section (`TaskQueues_proofs`).  `NoTaskLost` is inductive given the types.
  `QuietIsQuiet` rests on it: an empty pool has nobody holding, so nothing is
  owed.  `PoolImplementsTaskPool` maps each step to a step of `TaskPool` or a
  stutter.
- **Search** (`SearchGraph_proofs`).  `SearchInv` adds to `QueueInv` the
  types and `RoundShape`: past `explore_new` at least one program has been
  explored, so `done` is a place of `this_round`.  `RoundsAreBarriers` follows
  because the master passes the barrier only by `all_tasks_done`, and no worker
  step is enabled behind it (`WorkerWorking`).  `NothingLost` adds `KeptInv`: in a
  round the first `i - 1` programs are explored, and after `gather_candidates`
  all others are in `buffer`; its core are the lemmas on what `select_` and
  `sort_by_` return (`ArrangedProperties` of `Vectors_proofs`, from the fact that
  in a finite total order the rank is a bijection).  `OnlySoundAnswers` adds that
  every mailbox is `Honest`: its verdict is true of its program, and a program
  sent to the oracle is visited and not redundant.
  - `LeastComplexFirst` needs only that `buffer` is `Falling` where
    `prepare_next_round` finds it (`OrderInv`), and that a selection keeps the
    order of its places.
  - `ShortForAReason` needs that an empty `this_round` at the top of the loop
    comes with an empty `buffer` (`ReturnInv`), and `KeptInv` for what that means.
  - `EveryChildTried` is about an answer that may be wrong: a worker's stale
    lookup drops a child.  `TriedInv` says that a mailbox with a negative filter
    verdict holds a program that is visited, redundant, or being inserted just
    now, and that no mailbox comes back without a verdict.
- **Execution** (`RpcClient_proofs`).  All six
  invariants of the run follow from one inductive invariant,
  `RpcInv == TypeOK /\ BusyIsOwed /\ InFlight /\ NotTwice /\ CacheFaithful /\
  \A c : CallInv(c)`.  `InFlight` says that a request or reply is of a call that
  owes it, at its place and with its configuration; `NotTwice`, that it is in the
  network once; `CallInv`, what a caller at its place in `exec` knows: which of its
  configurations were sent or noted as cached, and that the collected answers are
  their values.  Without `InFlight` a reply could belong to an earlier call, and
  the counter of busy calls could not be shown to come down.
  `ClientImplementsExec` maps the call and the return to those of `ExecService`
  and everything else to a stutter; what makes the return a step of it is
  `AnswersLineUp`.
- **Verdicts** (`Accept_proofs`).  The lemmas are about any
  finite classes, sorted in any of the orders the library may choose.
  - `SortedDominates`: if no key grows, neither does the one at any place,
    however the members are sorted anew (counting: i members cannot be among
    i - 1).  So the values at each place, and with them the valid places, are the
    same for every pairing (`SortedAlike`, `ValidPlaces`).
  - `TotalBound`: the sum over the valid pairs is at most their number times
    twice the largest weight, and just that with every weight 1.0.  Hence `AcceptedMeans`: under any
    weights up to 1.0, to be accepted implies that enough pairs are valid, and
    with no constraint it is the same; under weights up to b, the accuracy of what
    is accepted is at least one b-th of what is asked for (`AcceptedNearly`).
    `FoundIsAccepted` follows, as no weight exceeds the larger of 1.0 and
    `accuracy/accuracy_exp` (`UpdatedInRange`).
  - `ShareAbove`: the examples whose answers are no worse than those of pair k are
    at least the share of their class that the pairs from k on are of all pairs.
    It is where unequal classes come in, and all that `EvenShare` is needed for.
  - `ThresholdSeparates`: from the decisive pair on there are as many pairs as
    valid ones, and were the decisive pair itself the wrong way round, all valid
    pairs would be among those behind it, one too few.
  - `ValidOrPartlyInvalid` is the heart of `PruningIsSound`.  A negative example
    that a completion no longer matches moves from among the first of its class
    to the end.  If d of them do, the valid pair at place i of the complete
    program finds a pair that is not invalid at place i + d of the partial one
    (`ShiftedPlaces`); these places differ, so the valid pairs and the partly
    invalid ones are together no more than the pairs.  This needs each negative
    answer in one pair (`EachNegativeOnce`): where there are fewer negatives than
    positives, one that is no longer matched may have been in two pairs and be in
    one at its new place, so that fewer pairs are invalid than before, and
    `PruningSound` claims nothing.
  - The invariant of the steps is small: while programs are sought an answer is
    missing (`MissingInv`), a refused program was refused for some pairing of its
    present answers (`RefusedInv`), and a found one has a valid pair, enough of
    them if the weights are up to 1.0, and its own threshold (`FoundInv`).
- **MergeSearch** (`MergeSearch_proofs`).  `MergeInv` adds to the types that the
  place is a handle of its layer and answers are short until the end.
  `PoolOfDifferent` needs `PoolInv`: a program that is still to be taken and is in
  the pool already is in `ans` too, which is all the code compares it with.
  `NothingOverlooked` needs `AnswersInv`: with accuracy 1 no weight has changed,
  so what the whole says of a program is the same at any time.  For the weights to
  be weights, the pairs of a program must exist: `CanBeSorted`.

- **Transducer** (`Transducer_proofs`).  `Inv` is `TypeInv`, `PortInv` (between
  two circuits each state is UNDEF or has the registers of its place) and
  `CycleInv`: in a cycle there is a set C of gates that have computed, such that
  `Shape` holds.
  - `Waits` and `Counts` tie C to what is left of the calls: a gate has *heard* of
    the inputs in C that no longer have an announcement to it ahead of them; its
    `ready_wires` is the number of these, and one more behind the end of its
    posedge; it is in C if and only if it has heard of all its inputs, save that
    one with none waits for its call.  `Ordered` says that nothing is left to do
    twice and that `tick` calls nobody while a call of its own is under way.
    `ErrandDone` takes one call off and keeps both, whatever it is.
  - `Settles` and `Least` say what is in the gates: each in C holds what its
    operator makes of what its inputs hold now, each other one what was loaded;
    and C is within every set that a gate joins once its inputs have.  A gate
    that fires computes on inputs that are all in C and that nobody will change
    any more (`SettlesOn`).
  - `EndShape`: when nothing is left to do, C is closed, a gate is in C if and only
    if it is through.  That is `OnlyCyclesAreLeftOut`, and with `Least` it says
    which set C is, with no mention of the calls or their order.
  - `OrderDoesNotMatter` compares this with `Settled`.  Rounds only add gates, so
    there is one after which nothing is added (`SettledIsLast`, counting the
    gates); its gates are the least closed set too, and what they hold settles
    (`SettledSettles`).  On the least closed set there is just one way to settle
    (`SettledOnce`): the gates on which two ways agree are closed.
  - `StacksStayAligned`: `ComputedStacked` goes through the operators, each with
    what `RegistersFit` says of it; the gates that hold a state of their place are
    closed as well (`EndStacked`).

Only model-checked:

- all liveness (`EveryTaskComesBack`, `RoundEnds`, `GivesUpEmptyHanded`, `ExecReturns`), which is out of reach of the prover;
- `DivisionCovers`, which is what a recursion over examples computes, for sizes
  up to 7: it would need induction with an operator as a parameter;
- `AnswersAllWays`, `CyclesNeverAnswer` and `AbstractCovers`: `Interpreter` builds
  its machines with recursive operators, and a proof would be by induction over
  expressions.  For the same reason it is checked and not proved that the machine
  of an expression meets `IsMachine` (TLC, for the programs of the instance).

## 6. What is left

1. `SyntaxTree`: mutation in place with its undo, `search_and_replace`, equality
   against the hash.
2. Aggregation over the sub-streams of a feature set, and the evaluation of
   predicates on ranges.
3. That every clock cycle ends: the calls are finitely many because each gate
   fires once, which `Ordered` and `Counts` contain; stated as liveness it is
   outside the prover.

## 7. Not modelled

- The parser, the tokenizer and the JSON configuration turn text and packets into
  data, with no state that lasts.  `main` is straight-line; its report is in
  `Accept`.
- `SyntaxTree` but for `to_code`: sequential functions on trees.  What the search
  relies on is a constant (`Expand`), and the two slips that a reader of the code
  may fear, a tree changed while another thread compares it and holes filled in
  random order, are in `SearchGraph` (`Lookup`) and `Interpreter` (finding 6).
- In the interpreter: predicates on packets, aggregation over feature sets,
  arithmetic between aggregations, `min`, and UNKNOWN predicates, which the parser
  never makes.
- `compiler-native` is a separate tool; `lang/old`, `lang/regex`, `lang/macro` and
  `core/old` are predecessors that the synthesizer does not use.
- The `.ts` files of the repository are recorded traces and examples
  (`synthesizer/testbed`, `synthesizer/example`): data, with no behaviour to model.
  All code that is modelled is C++ (`.h`, `.hpp`, `.cpp`, `.cc`) and one grammar
  (`.json`).
- The destructor of the pool and the KILL branch of a worker, which are never run.
- Double arithmetic, but for the one rounding in `low`; memory, and crashes of the
  unlocked hash set.
