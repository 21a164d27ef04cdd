# SWISH++ in TLA+

A verification project for SWISH++ (`index`, `search`, `extract`): TLA+ modules
translated from the C++ source under `src/`, TLC configurations that check them on
small instances, and proofs checked by TLAPS. Paths below are relative to
`src/src/` unless they begin with `src/`.

## 1. The system

`index` walks files and directories and writes one index file; `search` maps that
file and answers queries, once from the command line or for ever as a daemon with a
pool of threads; `extract` filters text out of binary files.

| Component | State | Operations | Interacts with | What is hard, and what makes it correct |
|---|---|---|---|---|
| Thread pool (`pjl/thread_pool.*`) | set of threads, count of busy ones, task queue, two mutexes, two conditions | constructor, `new_task`, the worker loop, timeout and self-deletion | the daemon gives it connections; it calls `search_thread::main` | interleaving, lost wakeups, timeouts racing signals, a count that lags. The pool's size stays within its limits; every task is done once, in order; nobody sleeps for ever |
| Search daemon (`search_daemon.cpp`) | listening sockets, the pool | `become_daemon` (select loop), `handle_accept`, `reset_socket` | kernel, pool | refused connections, reused descriptors. Every connection is answered or reset, then closed, once |
| Search thread (`search_thread.cpp`) | one request line, its arguments | `main`, `timed_read_line`, `split_args` | socket, `service_request` | end of file, timeout and full buffer look alike |
| Requests (`search.cpp`, `search_options.cpp`) | options of one request | `service_request`, `search` | query parser, evaluation, formatters | arguments that run out; ranks normalised by the best one |
| Query parser (`query.cpp`, `token.*`) | token stream with room for two tokens put back | `parse_query`, `parse_query2`, `parse_meta`, `parse_relop`, `parse_primary` | builds nodes; reads stop words, meta names and words of the index | precedence and put-back: the tree must mean what the query says |
| Query nodes (`query_node.*`) | a tree | `visit`, `distribute`, `eval` | file lists | near over or; ranks; sets of files equal to what the tree means |
| Stemmer (`stem_word.cpp`) | a cache of stems and a pointer into the word, both static | `stem_word` | called by every search thread | shared state with no lock. A stem depends on the word alone |
| Index builder (`index.cpp`, `index_header.cpp`) | map of words, sets of files, directories and meta names, partial indices on disk | build, `write_partial_index`, `merge_indicies`, `write_full_index`, `load_old_index`, `rank_full_index` | file walk, indexers | a merge of sorted runs in two phases that must agree |
| File walk (`do_file.cpp`, `directory.*`) | directories seen, names of files indexed | `do_directory`, `do_file` | filters, indexers | links, filters, files met twice, a threshold that triggers a partial index |
| Indexer base (`indexer.*`) | word position, count of suspensions, meta ids | `index_file`, `index_word`, `index_words`, `find_meta` | word records | counters that must be reset per file |
| Word records (`word_info.*`, `file_info.*`, `file_list.*`, `word_markers.h`, `pjl/vlq.*`) | list of files per word, with ranks, meta ids and positions | `add_word_pos`, encode, `file_list` iteration | builder writes, search reads | byte layouts with marker values; the reader must see what was written |
| Index segments (`index_segment.*`) | pointers into a mapped file | `operator[]`, binary search | merge, query | offsets |
| Decoders (`encoded_char.*`, `encodings/`, `charsets/`) | per decoder: one decoded group and where it begins | `operator*`, `operator++`, `reset_all` | every indexer | iterators are copied and re-read earlier text; decoding must not depend on history |
| Mail (`mod/mail/`) | stack of boundaries, a flag | `index_words`, `index_headers`, `index_multipart` | decoders, HTML, RTF, text, filters | recursion over attachments with static state |
| HTML (`mod/html/`) | element stack, count of suspensions | `index_words`, `parse_html_tag` | indexer base | implied end tags; nested excluded classes |
| Other formats (`mod/id3`, `latex`, `man`, `rtf`) | none between files | `index_words` | indexer base | format details |
| Filters (`filter.*`, `conf_filter.*`) | a command template | `substitute`, `exec` | file walk, mail | substitution that ends and yields the right name |
| Configuration (`conf_*`), options (`pjl/option_stream.*`) | variables, options given | `parse_file`, `operator>>`, mutual exclusion and requirements | the programs | text; one early return |
| `extract` (`extract.cpp`) | a flag | `extract_words` | file walk | text |
| Words, tables, wrappers, formatters, scripts | none or data | | | |

Shared state and concurrency exist in one program only, the search daemon: its threads
share the pool, the mapped index (read only), the option defaults, and the stemmer's
statics. Everything else is sequential; there the difficulty is in long sequences
of steps, in static state that outlives a file, and in encodings.
`PROJECT.json` lists the hazards one by one, with the lines where they bite.

## 2. Plan

In order of importance; each row's abstract specification, if any, is what the
detailed module is checked (or proved) to implement.

| Modules | Composes | Abstract specification | Runs | Theorems | State |
|---|---|---|---|---|---|
| `ThreadPool`, `ThreadPoolProps`, `ThreadPoolProofs` | | `TaskService` | safety, liveness | types, size, wakeups, counts, refinement | done |
| `SearchDaemon`, `SearchDaemonProps`, `SearchDaemonProofs` | `ThreadPool` | the pool's specification, and through it `TaskService` | connections | implements the pool; types, descriptors, answers | modelled, checked, proved |
| `IndexBuild`, `IndexBuildProps`, `ListLemmas`, `IndexBuildProofs` | | `IndexStore` | two runs; three partial indices | files once; types; order of words; the phases agree, and the index is what it should be, for up to two partial indices | modelled, checked, proved |
| `QueryParser`, `QueryNodes`, `QueryProps`, `QueryParserProofs` | the second extends the first | `QueryGrammar` and `QueryMeaning`: grammar and meaning as in `search(1)` | queries of six tokens; precedence | look-ahead, types, and the language of the parser | modelled and checked; the parser proved |
| `PostingList`, `PostingProps`, `PostingProofs` | written by `IndexBuild`, read by its merge and by `QueryNodes` | read after write | any occurrences of a word | entries tell of occurrences; what is read is what was written; the size; the first positions | modelled, checked, proved |
| `Indexer`, `HtmlElements`, `HtmlIndexer`, `MailIndexer`, `Indexing`, `IndexingProps`, `IndexingProofs` | `HtmlIndexer` extends `Indexer`, `MailIndexer` extends `HtmlIndexer`, `Indexing` joins all formats | what the author of a document meant, given with it | pages, mails, mails with a line lost | ranges lie in the text, suspensions go with open elements, boundaries with multiparts | modelled, checked, proved |
| `Stemmer`, `StemCache` | called from `search_thread::main` | the stem of a word is a function of the word | the race on the shared statics | | modelled and checked |
| `DecodedText`, `DecodedTextProofs` | read by every indexer | decoding by position | texts of two characters and their fragments; copies of iterators in Base64 | each step gets nearer to the end; what is read is what was encoded | modelled, checked, proved |
| filters, options, directories | | a scan that ends; every file of a tree once | small trees and command lines | | not begun |

## 3. The thread pool

`ThreadPool.tla` has the pool's members as variables (`threads_`, `t_busy_`, `queue_`),
the owners of `q_lock_` and `t_lock_`, one program counter per worker for
`thread_pool_thread_main()` and one per caller for `new_task()`. Each action is the code
between two points where another thread can interfere:

- `t_busy_lock_` only guards a single read or increment, so a critical section under it
  is one step. A critical section under `t_lock_` in which nothing else is locked or
  waited for is one step, too (`CheckSize`, `Erase`). `q_lock_`, and `t_lock_` in
  `new_task()`, are held over several steps and are variables.
- `LockQueue`, `CheckSize`, `Sleep`, `TimeOut`, `WakeSpuriously`, `RelockQueue`,
  `Dequeue`, `MarkBusy`, `Perform`, `MarkIdle` are the worker's loop; `Erase` and `Exit`
  are what `delete t` and `pthread_exit()` do; `NewTask` to `Push` are `new_task()`.
- `pthread_cond_signal` wakes some waiter, or nobody if none waits; waits may end without
  a signal, and a signalled thread competes for the mutex with all others.
- An address of a thread object can be used again after the thread is gone.

Two things are taken to go well. A thread can always be created: when `pthread_create()` or
`pthread_mutex_init()` fails, the program exits (`pjl/thread_pool.cpp:309-319`), which is not
an action. And `pthread_exit()`, which a thread that deletes itself calls in its
destructor (362), ends that thread and no more: a C library that implements it by unwinding
the stack may instead end the program at a destructor that must not throw.

`TaskService.tla` is the promise: accepted tasks are performed once each, in order, by at
most a limited number of threads. `ThreadPoolProps.tla` instantiates it with the queue and
the tasks in the workers' hands.

The safety properties that are not evident from the code: the pool's size cannot drop
under its minimum although the test and the deletion happen under two holds of `t_lock_`
(`q_lock_`, held all along, is what saves it); the equality test `t_busy_ ==
threads_.size()` cannot be overrun, although threads count themselves late and may run
before they are in the set (`BusyNeverExceedsPool`); the thread that is cloned is never
being destroyed (`PrototypeIsAlive`); one signal per task is enough (`NoWakeupLost`); a
blocked caller is not left behind (`NoCallerStranded`); a task is refused only while no
thread sleeps (`RefusedOnlyWhenNoneSleeps`).

**Fairness.** Threads that can run are run (weak fairness); a mutex that becomes free
again and again, and a timeout that is due again and again, are not missed for ever (strong
fairness on the locking steps and on `TimeOut`); tasks end, because requests are read with
`SocketTimeout`. No caller has to call, and no wakeup has to be spurious.

**Bounds.** Safety: four thread addresses, a pool of two to three, two callers of both
kinds and four tasks, with symmetry: every pair of workers can die, sleep and create at
once, and both callers can be blocked while all workers are busy. Liveness: three
addresses, a pool of one to two, one caller, two tasks, no symmetry.

**Proofs** (`ThreadPoolProofs.tla`), for every number of threads, callers and tasks and all
limits, from `PoolAssumption` alone. `IndInv` is the inductive invariant. `TypeOK` and the
size bounds are not inductive by themselves: that `Erase` may remove a thread needs to
know that the queue is still empty and the pool still above the minimum (`DyingInv`),
which holds because the thread owns `q_lock_` (`LockInv`); that `Insert` stays within the
limit needs that nobody else inserted meanwhile (`MemberInv`); that the count is right
needs to know who is counted (`CountInv`); `NoWakeupLost` counts the threads on their way
to the queue. `HeldInv` and `ConstructionInv` supply the types of tasks and the
constructor's phase. There is one lemma per conjunct, with one step per action. From
`IndInv` follow the other safety theorems, the action property `OnlySurplusThreadsDie`,
`EachTaskInOnePlace`, and that the pool implements `TaskService` (safety).
`NoCallerStranded` and `RefusedOnlyWhenNoneSleeps` need one more invariant, `AwakeInv`: the
caller of `new_task()` has found all threads busy and then keeps `t_lock_`; until it lets go,
no thread gets as far as going to sleep without having been counted as idle, and none is
erased. Everything under fairness is model-checked only: it is out of the prover's reach.

## 4. The search daemon

`SearchDaemon.tla` extends `ThreadPool`: the accept loop of `become_daemon()` is the
pool's one caller, a task is the descriptor of a connection, and `Perform` of the pool is
refined into reading the line, serving it, and closing. The pool is a static inside
`handle_accept()` and is constructed at the first connection (`Construct`).

The kernel is modelled by what the code relies on: a bounded queue of connections per
listening socket, `select()` that reports which are not empty, descriptors that are reused
as soon as they are closed, `accept()` that fails when none is left (the daemon then exits:
`AcceptFails`), is interrupted, or meets an aborted connection. A client sends a line that is
answered, one that is complained about, or none in time: `GiveUp` stands for the timeout,
for end of file and for errors of reading. A reset after a complaint or a refusal discards
what was written; `AnswerNeverDiscarded` says it never hits an answer.

`AcceptorComesBack` does not assume that `main()` returns: the loop never waits for a
thread that performs a request. `EveryClientIsDone` does. The acceptor's strong fairness on
`accept()` says that it is not interrupted for ever.

**Bounds.** A pool of one thread, two descriptors, three clients (two on TCP, one on a
Unix socket), one of each kind: enough for a refusal while a request is served, for reuse of
a descriptor, and for running out of them. All clients may be done, so the run does not check for
deadlock. Not modelled: start-up of the daemon, what a request prints, and the characters of
a line. Nor is a line of options that ask for nothing by themselves and leave no word to search for (`-m 5`):
it is not complained of as having too few arguments, since `search_thread.cpp:109` counts the options in, and
`search.cpp:726` then makes a string of a null pointer.

**Proofs** (`SearchDaemonProofs.tla`), for any numbers of threads, descriptors and clients.

- `DaemonUsesPool`: the daemon, looked at through the pool's variables, is a pool: each of its steps
  is one of the pool's or a stutter. So all theorems of section 3 are theorems of the daemon,
  and its own proofs begin with `IndInv`. `DaemonServesInOrder` takes this on to `TaskService`.
- `NoDescriptorLeaks` (`DescriptorsAccounted`). That a descriptor `accept()` returns is held by nobody
  is the kernel's doing; that nobody holds it any more when it is closed is not: it needs
  `EachTaskInOnePlace` of the pool, and that the acceptor is in `new_task()` exactly when the
  pool sees its call, with the descriptor it accepted (`CallInv`). `LoopInv` is the
  accept loop's side: `select()`'s answer is still true when the second socket's turn comes.
  `WaitingInv` keeps a client from being accepted twice.
- `AnswersArrive` (`AnswerNeverDiscarded`) follows from `AnsweredInv`: a client with an answer is closed in
  order already, or in the hands of the one thread whose `ok` is true.
- `DaemonTypes`. All are conjuncts of `DaemonInv`, which is inductive together with the pool's `IndInv`
  (`DaemonInductive`).

## 5. Building an index

`IndexBuild.tla` is the program `index`, run once and then incrementally. `text` says how
often each word is in each file and is chosen freely in `Init`. `DoFile` adds a file's words
to those in memory and writes a partial index when there are `Threshold` of them; at the
end of the walk either `WriteFull` ranks and writes what is in memory, or `OpenPartial` writes
the rest and opens all partial indices. Then `CountWord` and `CountDone` are the first phase
of `merge_indicies()`, `MergeWord`, `MergeDone` and `CopyRest` the second: one step per turn of
the code's loops, with one cursor per partial index. `RunAgain` is a new process that loads the
index (`load_old_index()`), which becomes its first partial index.

A partial index is a sequence of entries in order, an entry a word with its list of files
and occurrences. Words are numbers, so that `strcmp()` is `<`. Ranks, positions and
meta names are left out: they are copied with, or computed from, the entries. The
number of files is `file_info`'s list; names of files are modelled only as far as they are
compared, with or without a directory.

`IndexStore.tla` is what an index is: of the files so far, each word that is no stop word
with exactly the files it occurs in, in order; a run may add words that are too
frequent to the stop words, and no others. `StoreSpec` says that the index file, as it is
after each run, implements it. It does not demand that all words that are too frequent go:
the first phase ends when one partial index is left, whose last words are never tested
(`index.cpp:733`), although the manual says they are discarded.

`CountsAgree` relates the two phases: the first one's count sizes the table that the second
one fills. It holds for two partial indices and fails for three (section 11).

**Bounds.** All 4096 distributions of four words over three files, two in the first run and
one more, with one already known, in the second; partial indices from two words on, too
frequent from 60 per cent. So the first run writes one index from memory or merges up to
two partial ones, the second merges the old index with a new one, and words become stop
words in either. Three or more partial indices are left to the violation run, because
there the code goes wrong. **Fairness**: the program goes on by itself (`Step`); nobody has to
start the incremental run.

**Proofs** (`IndexBuildProofs.tla`), for any words, files, walks, thresholds
and numbers of runs.

- `FilesIndexedOnce`: no file is indexed twice by any number of runs, if every name comes with a
  directory and the first walk, which does not look at what it has seen, comes to each
  file once. `NoFileTwice` is not inductive: `FilesInv` adds that the set of names is that of
  the listed files and that, in the first run, the names to come are new; it is kept by each
  step, and by a reload because reloaded names have the same form.
- `BuildTypes` and `IndexInOrder` (`WordsInOrder`), for any number of partial indices. `BuildInv` is
  inductive: that the merge's output ascends needs that all that is written comes before
  all that is still ahead of a cursor (`MergingInv`); that the unsigned counter of
  unique words does not wrap needs that there are as many left to take off as entries ahead
  (`CountingInv`); the next run's first partial index is the file on disk (`OldIndexInv`).
- `OffsetsAgree` (`CountsAgree`), **if no run merges more than two partial indices** (`AtMostTwo`). For
  three it is false (section 11): the second phase steps over stop words only until it has found two
  indices that are not exhausted, and then takes the least word of all of them.
  `AgreeInv` says what the count is at each turn: a word once that the first phase has passed,
  an entry once that it has not (`CountedInv`); and that in the second phase the words written and
  those ahead that are no stop words make up this number (`WrittenInv`).
- `IndexHoldsWhatItShould`: under the same hypothesis `IndexBuild` implements `IndexStore`, that is, `Spec /\
  []AtMostTwo => StoreSpec`. `StoreInv` is the reason. Each partial index is the index of a
  stretch of the list of files, and the stretches lie one behind the other
  (`StretchesInv`), so that lists of a word, appended in the order of the partial indices, are
  one list in order; what the second phase has written has the list of all files, and nothing it has
  passed is missing, but for stop words (`CompleteInv`); and stop words and files only
  grow, by words that are too frequent (`GrowthInv`).

The hypothesis is one on runs, not on constants: a run of the program with one old index and one new one
meets it, or one from two partial indices, and all runs of `MCIndexBuild` do. TLC has checked `BuildInv`, `AgreeInv`,
`StoreInv` and `AtMostTwo` as invariants on that instance (73767 states), and `BuildInv`, `StretchesInv`
and `GrowthInv` with three partial indices.

## 6. Queries

`QueryParser.tla` is the recursive descent of `query.cpp` as an automaton. The C++ call
stack is the variable `calls`: a frame says which function waits for what
(`parse_query2()` for its first or its right operand, `parse_primary()` for what is
negated or in parentheses) and keeps its locals. `pc` is the function that runs. There is
one action per alternative of the grammar and one per return. `in` is the `token_stream`
with the stack of tokens put back. The text is not an input: each extraction of a token
chooses one, or the end, so that one run of TLC covers every text, and reads no further than
the parser does. Words are abstracted to what the code asks of them: which words of
the index they match, whether they are stop words, whether they name meta data.

`QueryNodes.tla` is what follows: if there was a `near`, the tree is visited by
`near_node::distributor` (`Visit`, `Distribute`), then evaluated to a map from files to ranks,
with the walks over two lists of files in `near` and `not near` as in the code.

`QueryGrammar.tla` and `QueryMeaning.tla` read `search(1)` without a parser: when a text is a
query (sets of texts that the productions make in rounds), the tree it stands for, and the files it is
for, as sets. Against them, `AcceptsTheGrammar` says that a
predictive parser with put-back accepts these texts and rejects the others;
`MeaningKept` that the tree, its distribution and its evaluation yield the files; and
`NotNearMissesNone` what is left of this for `not near`. `MeaningKept` leaves out the queries
the code treats in its own way:

- an operator other than `and` after an `and`, without parentheses: the first operand is
  lost (`query.cpp:282-312`). This is the violation run. `near` after `and` loses it the same way.
- `not near`: the second list moves on with the first (`query_node.cpp:432-434`), so files are
  found that should not be; the operands change places when it is distributed; and
  `a not near b` is empty if `b` is unknown.
- `near` over parentheses in the depth of a query: `near_node` replaces itself only at the
  root, since the visitors discard what their children return (`query_node.cpp:93-121`).
- `near` of an `and` that contains a `not`: the program ends with an internal error
  (`query_node.cpp:345`), modelled as such.

**Bounds.** Six tokens: parentheses on one side of an operator, `not near`, a name of meta
data before a parenthesis, or three operands in a row; two tokens put back need only three.
Words: one that matches two words of the index (as by stemming), a
prefix, a stop word, and one that is not in the index but is a name of meta data. Three indices: words that
are and are not near, with and without meta data; words too frequent by number of files. A text that
has been answered is the end (`Finished`).

**Proofs** (`QueryParserProofs.tla`), for texts of every length, nested to every depth:
`LookAheadFits`, that no third token is put back on the array of two. The
argument: each step puts back at most as many tokens as it has just extracted, and
extraction takes from the array first (`ExtractedFacts`), so that putting back one or two after
extracting one or two leaves at most what was there, or two (`OnePutBack`, `TwoPutBack`); with
the types of the stream this is inductive (`StreamInv`). It is stated of `StreamSpec`,
which looks at the stream alone and is therefore implied by the specification with
evaluation as by that without. `ParserIsTyped` includes that the parser always has a
caller to return to.

`ParserAcceptsTheGrammar` is `AcceptsTheGrammar` of `ParserSpec`, which is the parser with the end of
`parse_query()` and `search()`'s test that the whole text was read (`EndQuery`, of which `Evaluate` of
`QueryNodes` is a case); `ParserRejectsNoBeginning` says more of what is rejected than TLC can check, that
no continuation of any length makes it a query. The argument has four parts:

1. *The language.* As many rounds as a text has tokens settle whether it is in the language
   (`EveryRound`), so that the texts are a fixed point of the productions (`Productions`). A query is
   then a meta with any number of relops and metas after it (`QueryIs`), which removes the left
   recursion as `parse_query2()` does with its loop.
2. *Looking ahead.* For a set `E` of texts, `Past(t, E)` are those that may come after a token `t`.
   `PastPrimary`, `PastMeta` and `PastRest` say what that is of a primary, a meta or the rest of a
   query with something after it: no two alternatives begin alike, but for the two tokens of a name and
   "=", and of "not near".
3. *The stream and the callers.* `Reads(s, E)`: whatever more there is of the text, the whole is a query
   if and only if what is unread, with the tokens put back before it, is in `E`. Taking a
   token turns `E` to `Past(t, E)`, and putting it back undoes this (`Took`, `TookAndPut`,
   `TookAndPutTwo`). `Waits(calls, X)`: the callers on the stack go on with the texts in `X`.
4. *The invariant* `GrammarInv`: while the parser runs, `Reads` holds of the stream with what the running
   function and then its callers take. Each action preserves it, by the part of 2 that is about its
   tokens. Where the parser gives up, `E` has become empty.

The exception, a text with a "near" and a "not" in it, is what `parse_query2()` calls nonsense and
rejects although the grammar has it; that it rejects nothing else so is `ToldInv`: a `not_node` comes
from a "not" that was read, and a relop with "near" from a "near".
The modules with the tree and its meaning are recursive, and beyond the prover.

## 7. The files of a word

`PostingList.tla` follows one word from its occurrences to the entries that `search` or a
merge reads. `files` is `word_info::files_`; `IndexWord` is `index_word()` for this word, which
counts an occurrence in the last entry or in a new one, with its position and its meta
data; `NextFile` is `do_file()` coming to a later file that has the word. `Write` makes the bytes of the list:
numbers of variable length, optional lists of numbers after a marker, and markers that say whether
there is another entry. No lengths are stored, and a marker has a value that a number can
have too, so the reader tells them apart by their place. `c` and `v` are the iterator's
`c_` and `v_`; its `operator++` is one action for each part it reads. `Readers` says whether a reader is compiled
`WITH_WORD_POS`: one that is not takes the list of positions for a list of a kind it does not
know. `Merge` is a merge that copies the list with new ranks; what it wrote is read again, by
either kind of reader.

`EntriesAreWhatOccurred` relates entries to occurrences; `ReadsWhatWasWritten`, the
round trip, relates what iterators yield to the entries; `SizeIsNumberOfEntries` relates `calc_size()`,
which has its own, shorter decoder, to the iterator; `FirstPositionsReadBack` relates the
sums `near_node::eval()` makes of the differences to where the word was.

**What goes wrong.** `add_word_pos()` subtracts the last stored *difference*, not the last
position (`word_info.h:108`): 1, 2, 4 is stored as 1, 1, 3 and read as 1, 2, 5. From the third
occurrence of a word in a file on, positions are wrong (`PositionsReadBack`, by hand: section 11). The passing run
checks the first two (`FirstPositionsReadBack`), up to the width of the `short` they are stored in.

**Bounds.** A byte has three bits, so two of a number; a `short` six, a `long` eight. What matters
is kept: a `short` below zero becomes a `long` of four bytes, numbers have one, two and
three bytes, and 16 has a byte in its middle that looks like the end of a list. The long is
only two bits wider than the short, where the real one is 48: the proof of the round trip asks only
that `LongMod` is a multiple of `ShortMod`. Three occurrences, in one to three files: enough for two positions after the first
and for entries of every form (with and without meta data, first, continued and last). A list that has been
read twice is the end (`Finished`).

**Proofs** (`PostingProofs.tla`), for any widths, ids, and numbers of files and occurrences.

`EntriesTellOfOccurrences`: that the last entry is the only one that may be of the current file is not
a consequence of the entries alone; the inductive invariant `ListInv` adds that no occurrence is in a later
file (`NoneAhead`), since files are numbered as they come. Then `EntriesUpToCurrent` has the two cases of
`index_word()`, `OneMore` what an occurrence adds to those of its file, and `CountedStep` puts them
together.

`EntriesReadBack` (`ReadsWhatWasWritten`), the round trip: whatever has occurred, either kind of reader
sees the entries that were written, in order, and then the end; of the list as it was
written first, and of the merged one. The argument has four layers, a section of the module each:

- *numbers*: the digits of a number are a recursive function, and so is what `vlq::decode()` makes of
  bytes; that the second undoes the first, wherever the bytes stand, is an induction over the digits
  (`Induction` and `Recursion` of `ListLemmas`, which quantify over sets and functions where the
  library's theorems have a predicate for a parameter). A `short` below zero is written
  as a `long` and comes back, because `LongMod` is a multiple of `ShortMod`;
- *places in the bytes*: if some bytes stand at a place, so do their parts, each behind those
  before it (`FlattenPlaces`); so each number, list and entry has a place that can be named
  (`EntryAt`, `MetasAt`, `PositionsAt`, `EndAt`);
- *the entries fit*: `FitInv`, that what `IndexWord` and `Merge` put into an entry is within the
  widths in which it is written;
- *the iterator*: `ReaderInv` is inductive. `PlaceInv` says where `c_` is, by the part of
  `operator++` that comes next, and what of the entry `v_` has by then; a reader without
  positions is at the same places, with less in `v_`. `SeenInv` is the property, as far as the
  iterator has come. That no marker is taken for a number, and no number for a marker, is not an
  assumption but what `PlaceInv` comes to.

Beyond the widths of numbers this asks that ranks, the number of files and the number of occurrences are
below `LongMod`, what `long` and `int` hold in the code. TLC has checked `ReaderInv`, too, on the instance of the run.

`SizeCounts` (`SizeIsNumberOfEntries`): `calc_size()` goes over the bytes in turns of its own, and decodes
nothing. A turn, at the place of a part of an entry, comes to the place of the next
(the second layer above serves again), and each takes at least one byte, so
that as many turns as there are bytes come to the end; what it has counted on the way are the entries.

`FirstTwoReadBack` (`FirstPositionsReadBack`): occurrences in one file stand next to each other, as
files are numbered as they come. `FirstInv` says of each entry where its occurrences
begin, that its first difference is the first position and its second the distance to the second one
(`BeginsAt`), and of the last entry that it has come to the last of them (`EndsAt`), so that the next
occurrence, if in the same file, comes right behind. With `EntriesReadBack` this is what an iterator gives.

## 8. Indexing files: plain text, HTML, mail

A text is a sequence of lines; what a line *is* (a tag with its name and attributes, a header
with its name and value, a boundary, words, a blank) is given with it, since telling that is the
scanning of characters. What the code does with lines is all there. `indexed` lists the lines
whose words were added, each with the id of its meta name.

`Indexer.tla` is what all indexers share: `suspend_indexing_count_` and its resets, the table of
meta names, `index_words()` over a range of lines. `HtmlElements.tla` is the table of elements
(`elements.cpp`): where end tags are forbidden, required or optional, and what closes an element
whose end tag was left out; `Closed` is the loop over the stack in `parse_html_tag()`.
`HtmlIndexer.tla` has the rest of that function: which elements go on the stack, which are
skipped with all they contain, which attributes are indexed and under which name.

`MailIndexer.tla` is recursive in the code: `index_words()` reads the headers, then calls
`index_multipart()`, which calls `index_words()` for each part, which may be a mail, a page, a
vCard, or go through a filter. `frames` is the stack of these calls, each with the range of lines
it has left; every action is one header, one body that is not gone through, one boundary
looked for, or one return. What is static in the code is one variable for all calls:
`boundaryStack`, `didLastHeader`, and the HTML indexer's `elementStack`, which an HTML part of
a mail uses without clearing. A filter's output is indexed by `index_file()`, which resets the
count of suspensions in the midst of the mail; a filter may fail.

`Indexing.tla` indexes one document after the other, each by the indexer of its format, with what
the one before has left in the static variables.

`SuspendedByOpenElements` says that there are no more suspensions than open elements to be skipped,
so that none is left without an element whose end ends it, and that in a file of HTML there are exactly as
many, whatever was indexed before. Elsewhere a bound is all that the code guarantees: a mail does not clear
the stack, and the count is reset at its beginning and by each filter, so that elements opened before
stay on the stack, suspend nothing, and resume too often, which the count takes at zero. It does not say
that an element is closed: one that an HTML part of a mail leaves open suspends indexing for the parts after it
(`"open"` below). `BoundaryAtHand` says that
`back()` and `pop_back()` never meet an empty stack. `IndexedAsWritten` is about well-formed
documents: exactly the lines their author meant are found, once each, in order, under the right names.
`EveryFileEnds` is about any document.

**Fairness**: one process indexes, and nothing in it waits (`WF_vars(Index)`); nobody has to
begin another file.

**Bounds.** Two files, from all those that `MCIndexing` puts together: pages with nested blocks,
lists, tables and paragraphs, with and without end tags, skipped or not; mails of each type of
body, and multiparts of two parts, nested twice; the same mails with any one line lost, and
mails whose parts leave something behind (an open element, a boundary, a type given twice). Two
files are enough for one to disturb the next; two parts, for one part to disturb its neighbour.

Well-formed documents that the code does *not* index as meant are left out of the passing run.
Each is admitted by a value of the constant `Hard`, and `IndexedAsWritten` then fails:

- `"alike"` (`MCIndexing_alike.cfg`): `boundary_cmp()` steps past the last character before it
  knows that it matched (`mod/mail/mod_mail.cpp:127`), and so takes `b1` for `b2`, and any line
  that goes on after the boundary for the boundary. `mod/mail/mod_mail.h:122` has it compare
  the boundary with the line;
- `"open"`: an HTML part that leaves a skipped element open suspends indexing for the parts
  after it, which go on being skipped until the next file or filter;
- `"binary"`: a multipart whose encoding is `binary` is not gone through, but its boundary stays on
  the stack, so the parts around it are compared with a boundary that is not theirs;
- `"cells"`: for cells of tables, commas are missing in the table of elements
  (`mod/html/elements.cpp:208-214`), and strings of C++ next to each other are one: the cell
  is not closed by all that should close it.

In files that are not well-formed: a second `Content-Type` leaves the boundary of the first one
on the stack; the first line that is neither a header nor blank is lost if headers
end with it; the last part of a multipart that is never terminated loses its last line.

**Proofs** (`IndexingProofs.tla`), for any documents, however deep their elements and parts nest.

- `SuspensionsHaveElements`. `SuspensionInv` adds to the property that the stack is a sequence, and that in
  a file of HTML no other function than that of its indexer is called (`HtmlAlone`), so that no filter
  resets the count there (`HtmlGoesOn`). A tag that closes elements takes away as many suspensions as it
  closes elements to be skipped, but never goes below zero; `ClosingKeeps` counts those that are closed
  and those that stay, so that a bound remains a bound, and equality, where nothing is taken at zero, remains
  equality. `ClosedInRange` rests on `LeastNumber`, that a set of numbers that is not empty has a least one.
- `BoundariesAtHand`. `BoundaryInv` adds that the frames of headers have their fields.
  The number of calls that will take a boundary off goes up only when a header puts one on
  (`BoundaryAnnounced`), and goes down when one is taken off (`BoundaryTakenOff`); a header that
  announces a multipart again puts one on without a further call, which is why this is an
  inequality.
- `RangesLieInText` (`TypeOK`). What matters in it are the ranges of lines of the calls, each an iterator
  and an end in the code: `parse_header()` stops at the end of its range (`HeaderInRange`,
  `AfterHeadersInRange`), and a part that has no boundary ends before the last line, which
  is there because the range is not empty (`TypeMultipart`). `TextInv` adds that the text is a document's,
  whose lines have the types `DocumentsAssumption` gives them (TLC has checked it on the run's instance,
  too). `MetaIdsType` shows that an id that `find_meta()` returns is one of the table.

## 9. Decoding

`DecodedText.tla` has the decoders: `encoding_base64()`, `encoding_quoted_printable()`,
`charset_utf8()`, `charset_utf16be()` and `le`, `charset_iso8859_1()`, each a function from a
place in the text to a character and the place after it. Base64 alone has a state, the group
it decoded last (`group`, the code's `buf` and `prev_c`), shared by all iterators. `iterators` are
`encoded_char_range::const_iterator`s, with what they have cached (`decoded_`, `ch_`, `delta_`);
`Dereference`, `Increment` and `PostIncrement` are their operators, `Copy` and `RangeFrom` what
indexers do with them, `Begin` is a new text, with `reset_all()`.

A text comes with the characters that were encoded in it and where. `ReadsWhatWasEncoded` says
that an iterator decodes the n-th of them after n - 1 steps, whatever other iterators have done in
between. `StepsForward`, about any text, says that each step gets nearer to the end, so that
reading a range ends.

**The violation** (`decoding_copies`): a range of Base64 may begin in the midst of a line, where the decoder takes its
first character for the first of a group; and it remembers the place it was asked for as the
place of the group's first character (`encodings/base64.cpp:180`). In the passing run, only the
one iterator that goes through a text in Base64 reads it (`Copied`), as the indexers of plain
text and mail do with the bodies of mails, but not that of HTML.

**Bounds.** Two texts after each other; two iterators; two characters of a text, of each length a
character has in the encoding; in Base64 two groups, three with padding, with line ends of both kinds between groups;
and all these texts with one byte missing at the beginning or up to five at the end. `char` is
unsigned in the passing run. By hand: with `CharIsSigned = TRUE` and
`Hard = "signed"`, accents in UTF-16 are read as spaces, the low byte being sign-extended
(`charsets/utf16.cpp:35`); with `Hard = "odd"`, half a character at the end of UTF-16 is
read for ever (33). Two smaller facts are taken as what was encoded: the padding of
Base64 yields characters 0, and the line end after it a space.

**Proofs** (`DecodedTextProofs.tla`), for any number of texts, of any length, and of iterators. What is
asked of the texts is in three definitions, which TLC evaluates for those of the run (`HardTexts`):
`WholeTexts`, no half characters of UTF-16; `ReadStraight`, a text whose characters are known, and which is not
in Base64, has them when it is read straight through, by one iterator from its beginning; `InGroups`, one in
Base64 has three to a group, in lines of whole groups. What is proved is that nothing that copies, ranges
and earlier texts do makes a difference.

- `GoesForward` (`StepsForward`), from `WholeTexts`. Without it TLC finds a step that stays where it is.
  The property is not one of decoders alone: `charset_utf8()` looks at the byte at the end of a range
  before it looks whether that is the end, and goes beyond if another character begins there
  (`charsets/utf8.cpp:45-54`). It is kept because of where ranges end. Reading a text straight
  through is a *walk*, a sequence of growing places (`Walk`); `DecodedInv` says that, but for Base64 (which
  stays in any range), every iterator is on it, as
  many places along as it has gone steps, and so is the end of every range. And a decoder that, with the end of the text
  before it, stays within a nearer end returns the same with that one (`SameQuotedPrintable`, `SameUtf8`): a range
  is read as the text is.
- `ReadsAsStraight`: then what is read on the walk of a text not in Base64 is what was encoded (`WalkToChars`).
- `ReadsAsEncoded` (`ReadsWhatWasEncoded`), for every encoding, from all three and `"base64" \notin Copied`. For Base64 it
  is the memory of the last group that matters: `GroupInv` says that, when a character
  is asked for, the group remembered is its own, or is too far away to answer for it (`Ready`). That takes
  `reset_all()`, which the mutant leaves out, and one iterator with copies that are only dereferenced, since
  otherwise `decoding_copies` shows that it fails. `FirstDecodes` goes through the three characters of a group and the line
  break at the end.

Left out: UTF-7, blanks within a line of Base64, sequences of five and six bytes in UTF-8 beyond
that they are spaces.

## 10. The stemmer

`Stemmer.tla` has the rules of `stem_word.cpp`, all nine lists, and `Stem(word)`, what they make of
a word that is stemmed by one thread. `StemCache.tla` is the same code run by threads of
the daemon: one action per access of what they share, the cache and `word_end`, the pointer to the
end of the word being stemmed. Each thread has its own buffer. `word_end` of one thread may
point into another one's buffer: comparing a suffix, chopping one off and putting it back
then happen there.

The line that is to lock the cache's mutex locks nothing (`stem_word.cpp:327`): `mutex` names the
type there, so that it declares a function. `stem_race` shows that what two threads return need
not be the stem of their word, and stays in the cache. A data race can do more than is
modelled: an access of `std::map` is one step here.

`Stemmer` translates one more oddity without a run: the rule that takes off a final "e" if what is left does
*not* end with consonant, vowel, consonant is tested after the suffix was chopped off, but
`ends_with_cvc()` looks before `word_end`, at the place that was chopped: "hope" becomes "hop".

## 11. Runs

| Run | Shows |
|---|---|
| `thread_pool_safety` | the pool's invariants, action properties and the refinement of `TaskService` |
| `thread_pool_liveness` | tasks are done, calls return, the pool shrinks |
| `search_daemon` | descriptors, answers, and that every client is done in the end |
| `index_build` | the index after two runs is the one the files deserve |
| `index_build_three` (violation) | with three partial indices the second phase writes words that the first has dropped, past the end of the table of offsets |
| `query` | all texts of six tokens are parsed as the grammar says, and mean what they say where the code is right |
| `query_precedence` (violation) | `a and d or a` loses its first operand, against `search(1)` |
| `postings` | the entries of a word are those of what occurred, written, read, merged and read again |
| `indexing` | well-formed pages and mails are indexed as meant, after any others; all come to their end |
| `decoding` | what was encoded is read; reading comes to its end |
| `decoding_copies` (violation) | copies of an iterator in Base64 read something else, against `encodings/encodings.h:41-43` |
| `stem_race` (violation) | a thread returns what is not the stem of its word, against `stem_word.cpp:53-55` |

Each property of a passing run is also shown to fail when one definition is replaced by a
mutated form of it (the operators marked `Mutant`).

Some configurations are kept to be run by hand; TLC finds the property violated in each:

| Configuration | Property | Shows |
|---|---|---|
| `MCThreadPool_growth.cfg` | `GrowsWhenBacklogged` | tasks queue up behind one thread although the pool may grow, against `pjl/thread_pool.h:53-54` |
| `MCSearchDaemon_refusal.cfg` | `NoClientTurnedDown` | a client beyond the limit is reset, not queued, against `search(1)` |
| `MCIndexBuild_twice.cfg` | `NoFileTwice` | a file named without a directory is indexed again by an incremental run |
| `MCPosting_positions.cfg` | `PositionsReadBack` | the third position of a word in a file is not read back, against `swish++.index(4)` |
| `MCIndexing_alike.cfg` | `IndexedAsWritten` | boundaries that differ in their last character are taken for each other |

## 12. What is proved, and what is not

Theorems are in eight modules, from the assumptions on the constants alone and, where it says so,
`AtMostTwo` (section 5) or what is asked of texts (section 9):

| Module | Theorems | Sections |
|---|---|---|
| `ThreadPoolProofs` | types, size, wakeups, counts, callers, refinement of `TaskService` | 3 |
| `SearchDaemonProofs` | refinement of the pool, types, descriptors, answers | 4 |
| `IndexBuildProofs` | files once, types, order of words, agreement of the phases, refinement of `IndexStore` | 5 |
| `QueryParserProofs` | look-ahead, types of the parser, the language it accepts | 6 |
| `PostingProofs` | entries and occurrences, the round trip, the size, the first positions | 7 |
| `IndexingProofs` | ranges, suspensions, boundaries | 8 |
| `DecodedTextProofs` | reading goes forward, and reads what was encoded | 9 |
| `ListLemmas` | lemmas only: least number, induction, recursion, flattening, cardinality | |

The library's induction theorems have an operator as a parameter, which no installed prover can
instantiate. `ListLemmas` states what the proofs need of them in terms of sets: a set of numbers with 0
and with each number the next has all numbers (`Induction`); a function that is defined by recursion on a
lesser number exists and obeys its definition (`Recursion`). Each is used with a set or function written
out where it is cited.

Of `QueryProps` and `PostingProps`, types are not checked by TLC but proved (`ParserIsTyped`;
`ListOK`, part of `ListInv`). Only model-checked are:

- liveness, and what depends on fairness or `ENABLED`, which the prover does not treat;
- `MeaningKept` and `NotNearMissesNone`: the tree of a query and its meaning are
  recursive operators, which the prover does not admit in a module with theorems;
- `IndexedAsWritten`: what a document means is given with it, so that there is nothing to
  induct on;
- that the texts of a run have the characters they come with (`ReadStraight`, `InGroups`): for a text of
  every length this would be an induction over the encoder, which the code does not have;
- stemming, which has a run only.

## 13. What is not modelled

`PROJECT.json` lists each component with what is left out of it. More than half of the repository's
lines, those under `src/lib/`, are portability code from gnulib that the programs are built with:
none of it is part of the model. Of the rest:

- the formats RTF, LaTeX, manual pages and ID3, and within HTML comments, entities and titles:
  they go through characters, keep no state from one file to the next, and can be wrong
  only in details of the format;
- words themselves: which letters make one, its length, stop words by default;
- filters' templates (`filter.cpp:161` never ends for `%E` of a file without an
  extension, and 204 takes an end for a length: listed as hazards), configuration files and
  options: text;
- `extract`, which reads a file once and prints words; results' formats; wrappers of system calls; scripts;
- the directory walk: `IndexBuild` begins where a file has passed its checks.

Abstractions that bound what the checks say: in HTML, at least one class is excluded, names of tags
are whole, and meta data are associated with their names; a line of a text ends with a
newline; a word's ranks and positions are left out of `IndexBuild` and kept in `PostingList`.
