# distexec: a verification project

distexec runs one command on many nodes. Plugins (foreman, dummy) collect the
nodes, `libdistexec_execute` hands them to threads, and plugins (ssh, dummy)
execute the command on one node each. This directory holds
TLA+ modules translated from the source, the TLC runs that check them and the
proofs TLAPS checks. `PROJECT.json` maps every definition to its lines and
lists every run, mutant, hazard and theorem.

## Inventory

| Component | State | Operations | Interacts with |
|---|---|---|---|
| execution core, `distexec.c` | `command`, `config`, `mutexes`; per call the slots (mutex, container, handle), `current_node`, `count` | `execute`, `thread_exec`, `collect`, `init` | node list (read), callback registry (called from threads), threads |
| threads and mutexes, `thread.c` | the operating system's | `create`, `join`, `trylock`, `lock`, `unlock`, `cancel` | POSIX or Windows |
| node registry, `node.c` | the list `nodes`, `add_mutex` | `node_new`, `node_add`, `get_nodes` | filled by frontends |
| linked lists, `util.h`, `util.c` | per list a head and a **static loop cursor** | `llist`, `push`, `append`, `count`, `LL_EACH` | every registry |
| callback registry, `plugin.c` | the lists `execute` and `collect` | register, call, init and terminate rounds | plugins register, the core calls |
| plugin loading, `plugin.c`, `main.c` | `current_plugin`, `frontends`, `backends`, a plugin's callbacks | open, register, unload, getters | dynamic loader |
| foreman frontend, `foreman.c` | `baseuri`, its configuration, the answer's `chunk`, `current_page` | collect pages of hosts | `uri.c`, curl, json-c, `node_add` |
| uri parser, `uri.c` | a uri with a table of parameters | new, parse, build, copy, encode, decode, parameters | foreman, its test |
| ssh backend, `ssh.c` | per node a socket, session, agent, channel | execute | libssh2, `libdistexec_yield` |
| exec backend, file plugin, `exec.c`, `file.c` | none | register in the lists `backends` and `frontends`, which nothing walks: they load and are never called | plugin loading |
| popen3, `popen3.c` | three pipes and a child | popen3, waitpid | the operating system, its test |
| yield handlers, `distexec.c` | `yield_handlers`, `yield_mutex` | register, yield | ssh threads in, `main.c` out |
| error registry, `error.c` | `last_error` | error, which may end the process; last, with which `plugin_open` logs a failed dlopen; exist, called by last and release only; release, which has no caller | everything |
| logger, `logger.c` | the list of loggers | new, log | everything |
| command line, `main.c`, `copa.c` | options, plugin path, plugins | parse, load, collect, execute, unload | everything |

The behaviours that are hard to test are these. The caller of
`libdistexec_execute` and its threads share the slots and meet only at a
trylock and an unlock made by different threads. All threads walk the callback
list with one static cursor. A list holds a cell without a value, and different
readers treat it differently. Callbacks are unlinked while the list is walked,
with pointers that are not kept up to date. A thread may fail to start and
nobody looks. The command line is parsed once for `main` and again, from what
was left over, for each plugin; options take the next word or do not, and two
arrays are filled without a test. A server decides by its answers how many pages
are asked for, and by failing what happens to them. `PROJECT.json` lists each of them at its line under `hazards`.

What makes each component correct:

- execution core: every node is executed exactly once, by at most `concurrent`
  threads at a time; what a thread reads stays valid while it reads; the call
  ends.
- lists and callback registry: a loop passes each registered callback once, in
  order; a removal takes away the failing callback and no other.
- plugin loading: the given directories are searched (as compiled they are not);
  a value of `--plugin` configures the plugin loaded for it; a callback is called
  only while its library is loaded.
- command line: the command is what the user wrote behind the options; a
  plugin's options get the values on the line; the parser stays in its arrays
  and comes to an end.
- foreman: every host of every page is added once; the pages are asked for in
  order, and no further than one beyond the last.
- uri parser: what is encoded is decoded to the same text; what is built is
  parsed to the same parts; the text fits its buffer.
- ssh: the lines of both streams reach the handlers in order and complete;
  whatever a session acquired is released.
- yield handlers: a line is handed to all handlers before the next one.
- popen3: the child's three streams are the pipes handed out, and the protocol of
  its test comes to an end.

## Modules

| Module | Models |
|---|---|
| `LinkedLists` | the lists as the code that only reads them sees them: the sequence of the cells' values |
| `Induction` | induction over numbers in a form the provers can use, recursive functions, sequences joined and where their parts lie |
| `LinkedListsProofs` | what filling a list gives and what a loop over it passes |
| `BoundedExecution` | abstract: at most `limit` nodes are executed at a time, each once |
| `Execute` | `libdistexec_execute`, `thread_exec`, the thread functions, the `LL_EACH` walk step by step |
| `ExecuteProofs` | the theorems about `Execute`, and that it implements `BoundedExecution` |
| `CallbackRegistry` | abstract: a list of callbacks, rounds over it, removals |
| `CallbackList` | the heap of cells behind it, as `util.c` and `plugin.c` change it |
| `Plugins` | `main` from its options to its end, the search for plugins, `libdistexec_plugin_open`, registration, unloading |
| `PluginsProofs` | the theorems about `Plugins` |
| `CallbackListProofs` | the theorems about `CallbackList` |
| `Ssh` | the ssh backend's `exec`, one thread per node, and `libdistexec_yield` |
| `SshProofs` | the theorems about `Ssh` |
| `Texts` | texts as sequences of symbols, and the text that is NULL |
| `Uri` | `uri.c`: a uri's parts and parameters, encode, decode, build, parse |
| `UriProofs` | what the functions of `Uri` give, for every uri and every text, and that they undo each other |
| `Copa` | `copa_parse` of `copa.c`, a word or a letter at a time |
| `Foreman` | `collect` of `foreman.c`; external, the server and its answers |
| `CommandLine` | `main` from its arguments to `libdistexec_execute`, with `Copa` and `Foreman` |
| `UriUser` | `test-uri.c` with open parameters |
| `Popen3` | `popen3.c` with its test and the test's script |
| `Programs` | the three programs: distexec, test-uri, test-popen3 |
| `ProgramsProofs` | the theorems about `Programs` |
| `MC...` | values for TLC |

### Two lists

`LL_INIT` makes a list of one cell whose value is NULL. `util.h` has two
definitions of `LL_APPEND`. The compiled one, under the comment `// segfaults`
(util.h:104), puts a new cell at the end, so the cell without a value stays at
the head. The other, in a comment that calls it a `dirty workaround`
(util.h:109), pushes at the front, so that cell moves to the end.

The constant `Discipline` of `LinkedLists` says which one is meant. With the
compiled one, `libdistexec_execute` reads through NULL at the first node it
dispatches, and nothing after that line can be reached: run `execute_as_built`
shows it. Nevertheless the slots, the joins and the loop over the callbacks are
code whose correctness matters as soon as that read is repaired, and the
repository names one repair. So the run `execute` and the counterexamples
about threads take the workaround; the theorems hold for both lists.
`CallbackList` models the compiled definition only.

The two definitions differ once more. The workaround is one statement; the compiled
one is two, an `if` that warns of NULL and the call of `llist_append`
(util.h:105-108). All callers but one stand in a block of their own. The
loop in `plugin_path_opt_cb` has no braces (main.c:154-155), so it repeats the
warning, and the append follows it once, with the index behind the last value.

### Execute

`pc` is where the caller is: `setup` (distexec.c:88-127), `visit` (the `for`
loop inside the `do` loop), `join` (the label `shutdown`), or how the call
ended. `i`, `current_node`, `count`, `concurrent` and `command` are the
variables of that name. `mutex`, `container` and `handle` are the slots'.
A thread is named after the cell it was started for; `tpc` is where it is:

| action | code |
|---|---|
| `SetupEmpty`, `Setup` | early return, clamping, allocation |
| `SkipSlot` | trylock fails, or no cell is left |
| `DispatchNull` | `n->hostname` with `n` NULL: the process dies |
| `Dispatch`, `SpawnFails` | a slot gets a node, with or without a thread |
| `EndPass` | the end of the `for` loop, the sleep, `while (count > 0)` |
| `Join`, `JoinInvalid`, `Finish` | the joins, the terminate round, the release of the command |
| `Fetch` | `thread_exec` reads its container |
| `EachStart` ... `EachStore`, `Call` | `LL_EACH`: each read and each write of the shared cursor is a step |
| `CursorFault` | the cursor is NULL where it is read through |
| `Release`, `Exit` | the unlock, the thread's end |

`trylock` and the writes that follow it in a pass are one step: only the caller
locks a slot's mutex, and the threads read the container only after they were
started at the end of that step. The terminate round in `Finish` is one step as
well; no thread is in a callback then (theorem `CommandSafe` rests on that),
and the removal of failing callbacks is the subject of `CallbackList`. A
callback's execution is one step, `Call`, that may be delayed for as long as a
thread's fairness allows. `SpawnFails` leaves in the handle what POSIX leaves
there, the old or an unspecified value; joining something that is not a thread
faults, or returns where that is possible.

### CallbackList

`next` and `prev` are the cells' pointers, `head` and `cursor` the two static
pointers of a list. A round is a loop of `call_callback_*`,
`init_callback_*` or `terminate_callback_*`; in the last two a callback may
fail and is then unlinked as plugin.c:222-228 does it, with the `prev` pointer
the cell has and without touching its successor's. One module stands for both
lists, `execute` and `collect`, since plugin.c has the same code twice.

### Plugins

One thread runs `main`; the actions follow it. `Options` fills `plugin_path`:
`main` calls `plugin_path_opt_cb` itself, with the default directory where none was
given, and `copa_callback` calls it again when the option was given. Each call
appends one element, `unset`: the place behind the option's values, which nobody
has set. It may be NULL, a pointer that cannot be read, or one that happens to
lead to the name of a directory; it is the same in both calls. So none of the
directories `main` was told of is in the list, and the loop, which leaves out the
last cell, meets `unset` once with `--plugin-path` and not at all without. As
compiled a plugin is loaded only by that accident; the properties about
loaded plugins hold in whatever state it leaves. With the workaround
(`Discipline = "push"`) all values would be in the list.

`SearchNull`, `SearchUnreadable`, `NotLoaded`, `Open` and `SearchEnds` are the loop
of `plugin_opt_cb` over that list for one value of `--plugin`, with `load_plugin`.
After `Open` the plugin's `load()` runs: `RegisterCollect`, `RegisterExecute`,
then `Loaded`, `LoadFails` or `LoadAborts`. `refs` is the dynamic loader's count
per library, since a name that is given twice opens one library twice. What the
file system, the loader and the plugins answer is open, with one restriction
taken from the plugins in the repository: a `load()` that fails has registered
nothing. `plugin` starts as an indeterminate pointer; reading through it may
crash. `Collect`, `Execute` and `Unload` are the rest of `main`, with the
lists' loops as `LinkedLists!LL_EACH`; removals in terminate rounds are left to
`CallbackList`. The lists are the compiled ones.

### Ssh

`pc` has a value per call of `exec` that can fail, `held` what was acquired and
not released, so that every early return says what it leaves behind. A call
that answers EAGAIN is repeated after `waitsocket` and changes nothing: a
stuttering step. `Send`, `Eof` and `Break` are the node's side of the channel
and may happen at any time while the loop reads. The loop reads byte by byte,
yields a line at its newline, or what there is of it when nothing more has
come, and changes to the other stream. `rc` holds `rc_out` and `rc_err`; they are
reset at the end of a turn, after which their values are overwritten before
they are read again. `YieldLock`, `YieldCall` (one handler) and `YieldUnlock` are
`libdistexec_yield`. `main` registers one handler; the library's interface
allows 256, and two are enough to tell whether they can disagree. A lost
connection is told before bytes that were received but not read, or after them:
libssh2 may do both. A write behind the line buffer ends the thread in
`overrun`, beyond which the source says nothing.

### Copa

`parser` is where `copa_parse` is: between two words, within a group of short
options, or how it ended. `argv`, `i`, `x` and `arguments` are the variables of
that name, `unknown` what it did not understand. A word is the number of its
dashes and a text; the text of a long option is its name, of a plugin's option
the plugin and the key, of a group its letters. `AtWord` is the head of the
`for` loop; then one action per branch:

| action | code |
|---|---|
| `Chained`, `LastLetter`, `UnknownLetter` | `-abc`: letters, the last of which may take a value |
| `LongWord`, `UnknownLongWord` | `--name` |
| `EndOfOptions` | `--`: all that follows are arguments |
| `OtherWord`, `TrailingWords` | a word without a dash: arguments if no option follows |
| `Overrun` | the arrays of `copa.h:61-69` are full: beyond that the source says nothing |

Whether an option takes the next word (`opt_given`, `ValueFollows`) depends on
that word only if `has_param` allows it. `main` does not initialise `has_param`
for half of its options; the field's value is a choice made once in the initial
state, for the options on the line (`Programs!Mentioned`), and the others
cannot be told apart.

### CommandLine

`main` is where `main` is. `ParseStep` is a step of `Copa` over the command line,
`RequireFails` and `LogOptionFails` end the program as `REQUIRE_ARGUMENT` and
`REQUIRE_PARAM` do, `HelpOrVersion`, `CallbackFails` and `ConcurrentFails` are the
callbacks of the options, called in the order of `main`'s table. `BeginPlugins`,
`LoadPlugin`, `ParseForKey`, `SetKey`, `SetKeyToNull` and `NextPlugin` are
`plugin_opt_cb`: for each plugin named, its `load` and `init`, and for each of its
keys a parser of its own over the words the first one left over. `BeginCollect`,
`CallForeman`, `CallDummy` and `CollectEnds` are `libdistexec_collect` over the
list of collect callbacks; `JoinCommand` is the loop that joins the command.
Where a plugin's file is found, loaded and unloaded is left to `Plugins`, and what
comes behind the joined command is `Execute`. Here every plugin of the
repository is found, and a name that is none of them is not. That is an assumption,
which the compiled list of directories does not give: what is checked of the
command line, the configuration and foreman is about a program that finds its
plugins.

The init callback of a plugin is called when it registers, hence before its
configuration is set; collect is called after that. `ssh.c` does not list
`password` among its keys, so `--ssh-password` reaches nobody although the
setter knows it.

### Foreman and Uri

`foreman` is where `collect` is; get_json is split where the answer comes in.
`cfg`, `baseuri`, `headers`, `chunk`, `current_page`, `pages` and `results` are
the variables of that name, and `baseuri`'s parameters stay between two calls.
The server is external: it answers a request with the page the request's text
names, read back with the same `parse` and `decode`, or with an error document,
with something that is not JSON, with nothing, or the transfer breaks off; and a
host may vanish between two pages. An empty answer leaves one byte unset, which
json-c may or may not take for a value. If a key is in a request twice the last
one counts, as Rack has it; a page that is no number or 0 gets no page (`Asked`,
`NumberOf`). `Number` is what `snprintf` writes, digit by digit, up to the seven
digits that fit into `pg_str`. `hosts`, `before`, `asked`, `fits` and `sound`
are there to state the properties.

The pages are found only with a url that lets foreman name them, which
`PageFits` says: the table has room for `page` when the first one is asked for
(`fits`), `page` is not in the table twice, as it is when the url has two of
them (`set_get_param` changes the first and the server reads the last), and the
hostname holds no sign that ends it. `parse` can leave such a hostname when the
url has another sign between the colon and the slashes (`h:x//s`), since it
copies from one place before the one it looks at. `EveryHostOnce` and
`PagesInOrder` are about all other urls, among them one that names a page
itself.

`Uri` is a module of operators: a uri is a record, its texts are sequences of
symbols; a comma, a space and some other signs are the word for them. `encode` maps by
`char_map` where the code walks over that table, `decode`
searches it in the other direction. `parse` follows `libdistexec_uri_parse`
step by step, with its two error codes and the read behind a text that ends
after `:/`. `BuiltInto` counts the bytes `build` writes against the buffer it
has grown by then. What is given in the table cannot be more than
`URI_MAX_PARAMS`; `add_get_param` then changes nothing.

### UriUser and Popen3

`UriUser` is `test-uri.c`: a uri whose parts are those of the test, up to three
operations that add or set parameters, and then what it builds is parsed. The
keys and values are open, so that separators, a percent sign and text that
looks encoded occur.

In `Popen3` there are two processes: `test` is where `test-popen3.c` is and
`child` where `test-popen3.sh` is, `in`, `out` and `err` are the three pipes.
`Fork`, `Exec`, `ExecFails` and `PopenFails` are `libdistexec_popen3`, `Wait` is
`libdistexec_waitpid`. A write into a pipe nobody reads kills the writer.
`answers` is how many lines the script writes for the first line it reads: the
script of the repository writes one; two are taken as well, to show that the
test could pass.

### Programs

The three programs share code but no state. A behaviour is one run of one of
them, which `program` names; the variables of the others stay as they are. So
one run of TLC checks all three, and the proofs are about the product.

## Runs

| Run | Shows | Bounds |
|---|---|---|
| `execute` (pass) | slots stay with their thread, no more nodes than `concurrent` are executed at a time, the command outlives its users, each node has had one thread, which has ended, at the return, the call ends, leaked slots make it hang, the sentinel cell and the cursor do harm only where stated; `Execute` implements `BoundedExecution` | 3 nodes, 1 callback, requests -1, 1, 2, 4 |
| `execute_as_built` (violation) | `NodeNotNull`: the first dispatched cell has no node | 3 nodes |
| `execute_race` (violation) | `DoneMeansExecuted`: two threads share the cursor, one reports a node done that it never executed; with the workaround's list, since with the compiled one no thread is ever started | see the cfg |
| `execute_windows` (violation) | `ConcurrencyBound`: a Windows mutex is granted to its owner again; with the workaround's list, as above | see the cfg |
| `callback_list` (pass) | the list stays a list, healthy callbacks stay in it, removed ones never return, rounds end, the youngest callback is never passed; `CallbackList` implements `CallbackRegistry` | 5 callbacks, 3 rounds |
| `callback_removal` (violation) | `FailedAreRemoved`: of two failing neighbours the second stays | 4 callbacks, 1 round |
| `plugins` (pass) | only the element behind the directories is searched, and only with `--plugin-path`; a value of `--plugin` never configures another's plugin; what is called is mapped, a callback belongs to the plugin that registers it, every plugin but the last is unloaded once | 2 plugins, 2 directories, 2 values of either option |
| `plugins_search` (violation) | `DirectoriesSearched`: neither the given directories nor the default one are searched | 1 value of `--plugin`, 0 or 1 of `--plugin-path` |
| `ssh` (pass) | the handlers get each stream in order and, when `exec` returns 0, completely, all of them the same; everything is released then | 2 nodes, 2 handlers, 2 bytes, a buffer of 3 |
| `ssh_ends` (pass) | `exec` leaves its loop after the end of the command | 1 node, 3 bytes, a buffer of 2, which overflows |
| `ssh_buffer` (violation) | `InBuffer`: a newline at the end of a full buffer | 1 node, 3 bytes, a buffer of 2 |
| `programs` (pass) | the command is what follows the options, the parser's arrays are overrun only by lines that are long or have a group, the configuration is what the line says, foreman adds every host once and asks for the pages in order, uris survive being built and parsed, build's buffer is overrun by one byte at most, test-popen3 never passes, distexec comes to `libdistexec_execute` or ends | see below |

Three nodes are enough for a slot to be used twice while another is still
busy, for two threads in the callback list at the same time and for fewer,
as many and more slots than nodes; the requests lie below, inside and above
that range. One callback is enough for the cursor to be reset, moved and
pushed over the end by another thread. In `callback_list` five callbacks
contain two removals with a neighbour on each side, and three rounds let the
pointers an earlier round left stale be used twice.

Two values of `--plugin` contain the same plugin twice and two different ones,
the first of which loads while the second does not, or the other way round. Two
directories, of which the element behind the values names one, the other, or
none, contain libraries that are there and ones that are not. Two bytes over all nodes are a line in two pieces, a byte on each
stream, or a line from each of two nodes; `ssh_ends` has three on one node.

`programs` starts distexec with every line of up to three words from twelve,
which contain a plain word, two plugins' names, short options alone, in groups
and without a letter, long options with and without a value, unknown ones, `--`
and a word of three dashes. About thirty longer lines give what three words
cannot: plugins with their configuration in front of, among and behind other
words, urls that end each way the parser has, lines that fill the arrays of
`copa.h` to the last place and one beyond, and commands that fill their buffer.
The sizes are small so that each limit is met: 10 for the 128 of
`COPA_MAX_OPTS`, 4 parameters for 64, 24 bytes for the 1024 of build, 12 for the
1024 of the command, where the parameters, bytes and words of the model are few
too. Pages hold 1, 2, 3 or as many hosts as there are, of 0 to 5 hosts, so that
the last page is full, part full or the only one; with ten hosts and one per
page the number of a page has two digits. The symbols of a text are
single characters or, where nobody looks into a word, the word. `test-uri` has
three operations on two keys and four values.

### Fairness

`Execute` assumes weak fairness of the caller and of each thread: the operating
system schedules them, and a callback returns. Nothing is assumed of
`SpawnFails`, or of which slot is free. `Terminates` therefore has the
condition that no slot was lost to a failed `thread_create`; `LeakedSlotsHang`
says what happens otherwise. `CallbackList` assumes weak fairness of the steps
of a round, a sequential loop; nothing makes a round begin. `Ssh` assumes weak
fairness of each thread, which includes that libssh2 does not answer EAGAIN for
ever while it has something else to say; the command on the node need not end.
`Plugins` states no liveness.

`Programs` assumes that steps of distexec or of the server are taken until `main`
is at an end. `foreman.c` sets no timeout, so the second half is an assumption
about the server: that it answers each request in some way or the connection
breaks. It is written with `[]<>` instead of WF: that a step is possible until
`main` ends is what TLC shows by looking for deadlocks, and the weak fairness of
that disjunction then says the same. `DistexecEnds` is not true without the
bounds that make it so in the code: each word is looked at once, and `pages` is
set by the first answer only.

## Proofs

`ExecuteProofs` proves, for every number of nodes and callbacks, every set of
requests, both lists and both platforms unless said otherwise:

- `Typing`: `TypeOK`. No index leaves the arrays of `libdistexec_execute`.
- `SlotsOwned`: with POSIX mutexes, a slot's mutex, container and handle belong
  to the thread that works there until it unlocks the mutex. It is not
  inductive alone: the strengthening adds that cells not yet reached have no
  thread, that a cell that has none is not behind `current_node`, and that a
  used slot lies within `1..concurrent`.
- `CommandSafe`: with POSIX mutexes nobody uses the command once it was freed.
  The strengthening adds that during the joins the slots behind `i` have no
  busy thread, which follows from ownership: a busy thread's slot has that
  thread in its handle, so joining the handle is joining every thread that
  ever used the slot.
- `SlotsLimit`: with POSIX mutexes no more nodes than `concurrent` are executed
  at a time (`ConcurrencyBound`, which the Windows run violates). The slots of
  the busy threads are distinct, because each slot's handle names one thread.
- `Completion`: with POSIX mutexes, when the call returns 0 each node has had
  exactly one thread, which has ended and given its slot back, or could not be
  started (`CompleteOnReturn`). No node is passed over and none is dispatched
  twice. It does not say that the thread has called a callback: two threads on the
  shared cursor may end without (`DoneMeansExecuted`). `DoneInv` adds that the cells before `current_node` and no others
  have had a thread, that the caller joins only with `count = 0`, hence never
  with the compiled list, and that a thread has read the node of the cell it was
  started for, which follows from ownership of the container.
- `NullNodeMidPass`: where the sentinel cell can be read under the workaround.
- `LeaksHang`: with POSIX mutexes, when every slot was lost to a failed
  `thread_create` and nodes are left, no step leaves the dispatch loop or
  dispatches a node (`LeakedSlotsHang`, an action property). `SlotInv` speaks
  only of threads that run; a slot whose thread could not be started stays
  locked too. So `LockInv` adds that the holders of slots, running or failed,
  have different slots, which are locked and within `1..concurrent`. If the
  holders of all slots have failed, no thread is left that could unlock one.
- `SerialWalk`: with POSIX mutexes and one slot the race on the static cursor
  does not exist: every thread's walk calls each callback once and in order
  (`SerialWalkIsComplete`), for both lists and any number of callbacks.
  `WalkInv` says where the cursor is while the one holder is at each step of
  `LL_EACH`, and that what it has called so far is what an undisturbed loop has
  passed by then (`Passed`). That nobody else moves the cursor follows from
  `LockInv`: a second walker would hold the same slot. The last cell's successor
  and the skipped cell without a value are what `LinkedListsProofs` says of
  `Passed` and `LL_EACH`.

`Refinement`, in the same module: with POSIX mutexes every behaviour of
`Execute` is one of `BoundedExecution` under the mapping in `Execute`, again for
all nodes, requests and both lists. From `LockInv` follows, by mapping holders to
their slots, that there is room when a slot is dispatched (`Room`): at that
moment one slot is free. `View` says what the abstract variables are in terms of `tpc`, so that
each step of the code is seen to start a node, end one, lose one, return, or
stutter.

`CallbackListProofs` proves, for any number of callbacks and rounds, `Typing`
(`TypeOK`), `OneEndAlways` (`OneEnd`), `HealthyStayAlways` (`HealthyStay`),
`YoungestIsNotPassed` (`YoungestNeverPassed`) and the action property
`RemovedForGood` (`RemovedStayRemoved`). The key is `PointerInv`: as
`llist_append` always finds the last cell, a cell's `prev` is the cell allocated
before it, and remains that whatever is removed. A removal links that cell,
which may itself be removed, to the failed one's successor; hence a `next`
pointer always goes forward, and all the cells it goes past have failed. That
the pointers reach every cell that has not failed would be an induction along
them; it is done by taking the largest cell up to the one in question that a
closed set has (lemma `Largest`). `RemovedForGood` needs to know that a removal
does not link a removed cell again, although it writes through a stale `prev`.
`CursorInv` says that the cell under the cursor is in the list, so its successor
is as well; then every set of cells that was closed under the old pointers
(`Closed`) and does not hold the removed cell is closed under the new ones.

`RegistryImplemented` is the refinement: `CallbackList` implements
`CallbackRegistry` (`Implements`). The abstract list is `Chain`, the cells that
can be reached in the order of their allocation. That this is the order of the
`next` pointers is `NoneBetween`: the successor of a cell in the list is the
next larger cell in the list. `RoundInv` says that a round has passed what is in
the list before its cursor, and nothing from it on. Lemmas say which
cells each operation makes reachable (`RegisterReaches`, `RefusedReaches`,
`RemovalReaches`: with a stale `prev` the failed cell stays, otherwise it and no
other goes), and what that does to the sorted list. Then `AddRefines`,
`PassRefines` and `EndRefines` map the actions; the others stutter.

`PluginsProofs` proves, for every number of plugins, directories and option
values and whatever the file system, the loader and the plugins answer,
`PluginsTypes` (`TypeOK`), `Registration` (`RegisteredForOwnPlugin`) and
`CallsAreMapped` (`CalledAreMapped`). `LoadInv` is the invariant: the loader's
count of a library is the number of plugin structs that hold it open, a struct
is freed only by its own failed load, and what is in a list of plugins or
callbacks belongs to one that was not freed. Hence each callback's library has a
holder, and its count is not 0. With the compiled list (the hypothesis
`Discipline = "append"`) it proves as well `UnsetIsSearched`
(`OnlyUnsetSearched`), `OwnPluginConfigured` (`ConfiguresOwnPlugin`) and
`Unloads` (`UnloadsAllButYoungest`). `SearchInv` is the invariant of the search.
Its first part, `PathInv`, gives the path list cell by cell: the one without a
value, then `unset`, a second time if the option was given. `TriedInv` says what
was tried when the loop has reached a cell, `OwnInv` what `plugin` then is: one
that is not NULL nor indeterminate was opened for the directory tried last,
because each turn that tries one and does not load sets `plugin` to NULL, and
one that loads leaves the loop. What is tried is the same for each value; so a
pointer of an earlier value could stay only where nothing is tried, and there
`plugin` was never set. `PluginsInv` says that the list of plugins is increasing
and holds exactly those loaded, so its last cell, which the loop does not enter,
is the youngest.

`SshProofs` proves, for all nodes, handlers, bytes and buffers, `Typing`
(`TypeOK`), `ReleasedAtEnd` (`ReleasedOnSuccess`), `OfferedOnce`
(`OneIdentityOffered`), `Agreement` (`HandlersAgree`), `StreamOrder` (`InOrder`)
and `Completeness` (`CompleteAtEnd`). `HeldInv` bounds what a
thread may hold at each place (`May`), so that what `CloseChannel` and `Shutdown`
release is all there is. `OfferedInv` says nothing is offered before
`userauth` and no step leads back there. `YieldInv` says that the mutex belongs
to the thread that is at its handlers, that those it has passed have the piece
in hand and the others do not yet, and that without an owner all are equal.
`TransferInv` accounts for the bytes of a stream: those a handler was given,
followed by the piece in hand if it has not been given that one, are exactly
those read so far. It is kept by each byte read, each handler called and each
change of stream, and its first part is the prefix `InOrder` speaks of. `RcInv`
says what the codes of the two reads mean at the time they are tested, and
`EndInv` that the read loop is left only with both streams read to their end and
an empty buffer, or with the connection lost; with `TransferInv` that is
`CompleteAtEnd`.

`ProgramsProofs` proves, for every set of command lines, options and array
sizes, `CommandFollows` (`CommandIsWhatFollows`), `WordsFit` (`ArraysFit`) and,
whatever the scheduling of the two processes, `TestNeverPasses` (`NeverPasses`).
The first two rest on `CopaInv`: until the parser ends, no word
behind it was `--`, and without groups it has at most one unknown word per word
it has left. The parser runs several times, the second time over what the first
left; the invariant says that these are words too. The third rests on `Stuck`: the
first line takes the script as far as its second read at most, and the test writes
its second line only when the script has ended.

`ConfigFollowsLine` (`ConfigFromLine`) has to follow a word through two
parsers, the second of which reads what the first did not know. `ConfigInv` is
its invariant. `UnknownInv` says that the words left over are in the order of the
line, and `FollowInv` that what stands directly behind a plugin's option before
the first `--` does so in what is left over too; both hold at each word and letter,
also while an option whose value is still to come is the last of the words left.
`ResultsInv` and `ValuesInv` say the same of a parser of one key: its values are
words behind the key, and it has one if a word stands there. `MainInv` carries
this through `main`: what the first parser left (`LeftInv`), and that the
configuration agrees with the line in all keys looked for so far (`SetFrom` with
`Looked`), of which there may be some twice when a plugin is given twice.

`UriProofs` proves `BuildOverrun`: for every uri whose parts are texts over some
set of symbols and every first size of the buffer, `libdistexec_uri_build`
writes at most one byte behind it. `Fitting` is kept by each piece: the length
never exceeds what the code takes for the size, and that is never more than the
size is.

`ParseStores` is about every text and not only those that `build` makes: what
`libdistexec_uri_parse` leaves in a uri of the set `StoredUris` is again one of
that set, and its table is not overrun. In such a uri no part but the hostname
holds the sign behind it and no key is empty; so it is one that
`ParseUndoesBuild`, below, speaks of if it can be copied and its hostname holds
no such sign (`StoredAndPlain`). The parser copies from positions it has counted itself,
which for some texts are in the wrong order; what it copies is then still a
text, if an empty one.

`DecodeUndoesEncode`, in the same module: whatever symbols a value has, `decode`
gives back what `encode` was given. A symbol that has a code becomes three, no two
symbols have the same code, and the percent sign has one, so each that `decode`
meets begins a code. `FlattenPlace` says where the code of each symbol lies; that
`decode`, standing there, gives the rest of the value is an induction from the end.

`ParseUndoesBuild` is about whole uris, those of `PlainUris` with no more
parameters than the table holds: the scheme has no colon, the hostname no colon
or slash, the port no slash and the path no question mark, keys are not empty
and have no equals sign or ampersand. What is parsed from the text that is built
of such a uri is that uri, except that a value which is an empty text is read
back as no value (`KeptParams`). `BuildLies` says where in the text each part
lies (`Lies`); a part that lacks the signs `Find` looks for (`Lacks`) makes it
stop right behind that part (`FindBehind`), which gives all positions of
`libdistexec_uri_parse` (`PlacesFound`) and what it copies there (`PartsRead`).
`TokensRead` says that `Tokens` takes apart what `Separated` joined, by an
induction along the text, and `ParamRead` that `Param` reads what `build` writes
for one parameter; an encoded value holds no ampersand (`EncodeHides`).
`RoundTrips`, in `ProgramsProofs`, is the property `RoundTrip`: the uri of the test
stays one of these, whatever is added or set.

`BufferOverrun` is the property `OverrunByOne`, about the uris the programs
do build: for every line, configuration and server, and all parameters of
test-uri. `RequestInv` follows foreman's url from the words of the line through
`set_config`, the copy with a page and the request: what is configured are texts,
there is a url while foreman is about to parse it, and what it parsed is a uri.
It needs `ConfigInv` for what is configured before.

`PagesFollow` (`PagesInOrder`) and `HostsOnce` (`EveryHostOnce`) relate what the
server is asked to what foreman holds, for every url that `PageFits` allows,
every number of hosts and every size of the pages, whatever the server answers.
That takes three things. First, what the server reads: `Number` and `NumberOf`
undo each other (`NumberOf` of the digits of `p` is `p`), the table shows the
page that `set_get_param` has put there and no other parameter has changed, and
by `ParseUndoesBuild` the server reads from the request what the table shows; so
the size of a page it reads is the same in all requests (`Size`). Second, where
collect is: `TransferInv` says what is on its way at each place, `RoomInv` that
a table which had room for the first page has room for the later ones or holds
the page already, and `PageInv` that the request sent is for the page behind
those that were answered. Third, what is added: `HostsInv` says that while no
host has vanished and every answer was good what was added is the first
`Done * Size` hosts; otherwise that what was added has no host twice and none that is
still to come. A host that is deleted moves those behind it one place to the
front, so that one of them may be passed over, but none is met twice
(`FoundUpTo`, `Apart`); a page arrived before the deletion stays as it is.
`PageCount` is enough pages for the hosts (`PagesHold`), so the loop does not
stop early. `CollectInv` is the conjunction `RoomInv`, `PageInv` and `HostsInv`;
it is inductive together with the invariants before it.

`Typing` (`TypeOK` of `Programs`) rests on the same: `CopaTypes`, `MainTypes`
and `UserTypes` add the types of what the other invariants do not speak of, and
the walks over the list of collect callbacks are those of `LinkedListsProofs`.

The assumptions are those in the modules: at least one node may be registered,
requests are integers, the constants with two values have one of them, sizes are
numbers, lines are sequences of words, the signs of a uri and of its codes, the
digits and the names of options and parameters are symbols like others, the
hosts a server has are texts, all different and fewer than `MaxPage`, and the
parts and parameters of test-uri are texts without the signs named above, the
parameters not empty. TLC evaluates them in every run.

The operators the theorems speak of are defined by recursion: filling a list,
walking it, joining the pieces of a stream. The provers cannot instantiate the
library's induction theorems, whose property is an operator. `Induction` states
induction for a set instead (`InductiveSet`: what holds 0 and with each number
the next one holds all), which they can, and from it that a recursive function
exists and is what its equation says (`RecursiveFunction`).

Every invariant and every action property of the runs that pass, and both
refinements, are stated by a theorem. Only model-checked is liveness (`Terminates`,
`RoundEnds`, `EndsAfterEof`, `DistexecEnds`), which, like ENABLED, is out of the
prover's reach; so are the counterexamples of the runs that expect a violation.

## What disagrees

The violation runs are findings, with the lines they contradict in
`PROJECT.json`: the sentinel cell against "wtf, node can not be NULL!", the
shared cursor against "done!", the Windows mutex against "number of concurrent
executions", the stale `prev` against "terminate failed, removing", the
directories that are not searched against the help, the line buffer against
"stdout buffer overflow!". The cursor and the Windows mutex are seen with the list
of the workaround: as compiled, the first of these ends `libdistexec_execute`
before it starts a thread.

No finding, because no line promises otherwise, but worth knowing:

- `--help` and `--version` need `--plugin`, else `main` stops with "argument
  --plugin is required"; and the forms `--plugin=NAME` and
  `--PLUGINNAME-KEY=VALUE` of the help text are not what `copa_parse` recognises.
- The url in `examples/config/foreman.cfg` has no port, with which foreman
  aborts (`IncompleteUrl`). The file's parser `copa_parse_config_file` has no
  caller.
- When a url has as many parameters as the table holds, foreman asks for the
  same page again and again, as many times as there are pages; when it has `page`
  twice, or a sign between the colon and the slashes, the pages are not those meant
  either. `PageFits` excludes these in `EveryHostOnce` and `PagesInOrder`.
- `--plugin foreman` given twice uses headers that were freed (`HeadersReused`).
- An error document in answer to a later page leaves `results` NULL, whose
  length json-c takes (`MissingResults`).
- `libdistexec_uri_build` writes one byte behind its buffer when a text ends where
  the buffer does after it was grown (uri.c:174-186): `bufsize` is then the size,
  at first it is one less. `OverrunByOne` says that it is never more.
- A parameter with an empty value is parsed to one without; `RoundTrip` speaks of
  the others.

## Not modelled

Of the repository's lines more than half are headers of curl, libssh2, json-c
and pcre under `ext/windows`, third-party code that is not part of the program's
logic and that no module models. The rest of what is left out:

- The exec and file plugins: they register in lists nobody walks
  (`frontend_register`, `backend_register`), so nothing of theirs is called.
- The logger: formatting and output. Its list of loggers grows from several
  threads without a lock, which is listed as a hazard; nothing reads the list.
- `libdistexec_error_release`, `copa_parse_config_file`,
  `libdistexec_thread_cancel`, `llist_pop` and `llist_shift`, which have no
  caller; `libdistexec_error_last`, by which only a message is chosen;
  `libdistexec_find_file` and the other wrappers of the system.
- Windows, except `thread.c`.
- Memory allocation that fails, except where the code answers it (`calloc` of the
  mutexes).
- Sizes of 512 bytes within `encode` and `decode`; how long a command may be.
- Hosts that are added to the server between two pages, which foreman could get
  twice, and hosts without a name (foreman.c:205).
- Bytes that are 0 in what a command sends: the lines are C strings in `ssh.c`.
- Whether joining an invalid handle crashes: the model has both outcomes, and
  `Terminates` counts a crash as an end.
