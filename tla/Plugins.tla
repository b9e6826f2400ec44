------------------------------- MODULE Plugins -------------------------------
(***************************************************************************)
(* How main (src/src/main.c) finds, loads, uses and unloads plugins, with  *)
(* libdistexec_plugin_open and the registration functions of               *)
(* src/src/plugin.c that a plugin's load() calls.  One thread does all of  *)
(* it; what the file system, the dynamic loader, the plugins and the nodes *)
(* answer is open.                                                         *)
(*                                                                         *)
(* Directories are numbers.  A library is named after its directory and    *)
(* its plugin; libdistexec_plugin structs and callbacks are numbered in    *)
(* the order of their allocation.                                          *)
(***************************************************************************)
EXTENDS Naturals, Sequences, FiniteSets, SequencesExt, LinkedLists

CONSTANTS
    Names,        \* the plugins there may be
    Paths,        \* the directories there may be
    DefaultPath,  \* PLUGIN_PATH_DEFAULT
    Unreadable,   \* a pointer to a text that is none: to read it crashes
    MaxNames,     \* bound on the values of --plugin
    MaxPaths      \* bound on the values of --plugin-path

ASSUME PluginsAssumption ==
    /\ Paths \subseteq Nat \ {NULL}
    /\ DefaultPath \in Paths
    /\ Unreadable \in Nat \ (Paths \union {NULL})
    /\ MaxNames \in Nat \ {0}
    /\ MaxPaths \in Nat

VARIABLES
    \* what is given
    names,                \* values of --plugin
    paths,                \* values of --plugin-path
    unset,                \* the option's element behind its values, never set
    installed,            \* the libraries there are
    \* main
    pc,                   \* where it is
    n,                    \* the plugin option's value it looks for
    plugin_path,          \* list of directories
    plugin_path_current,  \* its cursor
    plugin,               \* the local variable of plugin_opt_cb
    plugins,              \* list of plugin structs
    \* plugin.c
    current_plugin,       \* a plugin struct, possibly freed
    opened,               \* plugin struct -> its library and whether it was freed
    refs,                 \* library -> how often it was opened and not closed
    callbacks,            \* callback -> its plugin pointer and its library
    collect, execute,     \* lists of callbacks
    \* observed
    tried,                \* the directories searched for this value
    called,               \* the callbacks called
    unloaded              \* the plugin structs whose unload() was called

given == <<names, paths, unset, installed>>
mainVars == <<n, plugin_path, plugin_path_current, plugin, plugins>>
registryVars == <<callbacks, collect, execute>>
pluginVars == <<current_plugin, opened, refs, registryVars>>
observed == <<tried, called, unloaded>>
vars == <<given, pc, mainVars, pluginVars, observed>>

Libraries == Paths \X Names

\* Pointers to the name of a directory.
Pointers == Paths \union {NULL, Unreadable}
Stopped == {"exited", "aborted", "crashed"}

\* No value is looked for more often than the directories are in the list.
MaxOpened == MaxNames * (2 * MaxPaths + 1)

\* A pointer that was never set.
Indeterminate == MaxOpened + 1

SeqsUpTo(S, low, high) == UNION {[1..k -> S] : k \in low..high}

-----------------------------------------------------------------------------
(* main and the option callbacks *)

Init ==
    /\ names \in SeqsUpTo(Names, 1, MaxNames)
    /\ paths \in SeqsUpTo(Paths, 0, MaxPaths)
    /\ unset \in Pointers
    /\ installed \in SUBSET Libraries
    /\ pc = "options"
    /\ n = 1
    /\ plugin_path = << >>
    /\ plugin_path_current = NULL
    /\ plugin = Indeterminate
    /\ plugins = << >>
    /\ current_plugin = NULL
    /\ opened = << >>
    /\ refs = [lib \in Libraries |-> 0]
    /\ callbacks = << >>
    /\ collect = << >>
    /\ execute = << >>
    /\ tried = << >>
    /\ called = << >>
    /\ unloaded = << >>

\* The directories that plugin_path_opt_cb is called for.
Given == IF paths = << >> THEN <<DefaultPath>> ELSE paths

(***************************************************************************)
(* The loop of plugin_path_opt_cb has no braces around LL_APPEND.  What is *)
(* compiled is two statements, of which the loop repeats the first, the    *)
(* warning about NULL; the second, the call of llist_append, follows the   *)
(* loop once, with i behind the last value.  The workaround is one         *)
(* statement, so each value would be pushed.                               *)
(***************************************************************************)
plugin_path_opt_cb(list, values) ==
    IF Discipline = "push" THEN LL_APPEND_ALL(list, values) ELSE LL_APPEND(list, unset)

\* Mutant: main leaves the path option to copa_callback.
PathListOnce == plugin_path_opt_cb(llist, Given)

\* The callback is called by main for the default or the given directories,
\* and again by copa_callback if the option was given.
PathList ==
    LET once == plugin_path_opt_cb(llist, Given)
    IN  IF paths = << >> THEN once ELSE plugin_path_opt_cb(once, paths)

\* The two option callbacks up to the first value of --plugin.
Options ==
    /\ pc = "options"
    /\ plugin_path' = PathList
    /\ plugins' = llist
    /\ plugin_path_current' = 1
    /\ pc' = "search"
    /\ UNCHANGED <<given, n, plugin, pluginVars, observed>>

\* The directory under the loop's cursor and the library looked for there.
Directory == plugin_path[plugin_path_current]
Wanted == <<Directory, names[n]>>

\* The body of the loop is entered, the cursor is moved on.
SearchTurn ==
    /\ pc = "search"
    /\ NextCell(plugin_path, plugin_path_current) # NULL
    /\ plugin_path_current' = NextCell(plugin_path, plugin_path_current)

SearchNull ==
    /\ SearchTurn
    /\ Directory = NULL
    /\ UNCHANGED <<given, pc, n, plugin_path, plugin, plugins, pluginVars, observed>>

\* The element is no text: libdistexec_find_file takes its length.
SearchUnreadable ==
    /\ SearchTurn
    /\ Directory = Unreadable
    /\ pc' = "crashed"
    /\ UNCHANGED <<given, n, plugin_path, plugin, plugins, pluginVars, observed>>

SearchDirectory ==
    /\ SearchTurn
    /\ Directory \in Paths
    /\ tried' = Append(tried, Directory)
    /\ UNCHANGED <<given, n, plugin_path, plugins, registryVars, called, unloaded>>

\* Mutant: plugin is set only by a plugin that loads.
NotLoadedKeeps ==
    /\ SearchDirectory
    /\ UNCHANGED <<pc, plugin, current_plugin, opened, refs>>

\* load_plugin finds no file, or dlopen refuses it: it returns NULL.
NotLoaded ==
    /\ SearchDirectory
    /\ plugin' = NULL
    /\ UNCHANGED <<pc, current_plugin, opened, refs>>

\* Mutant: current_plugin is set only if it was reset.
OpenKeepsCurrent ==
    /\ SearchDirectory
    /\ Wanted \in installed
    /\ opened' = Append(opened, [lib |-> Wanted, freed |-> FALSE])
    /\ current_plugin' = IF current_plugin = NULL THEN Len(opened) + 1
                         ELSE current_plugin
    /\ refs' = [refs EXCEPT ![Wanted] = @ + 1]
    /\ pc' = "open"
    /\ UNCHANGED plugin

\* libdistexec_plugin_open up to the look-up of the symbols.
Open ==
    /\ SearchDirectory
    /\ Wanted \in installed
    /\ opened' = Append(opened, [lib |-> Wanted, freed |-> FALSE])
    /\ current_plugin' = Len(opened) + 1
    /\ refs' = [refs EXCEPT ![Wanted] = @ + 1]
    /\ pc' = "open"
    /\ UNCHANGED plugin

\* The plugin that is being opened.
Opening == Len(opened)
MyCallbacks == {cb \in 1..Len(callbacks) : callbacks[cb].plugin = current_plugin}
Holds(list, cbs) == \E cell \in 1..Len(list) : list[cell] \in cbs

\* LL_INIT_IF_NULL and LL_APPEND.
Registered1(list) ==
    LL_APPEND(IF list = << >> THEN llist ELSE list, Len(callbacks) + 1)

\* The end of libdistexec_register_callback_*, called by load().
Registers ==
    /\ pc \in {"open", "load"}
    /\ callbacks' = Append(callbacks, [plugin |-> current_plugin,
                                       lib |-> opened[Opening].lib])
    /\ pc' = "load"
    /\ UNCHANGED <<given, mainVars, current_plugin, opened, refs, observed>>

\* A plugin has at most one callback of each kind.
RegisterCollect ==
    /\ Registers
    /\ ~Holds(collect, MyCallbacks)
    /\ collect' = Registered1(collect)
    /\ UNCHANGED execute

RegisterExecute ==
    /\ Registers
    /\ ~Holds(execute, MyCallbacks)
    /\ execute' = Registered1(execute)
    /\ UNCHANGED collect

\* Mutant: the library of a loaded plugin is closed as well.
LoadedAndClosed ==
    /\ pc \in {"open", "load"}
    /\ current_plugin' = NULL
    /\ plugin' = Opening
    /\ plugins' = LL_APPEND(plugins, Opening)
    /\ refs' = [refs EXCEPT ![opened[Opening].lib] = @ - 1]
    /\ pc' = "configure"
    /\ UNCHANGED <<given, n, plugin_path, plugin_path_current, opened,
                   registryVars, observed>>

\* Mutant: a loaded plugin is pushed at the front of the plugins.
LoadedAndPushed ==
    /\ pc \in {"open", "load"}
    /\ current_plugin' = NULL
    /\ plugin' = Opening
    /\ plugins' = llist_push(plugins, Opening)
    /\ pc' = "configure"
    /\ UNCHANGED <<given, n, plugin_path, plugin_path_current, opened, refs,
                   registryVars, observed>>

\* load() returns 0: the loop over the directories is left.
Loaded ==
    /\ pc \in {"open", "load"}
    /\ current_plugin' = NULL
    /\ plugin' = Opening
    /\ plugins' = LL_APPEND(plugins, Opening)
    /\ pc' = "configure"
    /\ UNCHANGED <<given, n, plugin_path, plugin_path_current, opened, refs,
                   registryVars, observed>>

(***************************************************************************)
(* A symbol is missing or load() fails: the label "cleanup".  A plugin of  *)
(* src/src/plugins whose load fails has registered nothing: its only       *)
(* registration was refused, because its init failed, after the list was   *)
(* created.  current_plugin is left as it is.                              *)
(***************************************************************************)
LoadFails ==
    /\ pc = "open"
    /\ refs' = [refs EXCEPT ![opened[Opening].lib] = @ - 1]
    /\ opened' = [opened EXCEPT ![Opening].freed = TRUE]
    /\ plugin' = NULL
    /\ pc' = "search"
    /\ \E refused \in {<< >>, <<"collect">>, <<"execute">>} :
        /\ collect' = IF refused = <<"collect">> /\ collect = << >> THEN llist ELSE collect
        /\ execute' = IF refused = <<"execute">> /\ execute = << >> THEN llist ELSE execute
    /\ UNCHANGED <<given, n, plugin_path, plugin_path_current, plugins,
                   current_plugin, callbacks, observed>>

\* The dummy plugin, which registers twice, aborts when it is refused.
LoadAborts ==
    /\ pc \in {"open", "load"}
    /\ pc' = "aborted"
    /\ UNCHANGED <<given, mainVars, pluginVars, observed>>

\* The end of the loop over the directories.
SearchEnds ==
    /\ pc = "search"
    /\ NextCell(plugin_path, plugin_path_current) = NULL
    /\ pc' = "configure"
    /\ UNCHANGED <<given, mainVars, pluginVars, observed>>

\* Mutant: one value too many is looked for.
ConfigureOnce ==
    /\ pc = "configure"
    /\ n' = n + 1
    /\ pc' = IF n <= Len(names) THEN "search" ELSE "collect"
    /\ plugin_path_current' = 1
    /\ tried' = << >>
    /\ UNCHANGED <<given, plugin_path, plugin, plugins, pluginVars, called, unloaded>>

(***************************************************************************)
(* "if (NULL != plugin)": the configuration of its callbacks is set from   *)
(* options nobody else knew, then the next value is looked for.            *)
(***************************************************************************)
Configure ==
    /\ pc = "configure"
    /\ n' = n + 1
    /\ pc' = IF n < Len(names) THEN "search" ELSE "collect"
    /\ plugin_path_current' = IF n < Len(names) THEN 1 ELSE plugin_path_current
    /\ tried' = IF n < Len(names) THEN << >> ELSE tried
    /\ UNCHANGED <<given, plugin_path, plugin, plugins, pluginVars, called, unloaded>>

\* plugin is read through although it was never set.
ConfigureIndeterminate ==
    /\ pc = "configure"
    /\ plugin = Indeterminate
    /\ pc' = "crashed"
    /\ UNCHANGED <<given, mainVars, pluginVars, observed>>

(***************************************************************************)
(* libdistexec_collect.  main aborts when there is no command, and after   *)
(* libdistexec_execute has found no node.                                  *)
(***************************************************************************)
Collect ==
    /\ pc = "collect"
    /\ called' = LL_EACH(collect)
    /\ \/ pc' = "aborted"
       \/ called' # << >> /\ pc' = "execute"
    /\ UNCHANGED <<given, mainVars, pluginVars, tried, unloaded>>

\* libdistexec_execute calls every execute callback for each node.
Execute ==
    /\ pc = "execute"
    /\ called' = called \o LL_EACH(execute)
    /\ pc' = "unload"
    /\ UNCHANGED <<given, mainVars, pluginVars, tried, unloaded>>

\* The loop over plugins at the end of main.
Unload ==
    /\ pc = "unload"
    /\ unloaded' = LL_EACH(plugins)
    /\ pc' = "exited"
    /\ UNCHANGED <<given, mainVars, pluginVars, tried, called>>

Terminated == pc \in Stopped /\ UNCHANGED vars

Next ==
    \/ Options
    \/ SearchNull \/ SearchUnreadable \/ NotLoaded \/ Open \/ SearchEnds
    \/ RegisterCollect \/ RegisterExecute
    \/ Loaded \/ LoadFails \/ LoadAborts
    \/ Configure \/ ConfigureIndeterminate
    \/ Collect \/ Execute \/ Unload
    \/ Terminated

Spec == Init /\ [][Next]_vars
-----------------------------------------------------------------------------
(* Properties *)

\* Every variable keeps its type: main.c:148-425 and plugin.c:25-146.
TypeOK ==
    /\ pc \in {"options", "search", "open", "load", "configure", "collect",
               "execute", "unload"} \union Stopped
    /\ n \in 1..(MaxNames + 1)
    /\ pc = "search" => n \in 1..Len(names)
    /\ plugin_path \in Seq(Pointers)
    /\ plugin_path_current \in 0..Len(plugin_path)
    /\ plugin \in {NULL, Indeterminate} \union 1..Len(opened)
    /\ plugins \in Seq(0..Len(opened))
    /\ current_plugin \in 0..Len(opened)
    /\ opened \in Seq([lib : Libraries, freed : BOOLEAN])
    /\ refs \in [Libraries -> Nat]
    /\ callbacks \in Seq([plugin : 1..Len(opened), lib : Libraries])
    /\ collect \in Seq(0..Len(callbacks))
    /\ execute \in Seq(0..Len(callbacks))
    /\ tried \in Seq(Paths)
    /\ called \in Seq(1..Len(callbacks))
    /\ unloaded \in Seq(1..Len(opened))

\* A library is mapped when a callback or an unload() of it is called,
\* though failed loads close libraries that earlier values of --plugin may
\* have opened too (plugin.c:142).
CalledAreMapped ==
    /\ \A cb \in ToSet(called) : refs[callbacks[cb].lib] > 0
    /\ \A id \in ToSet(unloaded) : refs[opened[id].lib] > 0

\* A callback is registered for the plugin whose load() registers it,
\* although current_plugin points to a freed struct after a failed load
\* (plugin.c:121, 143).
RegisteredForOwnPlugin ==
    \A cb \in 1..Len(callbacks) :
        /\ ~opened[callbacks[cb].plugin].freed
        /\ opened[callbacks[cb].plugin].lib = callbacks[cb].lib

\* None of the given directories nor the default one is ever searched, except
\* where memory happens to name it: what a value of --plugin is looked for in
\* is the one element behind the option's values (main.c:154-155).  With
\* --plugin-path it is tried once, the second call of the callback making up
\* for the last cell the loop leaves out; without, nothing is tried.
OnlyUnsetSearched ==
    pc = "configure" =>
        tried = IF paths = << >> \/ unset = NULL THEN << >> ELSE <<unset>>

\* plugin is declared outside the loop over the values and not reset in it
\* (main.c:164): still a value never configures the plugin of an earlier one.
\* It has the plugin loaded for it, NULL, or, where nothing was searched, a
\* pointer that was never set.
ConfiguresOwnPlugin ==
    pc = "configure" =>
        \/ plugin = NULL
        \/ plugin = Indeterminate /\ tried = << >>
        \/ /\ plugin = Len(opened)
           /\ ~opened[plugin].freed
           /\ opened[plugin].lib = <<tried[Len(tried)], names[n]>>

\* When main ends, each loaded plugin was unloaded once, in the order they
\* were loaded, but for the one loaded last (main.c:390).
UnloadsAllButYoungest ==
    LET loaded == {id \in 1..Len(opened) : ~opened[id].freed}
    IN  pc = "exited" =>
          /\ ToSet(unloaded) = {id \in loaded : \E later \in loaded : id < later}
          /\ \A j, k \in 1..Len(unloaded) : j < k => unloaded[j] < unloaded[k]

\* "Path to search for plugins (default: ...)": a plugin is given up only
\* when the given directories, or without any the default one, were searched
\* (main.c:106, 154).
DirectoriesSearched ==
    pc = "configure" /\ plugin \notin 1..Len(opened) => ToSet(Given) \subseteq ToSet(tried)
===============================================================================
