----------------------------- MODULE PluginsProofs -----------------------------
(***************************************************************************)
(* Theorems about Plugins, for every set of directories and plugins and    *)
(* every number of values of the two options.                              *)
(***************************************************************************)
EXTENDS Plugins, LinkedListsProofs

-----------------------------------------------------------------------------
(* What is loaded *)

GivenInv ==
    /\ names \in Seq(Names) /\ Len(names) \in 1..MaxNames
    /\ paths \in Seq(Paths)
    /\ unset \in Pointers

\* main's loops: a value is looked for while there is one, from a cell.
LoopInv ==
    /\ n \in 1..(Len(names) + 1)
    /\ pc \in {"options", "search", "open", "load", "configure"} => n <= Len(names)
    /\ pc # "options" => plugin_path_current \in 1..Len(plugin_path)

IsOpening == pc \in {"open", "load"}

\* current_plugin is right when it is read, and load() fails before it has
\* registered anything.
OpeningInv ==
    /\ IsOpening => /\ Len(opened) > 0
                    /\ current_plugin = Len(opened)
                    /\ ~opened[Len(opened)].freed
    /\ pc = "open" => \A cb \in 1..Len(callbacks) : callbacks[cb].plugin < Len(opened)

\* The structs that hold a library open.
Holders(lib) == {id \in 1..Len(opened) : opened[id].lib = lib /\ ~opened[id].freed}

RefsInv == \A lib \in Libraries : refs[lib] = Cardinality(Holders(lib))

InUse(id) == ~opened[id].freed /\ (IsOpening => id < Len(opened))

UseInv ==
    /\ \A c \in 1..Len(plugins) : plugins[c] # NULL => InUse(plugins[c])
    /\ pc # "exited" => unloaded = << >>
    /\ \A c \in 1..Len(unloaded) : ~opened[unloaded[c]].freed

LoadInv ==
    /\ TypeOK
    /\ GivenInv
    /\ LoopInv
    /\ OpeningInv
    /\ RefsInv
    /\ RegisteredForOwnPlugin
    /\ UseInv

-----------------------------------------------------------------------------
(* The lists as they are compiled *)

PathInv ==
    pc # "options" =>
        plugin_path = IF paths = << >> THEN <<NULL, unset>> ELSE <<NULL, unset, unset>>

\* There is a name of a directory that the loop reaches.
Reached == paths # << >> /\ unset \in Paths

\* What was tried is the second cell, once the cursor is behind it.
TriedInv ==
    /\ tried = IF pc # "options" /\ plugin_path_current = 3 /\ unset \in Paths
               THEN <<unset>> ELSE << >>
    /\ pc # "options" /\ plugin_path_current = 3 /\ unset = Unreadable => pc = "crashed"
    /\ pc = "configure" \/ IsOpening => plugin_path_current = Len(plugin_path)

\* plugin was never set or is set for the value that is looked for.
OwnInv ==
    /\ ~Reached => plugin = Indeterminate
    /\ pc = "search" /\ tried # << >> => plugin = NULL
    /\ IsOpening => Reached /\ opened[Len(opened)].lib = <<unset, names[n]>>
    /\ pc = "configure" /\ tried # << >> =>
          \/ plugin = NULL
          \/ /\ plugin = Len(opened)
             /\ ~opened[plugin].freed
             /\ opened[plugin].lib = <<unset, names[n]>>

SearchInv == PathInv /\ TriedInv /\ OwnInv

LoadedIds == {id \in 1..Len(opened) : InUse(id)}

\* The list of plugins is in the order of their loading.
PluginsInv ==
    /\ pc = "options" => opened = << >>
    /\ pc \notin {"options", "aborted"} =>
          /\ plugins # << >>
          /\ Increasing(plugins)
          /\ ToSet(plugins) = {NULL} \union LoadedIds
    /\ pc = "exited" => unloaded = LL_EACH(plugins)

-----------------------------------------------------------------------------
(* Facts the steps need *)

LEMMA SeqWidens ==
    ASSUME NEW S, NEW T, S \subseteq T, NEW s \in Seq(S)
    PROVE  s \in Seq(T)
  OBVIOUS

LEMMA GivenFacts ==
    ASSUME GivenInv
    PROVE  /\ Given \in Seq(Paths) /\ Len(Given) \in Nat \ {0}
           /\ \A k \in 1..Len(names) : names[k] \in Names
           /\ Len(names) \in Nat \ {0} /\ MaxNames \in Nat
           /\ llist \in Seq(Pointers) /\ unset \in Pointers
<1>1. <<DefaultPath>> \in Seq(Paths) /\ Len(<<DefaultPath>>) = 1
  BY PluginsAssumption
<1>2. paths # << >> => Len(paths) # 0
  BY EmptySeq DEF GivenInv
<1>. QED
  BY <1>1, <1>2, PluginsAssumption DEF GivenInv, Given, llist, NULL, Pointers

\* What does not touch the structs and the lists of what is loaded.
LEMMA StructsStay ==
    ASSUME LoadInv, ~IsOpening', pc # "exited",
           UNCHANGED <<given, opened, refs, callbacks, plugins, unloaded>>
    PROVE  GivenInv' /\ OpeningInv' /\ RefsInv' /\ RegisteredForOwnPlugin' /\ UseInv'
<1>1. GivenInv'
  BY DEF LoadInv, GivenInv, given
<1>2. OpeningInv'
  BY DEF OpeningInv, IsOpening
<1>3. RefsInv'
  BY DEF LoadInv, RefsInv, Holders
<1>4. RegisteredForOwnPlugin'
  BY DEF LoadInv, RegisteredForOwnPlugin
<1>5. UseInv'
  BY DEF LoadInv, UseInv, InUse
<1>. QED
  BY <1>1, <1>2, <1>3, <1>4, <1>5

LEMMA LoadInit == Init => LoadInv
<1>. SUFFICES ASSUME Init PROVE LoadInv
  OBVIOUS
<1>1. /\ names \in UNION {[1..k -> Names] : k \in 1..MaxNames}
      /\ paths \in UNION {[1..k -> Paths] : k \in 0..MaxPaths}
      /\ unset \in Pointers
  BY DEF Init, SeqsUpTo
<1>2. GivenInv
  BY <1>1, PluginsAssumption DEF GivenInv
<1>3. Len(names) \in Nat \ {0} /\ Len(names) <= MaxNames /\ MaxNames \in Nat
  BY <1>2, PluginsAssumption DEF GivenInv
<1>4. LoopInv
  BY <1>3 DEF Init, LoopInv
<1>5. Len(opened) = 0 /\ Len(callbacks) = 0 /\ Len(plugins) = 0 /\ Len(unloaded) = 0
  BY DEF Init
<1>6. OpeningInv /\ RegisteredForOwnPlugin /\ UseInv
  BY <1>5 DEF Init, OpeningInv, IsOpening, RegisteredForOwnPlugin, UseInv
<1>7. RefsInv
  <2>1. ASSUME NEW lib \in Libraries
        PROVE  refs[lib] = Cardinality(Holders(lib))
    <3>1. Holders(lib) = {}
      BY <1>5 DEF Holders
    <3>. QED
      BY <3>1, FS_EmptySet DEF Init
  <2>. QED
    BY <2>1 DEF RefsInv
<1>8. TypeOK
  <2>1. \A S : << >> \in Seq(S)
    OBVIOUS
  <2>. QED
    BY <1>3, <1>5, <2>1 DEF Init, TypeOK, Stopped, NULL
<1>. QED
  BY <1>2, <1>4, <1>6, <1>7, <1>8 DEF LoadInv

-----------------------------------------------------------------------------
(* The steps of main that load nothing *)

LEMMA OptionsKeeps ==
    ASSUME LoadInv, Options
    PROVE  LoadInv'
<1>1. /\ pc = "options" /\ pc' = "search" /\ plugin_path' = PathList
      /\ plugins' = llist /\ plugin_path_current' = 1
      /\ UNCHANGED <<given, n, plugin, pluginVars, observed>>
  BY DEF Options
<1>2. PathList \in Seq(Pointers) /\ Len(PathList) \in Nat \ {0}
  <2>1. ASSUME NEW list \in Seq(Pointers), NEW values \in Seq(Paths), Len(list) \in Nat \ {0}
        PROVE  /\ plugin_path_opt_cb(list, values) \in Seq(Pointers)
               /\ Len(plugin_path_opt_cb(list, values)) \in Nat \ {0}
    <3>1. values \in Seq(Pointers) /\ Len(values) \in Nat
      BY SeqWidens DEF Pointers
    <3>2. CASE Discipline = "push"
      <4>1. /\ LL_APPEND_ALL(list, values) \in Seq(Pointers)
            /\ Len(LL_APPEND_ALL(list, values)) = Len(list) + Len(values)
        BY <3>1, AppendAllType
      <4>. QED
        BY <2>1, <3>1, <3>2, <4>1 DEF plugin_path_opt_cb
    <3>3. CASE Discipline # "push"
      <4>1. plugin_path_opt_cb(list, values) = Append(list, unset)
        BY <3>3 DEF plugin_path_opt_cb, LL_APPEND, llist_append
      <4>2. unset \in Pointers
        BY GivenFacts DEF LoadInv
      <4>. QED
        BY <2>1, <4>1, <4>2, AppendProperties
    <3>. QED
      BY <3>2, <3>3
  <2>2. llist \in Seq(Pointers) /\ Len(llist) \in Nat \ {0}
    BY GivenFacts DEF LoadInv, llist
  <2>3. Given \in Seq(Paths) /\ paths \in Seq(Paths)
    BY GivenFacts DEF LoadInv, GivenInv
  <2>. QED
    BY <2>1, <2>2, <2>3 DEF PathList
<1>3. llist \in Seq(0..Len(opened)) /\ Len(llist) = 1 /\ llist[1] = NULL
  BY DEF LoadInv, TypeOK, llist, NULL
<1>4. TypeOK'
  <2>1. /\ plugin_path' \in Seq(Pointers)
        /\ plugin_path_current' \in 0..Len(plugin_path')
        /\ plugins' \in Seq(0..Len(opened'))
    BY <1>1, <1>2, <1>3 DEF pluginVars
  <2>2. n' \in 1..Len(names')
    BY <1>1 DEF LoadInv, LoopInv, given
  <2>3. UNCHANGED <<n, plugin, current_plugin, opened, refs, callbacks, collect, execute,
                    tried, called, unloaded>>
    BY <1>1 DEF pluginVars, registryVars, observed
  <2>. QED
    BY <1>1, <2>1, <2>2, <2>3 DEF LoadInv, TypeOK
<1>5. LoopInv'
  BY <1>1, <1>2 DEF LoadInv, LoopInv, given
<1>6. UseInv'
  BY <1>1, <1>3 DEF LoadInv, UseInv, InUse, IsOpening, pluginVars, observed
<1>7. GivenInv' /\ OpeningInv' /\ RegisteredForOwnPlugin'
  BY <1>1 DEF LoadInv, GivenInv, OpeningInv, IsOpening, RegisteredForOwnPlugin, given,
              pluginVars, registryVars
<1>8. RefsInv'
  BY <1>1 DEF LoadInv, RefsInv, Holders, pluginVars
<1>. QED
  BY <1>4, <1>5, <1>6, <1>7, <1>8 DEF LoadInv

\* The cell under the loop's cursor, and the library looked for there.
LEMMA TurnFacts ==
    ASSUME LoadInv, SearchTurn
    PROVE  /\ plugin_path_current \in 1..Len(plugin_path)
           /\ plugin_path_current < Len(plugin_path)
           /\ plugin_path_current' = plugin_path_current + 1
           /\ Directory \in Pointers
           /\ Directory \in Paths => Wanted \in Libraries
<1>1. /\ pc = "search" /\ n \in 1..Len(names)
      /\ plugin_path_current \in 1..Len(plugin_path)
      /\ plugin_path \in Seq(Pointers)
  BY DEF SearchTurn, LoadInv, LoopInv, TypeOK
<1>2. plugin_path_current < Len(plugin_path)
  BY DEF SearchTurn, NextCell
<1>3. Directory \in Pointers
  BY <1>1 DEF Directory
<1>4. names[n] \in Names
  BY <1>1, GivenFacts DEF LoadInv
<1>. QED
  BY <1>1, <1>2, <1>3, <1>4 DEF SearchTurn, NextCell, Wanted, Libraries

LEMMA TriedType ==
    ASSUME LoadInv, SearchDirectory
    PROVE  tried' \in Seq(Paths)
  BY TurnFacts DEF SearchDirectory, LoadInv, TypeOK

LEMMA SearchKeeps ==
    ASSUME LoadInv, SearchNull \/ SearchUnreadable \/ NotLoaded \/ SearchEnds
    PROVE  LoadInv'
<1>1. /\ pc = "search" /\ pc' \in {"search", "configure", "crashed"}
      /\ UNCHANGED <<given, n, plugin_path, plugins, current_plugin, opened, refs,
                     callbacks, collect, execute, called, unloaded>>
      /\ plugin' \in {plugin, NULL}
  BY DEF SearchNull, SearchUnreadable, NotLoaded, SearchEnds, SearchTurn, SearchDirectory,
         mainVars, pluginVars, registryVars, observed
<1>2. plugin_path_current' \in 1..Len(plugin_path)
  <2>1. CASE SearchNull \/ SearchUnreadable \/ NotLoaded
    BY <2>1, TurnFacts DEF SearchNull, SearchUnreadable, NotLoaded, SearchDirectory
  <2>2. CASE SearchEnds
    BY <1>1, <2>2 DEF SearchEnds, mainVars, LoadInv, LoopInv
  <2>. QED
    BY <2>1, <2>2
<1>3. tried' \in Seq(Paths)
  BY TriedType DEF SearchNull, SearchUnreadable, NotLoaded, SearchEnds, observed, LoadInv,
                   TypeOK
<1>4. n \in 1..Len(names) /\ names' = names
  BY <1>1 DEF LoadInv, LoopInv, given
<1>5. TypeOK'
  <2>1. plugin_path_current' \in 0..Len(plugin_path')
    BY <1>1, <1>2
  <2>2. n' \in 1..Len(names') /\ plugin' \in {NULL, Indeterminate} \union 1..Len(opened')
    BY <1>1, <1>4 DEF LoadInv, TypeOK
  <2>. QED
    BY <1>1, <1>3, <2>1, <2>2 DEF LoadInv, TypeOK, Stopped
<1>6. LoopInv'
  BY <1>1, <1>2, <1>4 DEF LoadInv, LoopInv
<1>. QED
  BY <1>1, <1>5, <1>6, StructsStay DEF LoadInv, IsOpening

LEMMA ConfigureKeeps ==
    ASSUME LoadInv, Configure \/ ConfigureIndeterminate \/ LoadAborts
    PROVE  LoadInv'
<1>1. /\ pc \in {"configure", "open", "load"}
      /\ pc' \in {"search", "collect", "crashed", "aborted"}
      /\ UNCHANGED <<given, plugin_path, plugin, plugins, current_plugin, opened, refs,
                     callbacks, collect, execute, called, unloaded>>
  BY DEF Configure, ConfigureIndeterminate, LoadAborts, mainVars, pluginVars, registryVars,
         observed
<1>2. /\ n \in 1..Len(names) /\ Len(names) \in Nat /\ Len(names) <= MaxNames
      /\ MaxNames \in Nat /\ names' = names
  BY <1>1, PluginsAssumption
     DEF Configure, ConfigureIndeterminate, LoadAborts, LoadInv, LoopInv, GivenInv, given
<1>3. /\ n' \in 1..(Len(names) + 1)
      /\ pc' = "search" => n' <= Len(names)
  BY <1>2 DEF Configure, ConfigureIndeterminate, LoadAborts, mainVars
<1>4. plugin_path_current' \in 1..Len(plugin_path) /\ Len(plugin_path) \in Nat
  <2>1. plugin_path \in Seq(Pointers)
    BY DEF LoadInv, TypeOK
  <2>2. plugin_path_current \in 1..Len(plugin_path) /\ Len(plugin_path) \in Nat
    BY <1>1, <2>1 DEF LoadInv, LoopInv
  <2>3. plugin_path_current' \in {1, plugin_path_current}
    BY DEF Configure, ConfigureIndeterminate, LoadAborts, mainVars
  <2>. QED
    BY <2>2, <2>3
<1>5. tried' \in Seq(Paths)
  <2>1. << >> \in Seq(Paths)
    OBVIOUS
  <2>. QED
    BY <2>1 DEF Configure, ConfigureIndeterminate, LoadAborts, observed, LoadInv, TypeOK
<1>6. TypeOK'
  <2>1. plugin_path_current' \in 0..Len(plugin_path')
    BY <1>1, <1>4
  <2>2. n' \in 1..(MaxNames + 1) /\ (pc' = "search" => n' \in 1..Len(names'))
    BY <1>2, <1>3
  <2>. QED
    BY <1>1, <1>5, <2>1, <2>2 DEF LoadInv, TypeOK, Stopped
<1>7. LoopInv'
  BY <1>1, <1>2, <1>3, <1>4 DEF LoadInv, LoopInv
<1>. QED
  BY <1>1, <1>6, <1>7, StructsStay DEF LoadInv, IsOpening

LEMMA CallKeeps ==
    ASSUME LoadInv, Collect \/ Execute
    PROVE  LoadInv'
<1>1. /\ pc \in {"collect", "execute"} /\ pc' \in {"aborted", "execute", "unload"}
      /\ UNCHANGED <<given, n, plugin_path, plugin_path_current, plugin, plugins,
                     current_plugin, opened, refs, callbacks, collect, execute, tried,
                     unloaded>>
  BY DEF Collect, Execute, mainVars, pluginVars, registryVars
<1>2. ASSUME NEW list \in Seq(0..Len(callbacks))
      PROVE  LL_EACH(list) \in Seq(1..Len(callbacks))
  <2>1. LL_EACH(list) \in Seq((0..Len(callbacks)) \ {NULL})
    BY EachPasses
  <2>2. (0..Len(callbacks)) \ {NULL} \subseteq 1..Len(callbacks)
    BY DEF LoadInv, TypeOK, NULL
  <2>. QED
    BY <2>1, <2>2, SeqWidens
<1>3. called' \in Seq(1..Len(callbacks))
  <2>1. /\ LL_EACH(collect) \in Seq(1..Len(callbacks))
        /\ LL_EACH(execute) \in Seq(1..Len(callbacks))
        /\ called \in Seq(1..Len(callbacks))
    BY <1>2 DEF LoadInv, TypeOK
  <2>2. called \o LL_EACH(execute) \in Seq(1..Len(callbacks))
    BY <2>1, ConcatProperties
  <2>. QED
    BY <2>1, <2>2 DEF Collect, Execute
<1>4. TypeOK'
  BY <1>1, <1>3 DEF LoadInv, TypeOK, Stopped
<1>5. LoopInv'
  BY <1>1 DEF LoadInv, LoopInv, given
<1>. QED
  BY <1>1, <1>4, <1>5, StructsStay DEF LoadInv, IsOpening

-----------------------------------------------------------------------------
(* The steps that load *)

Struct == [lib : Libraries, freed : BOOLEAN]

\* Pointers lead to structs.
LEMMA Structs ==
    ASSUME LoadInv
    PROVE  /\ opened \in Seq(Struct) /\ Len(opened) \in Nat
           /\ callbacks \in Seq([plugin : 1..Len(opened), lib : Libraries])
           /\ plugins \in Seq(0..Len(opened)) /\ unloaded \in Seq(1..Len(opened))
           /\ collect \in Seq(0..Len(callbacks)) /\ execute \in Seq(0..Len(callbacks))
           /\ called \in Seq(1..Len(callbacks))
           /\ Len(callbacks) \in Nat /\ Len(plugins) \in Nat
           /\ \A id \in 1..Len(opened) : opened[id] \in Struct
           /\ \A id \in 1..Len(opened) : opened[id].lib \in Libraries
           /\ \A cb \in 1..Len(callbacks) : callbacks[cb].plugin \in 1..Len(opened)
           /\ \A c \in 1..Len(plugins) : plugins[c] # NULL => plugins[c] \in 1..Len(opened)
           /\ \A c \in 1..Len(unloaded) : unloaded[c] \in 1..Len(opened)
<1>1. /\ opened \in Seq(Struct)
      /\ callbacks \in Seq([plugin : 1..Len(opened), lib : Libraries])
      /\ plugins \in Seq(0..Len(opened)) /\ unloaded \in Seq(1..Len(opened))
      /\ collect \in Seq(0..Len(callbacks)) /\ execute \in Seq(0..Len(callbacks))
      /\ called \in Seq(1..Len(callbacks))
  BY DEF LoadInv, TypeOK, Struct
<1>2. \A record \in Struct : record.lib \in Libraries
  BY DEF Struct
<1>4. Len(opened) \in Nat /\ Len(callbacks) \in Nat /\ Len(plugins) \in Nat
  BY <1>1
<1>5. \A id \in 1..Len(opened) : opened[id] \in Struct
  BY <1>1
<1>6. \A cb \in 1..Len(callbacks) : callbacks[cb].plugin \in 1..Len(opened)
  <2>. DEFINE R == [plugin : 1..Len(opened), lib : Libraries]
  <2>1. \A record \in R : record.plugin \in 1..Len(opened)
    OBVIOUS
  <2>. HIDE DEF R
  <2>2. callbacks \in Seq(R)
    BY <1>1 DEF R
  <2>3. \A cb \in 1..Len(callbacks) : callbacks[cb] \in R
    BY <2>2
  <2>. QED
    BY <2>1, <2>3
<1>7. \A c \in 1..Len(plugins) : plugins[c] \in 0..Len(opened)
  BY <1>1
<1>8. \A c \in 1..Len(plugins) : plugins[c] # NULL => plugins[c] \in 1..Len(opened)
  BY <1>4, <1>7 DEF NULL
<1>9. \A c \in 1..Len(unloaded) : unloaded[c] \in 1..Len(opened)
  BY <1>1
<1>. QED
  BY <1>1, <1>2, <1>4, <1>5, <1>6, <1>8, <1>9

\* The struct that is being opened.
LEMMA Newest ==
    ASSUME LoadInv, IsOpening
    PROVE  /\ Len(opened) \in 1..Len(opened)
           /\ opened[Len(opened)].lib \in Libraries
           /\ ~opened[Len(opened)].freed
           /\ current_plugin = Len(opened)
<1>1. Len(opened) > 0 /\ current_plugin = Len(opened) /\ ~opened[Len(opened)].freed
  BY DEF LoadInv, OpeningInv
<1>2. Len(opened) \in 1..Len(opened)
  BY <1>1, Structs
<1>. QED
  BY <1>1, <1>2, Structs

LEMMA HoldersFinite ==
    ASSUME LoadInv, NEW lib
    PROVE  IsFiniteSet(Holders(lib)) /\ Holders(lib) \subseteq 1..Len(opened)
<1>1. Len(opened) \in Int /\ 1 \in Int
  BY DEF LoadInv, TypeOK
<1>2. Holders(lib) \subseteq 1..Len(opened)
  BY DEF Holders
<1>. QED
  BY <1>1, <1>2, FS_Interval, FS_Subset

LEMMA OpenKeeps ==
    ASSUME LoadInv, Open
    PROVE  LoadInv'
<1>. DEFINE new == Len(opened) + 1
            record == [lib |-> Wanted, freed |-> FALSE]
<1>1. /\ opened' = Append(opened, record)
      /\ current_plugin' = new
      /\ refs' = [refs EXCEPT ![Wanted] = @ + 1]
      /\ pc' = "open"
      /\ UNCHANGED <<given, n, plugin_path, plugin, plugins, callbacks, collect, execute,
                     called, unloaded>>
      /\ SearchTurn /\ Directory \in Paths /\ pc = "search"
  BY DEF Open, SearchDirectory, SearchTurn, registryVars
<1>2. /\ plugin_path_current \in 1..Len(plugin_path)
      /\ plugin_path_current < Len(plugin_path)
      /\ plugin_path_current' = plugin_path_current + 1
      /\ Wanted \in Libraries
  BY <1>1, TurnFacts
<1>3. /\ opened \in Seq([lib : Libraries, freed : BOOLEAN]) /\ Len(opened) \in Nat
      /\ refs \in [Libraries -> Nat]
      /\ record \in [lib : Libraries, freed : BOOLEAN]
  <2>1. TypeOK
    BY DEF LoadInv
  <2>2. opened \in Seq([lib : Libraries, freed : BOOLEAN]) /\ refs \in [Libraries -> Nat]
    BY <2>1 DEF TypeOK
  <2>3. record \in [lib : Libraries, freed : BOOLEAN]
    BY <1>2
  <2>. QED
    BY <2>2, <2>3
<1>. HIDE DEF record
<1>4. /\ opened' \in Seq([lib : Libraries, freed : BOOLEAN]) /\ Len(opened') = new
      /\ opened'[new] = record
      /\ \A id \in 1..Len(opened) : opened'[id] = opened[id]
  BY <1>1, <1>3, AppendProperties
<1>5. record.lib = Wanted /\ record.freed = FALSE
  BY DEF record
<1>6. TypeOK'
  <2>1. /\ plugins' \in Seq(0..Len(opened')) /\ unloaded' \in Seq(1..Len(opened'))
        /\ callbacks' \in Seq([plugin : 1..Len(opened'), lib : Libraries])
    <3>1. /\ 0..Len(opened) \subseteq 0..Len(opened') /\ 1..Len(opened) \subseteq 1..Len(opened')
      BY <1>3, <1>4
    <3>2. [plugin : 1..Len(opened), lib : Libraries]
            \subseteq [plugin : 1..Len(opened'), lib : Libraries]
      BY <3>1
    <3>3. callbacks \in Seq([plugin : 1..Len(opened'), lib : Libraries])
      <4>1. callbacks \in Seq([plugin : 1..Len(opened), lib : Libraries])
        BY Structs
      <4>. QED
        BY <3>2, <4>1, SeqWidens
    <3>4. plugins \in Seq(0..Len(opened')) /\ unloaded \in Seq(1..Len(opened'))
      BY <3>1, Structs, SeqWidens
    <3>. QED
      BY <1>1, <3>3, <3>4
  <2>2. refs' \in [Libraries -> Nat]
    BY <1>1, <1>2, <1>3
  <2>3. /\ plugin' \in {NULL, Indeterminate} \union 1..Len(opened')
        /\ current_plugin' \in 0..Len(opened')
        /\ plugin_path_current' \in 0..Len(plugin_path')
    <3>1. plugin \in {NULL, Indeterminate} \union 1..Len(opened)
      BY DEF LoadInv, TypeOK
    <3>2. 1..Len(opened) \subseteq 1..Len(opened')
      BY <1>3, <1>4
    <3>3. plugin_path_current' \in 0..Len(plugin_path)
      BY <1>2
    <3>. QED
      BY <1>1, <1>3, <1>4, <3>1, <3>2, <3>3
  <2>4. tried' \in Seq(Paths)
    BY TriedType DEF Open
  <2>. QED
    BY <1>1, <1>4, <2>1, <2>2, <2>3, <2>4 DEF LoadInv, TypeOK
<1>7. LoopInv' /\ GivenInv'
  BY <1>1, <1>2 DEF LoadInv, LoopInv, GivenInv, given
<1>8. OpeningInv'
  <2>1. \A cb \in 1..Len(callbacks) : callbacks[cb].plugin < new
    <3>1. \A cb \in 1..Len(callbacks) : callbacks[cb].plugin \in 1..Len(opened)
      BY Structs
    <3>. QED
      BY <1>3, <3>1
  <2>. QED
    BY <1>1, <1>3, <1>4, <1>5, <2>1 DEF OpeningInv
<1>9. RefsInv'
  <2>1. ASSUME NEW lib \in Libraries
        PROVE  refs'[lib] = Cardinality(Holders(lib)')
    <3>1. IsFiniteSet(Holders(lib)) /\ Holders(lib) \subseteq 1..Len(opened)
      BY HoldersFinite
    <3>2. refs[lib] = Cardinality(Holders(lib))
      BY DEF LoadInv, RefsInv
    <3>3. CASE lib = Wanted
      <4>1. Holders(lib)' = Holders(lib) \union {new} /\ new \notin Holders(lib)
        BY <1>3, <1>4, <1>5, <3>1, <3>3 DEF Holders
      <4>2. Cardinality(Holders(lib)') = Cardinality(Holders(lib)) + 1
        BY <3>1, <4>1, FS_AddElement
      <4>3. refs'[lib] = refs[lib] + 1
        BY <1>1, <1>2, <1>3, <3>3
      <4>. QED
        BY <3>2, <4>2, <4>3
    <3>4. CASE lib # Wanted
      <4>1. Holders(lib)' = Holders(lib)
        <5>1. \A id \in 1..new : id \in 1..Len(opened) \/ id = new
          BY <1>3
        <5>2. opened'[new].lib # lib /\ 1..Len(opened) \subseteq 1..new
          BY <1>3, <1>4, <1>5, <3>4
        <5>. QED
          BY <1>4, <5>1, <5>2 DEF Holders
      <4>2. refs'[lib] = refs[lib]
        BY <1>1, <1>2, <1>3, <3>4
      <4>. QED
        BY <3>2, <4>1, <4>2
    <3>. QED
      BY <3>3, <3>4
  <2>. QED
    BY <2>1 DEF RefsInv
<1>10. RegisteredForOwnPlugin'
  BY <1>1, <1>4, Structs DEF LoadInv, RegisteredForOwnPlugin
<1>11. UseInv'
  <2>1. ASSUME NEW c \in 1..Len(plugins), plugins[c] # NULL
        PROVE  InUse(plugins[c])'
    <3>1. plugins[c] \in 1..Len(opened) /\ InUse(plugins[c])
      BY <2>1, Structs DEF LoadInv, UseInv
    <3>2. opened'[plugins[c]] = opened[plugins[c]] /\ plugins[c] < new
      BY <1>3, <1>4, <3>1
    <3>. QED
      BY <1>1, <1>4, <3>1, <3>2 DEF InUse
  <2>2. \A c \in 1..Len(unloaded) : ~opened'[unloaded[c]].freed
    BY <1>4, Structs DEF LoadInv, UseInv
  <2>3. unloaded = << >>
    BY <1>1 DEF LoadInv, UseInv
  <2>. QED
    BY <1>1, <2>1, <2>2, <2>3 DEF UseInv
<1>. QED
  BY <1>6, <1>7, <1>8, <1>9, <1>10, <1>11 DEF LoadInv

LEMMA RegisterKeeps ==
    ASSUME LoadInv, RegisterCollect \/ RegisterExecute
    PROVE  LoadInv'
<1>. DEFINE record == [plugin |-> current_plugin, lib |-> opened[Opening].lib]
<1>1. /\ IsOpening /\ pc' = "load"
      /\ callbacks' = Append(callbacks, record)
      /\ UNCHANGED <<given, n, plugin_path, plugin_path_current, plugin, plugins,
                     current_plugin, opened, refs, tried, called, unloaded>>
      /\ \/ collect' = Registered1(collect) /\ execute' = execute
         \/ execute' = Registered1(execute) /\ collect' = collect
  BY DEF RegisterCollect, RegisterExecute, Registers, IsOpening, mainVars, observed
<1>2. /\ Len(opened) \in 1..Len(opened) /\ Len(opened) \in Nat
      /\ current_plugin = Len(opened) /\ ~opened[Len(opened)].freed
      /\ opened[Len(opened)].lib \in Libraries
  BY <1>1, Newest, Structs
<1>3. /\ callbacks \in Seq([plugin : 1..Len(opened), lib : Libraries])
      /\ record \in [plugin : 1..Len(opened), lib : Libraries]
      /\ record.plugin = Len(opened) /\ record.lib = opened[Len(opened)].lib
  BY <1>2, Structs DEF Opening
<1>. HIDE DEF record
<1>4. /\ callbacks' \in Seq([plugin : 1..Len(opened), lib : Libraries])
      /\ Len(callbacks') = Len(callbacks) + 1 /\ Len(callbacks) \in Nat
      /\ callbacks'[Len(callbacks) + 1] = record
      /\ \A cb \in 1..Len(callbacks) : callbacks'[cb] = callbacks[cb]
  BY <1>1, <1>3, AppendProperties
<1>5. collect' \in Seq(0..Len(callbacks')) /\ execute' \in Seq(0..Len(callbacks'))
  <2>1. 0..Len(callbacks) \subseteq 0..Len(callbacks') /\ Len(callbacks) + 1 \in 0..Len(callbacks')
    BY <1>4
  <2>2. /\ collect \in Seq(0..Len(callbacks')) /\ execute \in Seq(0..Len(callbacks'))
        /\ llist \in Seq(0..Len(callbacks'))
    <3>1. collect \in Seq(0..Len(callbacks')) /\ execute \in Seq(0..Len(callbacks'))
      BY <2>1, Structs, SeqWidens
    <3>2. llist \in Seq(0..Len(callbacks'))
      BY <1>4 DEF llist, NULL
    <3>. QED
      BY <3>1, <3>2
  <2>3. ASSUME NEW list \in Seq(0..Len(callbacks'))
        PROVE  Registered1(list) \in Seq(0..Len(callbacks'))
    <3>. DEFINE V == 0..Len(callbacks')
                v == Len(callbacks) + 1
    <3>. HIDE DEF V, v
    <3>1. \A l \in Seq(V) : v \in V => LL_APPEND(l, v) \in Seq(V)
      BY DEF LL_APPEND, llist_append, llist_push
    <3>2. v \in V /\ (IF list = << >> THEN llist ELSE list) \in Seq(V)
      BY <2>1, <2>2 DEF V, v
    <3>. QED
      BY <3>1, <3>2 DEF Registered1, V, v
  <2>. QED
    BY <1>1, <2>2, <2>3
<1>6. called' \in Seq(1..Len(callbacks'))
  <2>1. 1..Len(callbacks) \subseteq 1..Len(callbacks')
    BY <1>4
  <2>. QED
    BY <1>1, <2>1, SeqWidens DEF LoadInv, TypeOK
<1>7. TypeOK'
  BY <1>1, <1>4, <1>5, <1>6 DEF LoadInv, TypeOK
<1>8. LoopInv' /\ GivenInv'
  BY <1>1 DEF LoadInv, LoopInv, GivenInv, given, IsOpening
<1>9. OpeningInv' /\ RefsInv' /\ UseInv'
  <2>1. OpeningInv'
    BY <1>1, <1>2 DEF OpeningInv
  <2>2. RefsInv'
    BY <1>1 DEF LoadInv, RefsInv, Holders
  <2>3. UseInv'
    BY <1>1 DEF LoadInv, UseInv, InUse, IsOpening
  <2>. QED
    BY <2>1, <2>2, <2>3
<1>10. RegisteredForOwnPlugin'
  <2>1. ASSUME NEW cb \in 1..Len(callbacks')
        PROVE  /\ ~opened[callbacks'[cb].plugin].freed
               /\ opened[callbacks'[cb].plugin].lib = callbacks'[cb].lib
    <3>1. CASE cb \in 1..Len(callbacks)
      BY <1>4, <3>1 DEF LoadInv, RegisteredForOwnPlugin
    <3>2. CASE cb = Len(callbacks) + 1
      BY <1>2, <1>3, <1>4, <3>2
    <3>. QED
      BY <1>4, <3>1, <3>2
  <2>. QED
    BY <1>1, <2>1 DEF RegisteredForOwnPlugin
<1>. QED
  BY <1>7, <1>8, <1>9, <1>10 DEF LoadInv

LEMMA LoadedKeeps ==
    ASSUME LoadInv, Loaded
    PROVE  LoadInv'
<1>1. /\ IsOpening /\ pc' = "configure"
      /\ current_plugin' = NULL /\ plugin' = Opening
      /\ plugins' = LL_APPEND(plugins, Opening)
      /\ UNCHANGED <<given, n, plugin_path, plugin_path_current, opened, refs, callbacks,
                     collect, execute, tried, called, unloaded>>
  BY DEF Loaded, IsOpening, registryVars, observed
<1>2. /\ Opening = Len(opened) /\ Len(opened) \in 1..Len(opened) /\ Len(opened) \in Nat
      /\ ~opened[Len(opened)].freed
  BY <1>1 DEF LoadInv, TypeOK, OpeningInv, Opening
<1>3. plugins \in Seq(0..Len(opened)) /\ Opening \in 0..Len(opened)
  BY <1>2 DEF LoadInv, TypeOK
<1>4. /\ plugins' \in Seq(0..Len(opened))
      /\ \A c \in 1..Len(plugins') : \/ plugins'[c] = Opening
                                     \/ \E d \in 1..Len(plugins) : plugins'[c] = plugins[d]
  <2>1. CASE Discipline = "push"
    <3>1. plugins' = <<Opening>> \o plugins /\ <<Opening>> \in Seq(0..Len(opened))
      BY <1>1, <1>3, <2>1 DEF LL_APPEND, llist_push
    <3>2. /\ plugins' \in Seq(0..Len(opened)) /\ Len(plugins') = 1 + Len(plugins)
          /\ \A c \in 1..(1 + Len(plugins)) :
                plugins'[c] = IF c <= 1 THEN <<Opening>>[c] ELSE plugins[c - 1]
      BY <1>3, <3>1, ConcatProperties
    <3>3. ASSUME NEW c \in 1..Len(plugins')
          PROVE  \/ plugins'[c] = Opening
                 \/ \E d \in 1..Len(plugins) : plugins'[c] = plugins[d]
      <4>1. c = 1 \/ (~(c <= 1) /\ c - 1 \in 1..Len(plugins))
        BY <1>3, <3>2
      <4>2. CASE c = 1
        BY <3>2, <4>2
      <4>3. CASE ~(c <= 1) /\ c - 1 \in 1..Len(plugins)
        BY <3>2, <4>3
      <4>. QED
        BY <4>1, <4>2, <4>3
    <3>. QED
      BY <3>2, <3>3
  <2>2. CASE Discipline # "push"
    <3>1. plugins' = Append(plugins, Opening)
      BY <1>1, <2>2 DEF LL_APPEND, llist_append
    <3>2. /\ plugins' \in Seq(0..Len(opened)) /\ Len(plugins') = Len(plugins) + 1
          /\ \A c \in 1..Len(plugins) : plugins'[c] = plugins[c]
          /\ plugins'[Len(plugins) + 1] = Opening
      BY <1>3, <3>1, AppendProperties
    <3>3. \A c \in 1..(Len(plugins) + 1) : c \in 1..Len(plugins) \/ c = Len(plugins) + 1
      BY <1>3
    <3>. QED
      BY <3>2, <3>3
  <2>. QED
    BY <2>1, <2>2
<1>5. TypeOK'
  <2>1. /\ plugin' \in {NULL, Indeterminate} \union 1..Len(opened')
        /\ current_plugin' \in 0..Len(opened')
    BY <1>1, <1>2 DEF NULL
  <2>. QED
    BY <1>1, <1>4, <2>1 DEF LoadInv, TypeOK
<1>6. LoopInv' /\ GivenInv'
  BY <1>1 DEF LoadInv, LoopInv, GivenInv, given, IsOpening
<1>7. OpeningInv' /\ RefsInv' /\ RegisteredForOwnPlugin'
  BY <1>1 DEF LoadInv, OpeningInv, IsOpening, RefsInv, Holders, RegisteredForOwnPlugin
<1>8. UseInv'
  <2>1. ~IsOpening' /\ unloaded = << >>
    BY <1>1 DEF IsOpening, LoadInv, UseInv
  <2>2. \A c \in 1..Len(plugins') : plugins'[c] # NULL => ~opened[plugins'[c]].freed
    BY <1>2, <1>4 DEF LoadInv, UseInv, InUse
  <2>. QED
    BY <1>1, <2>1, <2>2 DEF LoadInv, UseInv, InUse
<1>. QED
  BY <1>5, <1>6, <1>7, <1>8 DEF LoadInv

\* The struct that is freed is in no list, and no callback was registered for it.
LEMMA LoadFailsKeeps ==
    ASSUME LoadInv, LoadFails
    PROVE  LoadInv'
<1>. DEFINE id == Len(opened)
            lib == opened[id].lib
<1>1. /\ pc = "open" /\ pc' = "search"
      /\ refs' = [refs EXCEPT ![lib] = @ - 1]
      /\ opened' = [opened EXCEPT ![id].freed = TRUE]
      /\ plugin' = NULL
      /\ collect' \in {collect, llist} /\ execute' \in {execute, llist}
      /\ UNCHANGED <<given, n, plugin_path, plugin_path_current, plugins, current_plugin,
                     callbacks, tried, called, unloaded>>
  BY DEF LoadFails, Opening, observed
<1>2. /\ id \in 1..Len(opened) /\ ~opened[id].freed /\ lib \in Libraries
      /\ opened \in Seq([lib : Libraries, freed : BOOLEAN]) /\ Len(opened) \in Nat
      /\ refs \in [Libraries -> Nat] /\ IsOpening
  <2>1. IsOpening
    BY <1>1 DEF IsOpening
  <2>2. refs \in [Libraries -> Nat] /\ opened \in Seq([lib : Libraries, freed : BOOLEAN])
    BY DEF LoadInv, TypeOK
  <2>. QED
    BY <2>1, <2>2, Newest, Structs
<1>3. /\ opened' \in Seq([lib : Libraries, freed : BOOLEAN]) /\ Len(opened') = Len(opened)
      /\ opened'[id].freed = TRUE /\ opened'[id].lib = lib
      /\ \A other \in 1..Len(opened) : other # id => opened'[other] = opened[other]
  <2>. DEFINE record == [opened[id] EXCEPT !.freed = TRUE]
  <2>1. opened[id] \in Struct
    BY <1>2, Structs
  <2>2. record \in Struct /\ record.freed = TRUE /\ record.lib = lib
    BY <2>1 DEF Struct
  <2>. HIDE DEF record
  <2>3. opened' = [opened EXCEPT ![id] = record]
    BY <1>1 DEF record
  <2>4. opened \in Seq(Struct)
    BY Structs
  <2>5. /\ opened' \in Seq(Struct) /\ Len(opened') = Len(opened) /\ opened'[id] = record
        /\ \A other \in 1..Len(opened) : other # id => opened'[other] = opened[other]
    <3>. HIDE DEF id, lib
    <3>. QED
      BY <1>2, <2>2, <2>3, <2>4
  <2>. QED
    BY <2>2, <2>5 DEF Struct
<1>. HIDE DEF id, lib
<1>4. RefsInv' /\ refs' \in [Libraries -> Nat]
  <2>1. ASSUME NEW l \in Libraries
        PROVE  refs'[l] = Cardinality(Holders(l)') /\ refs'[l] \in Nat
    <3>1. IsFiniteSet(Holders(l)) /\ Holders(l) \subseteq 1..Len(opened)
      BY HoldersFinite
    <3>2. refs[l] = Cardinality(Holders(l)) /\ refs[l] \in Nat
      BY <1>2 DEF LoadInv, RefsInv
    <3>3. CASE l = lib
      <4>1. Holders(l)' = Holders(l) \ {id} /\ id \in Holders(l)
        BY <1>2, <1>3, <3>3 DEF Holders, lib
      <4>2. /\ Cardinality(Holders(l)') = Cardinality(Holders(l)) - 1
            /\ Cardinality(Holders(l)') \in Nat
        BY <3>1, <4>1, FS_RemoveElement, FS_CardinalityType
      <4>3. refs'[l] = refs[l] - 1
        BY <1>1, <1>2, <3>3
      <4>. QED
        BY <3>2, <4>2, <4>3
    <3>4. CASE l # lib
      <4>1. Holders(l)' = Holders(l)
        BY <1>2, <1>3, <3>4 DEF Holders, lib
      <4>. QED
        BY <1>1, <1>2, <3>2, <3>4, <4>1
    <3>. QED
      BY <3>3, <3>4
  <2>. QED
    BY <1>1, <1>2, <2>1 DEF RefsInv
<1>5. TypeOK'
  <2>1. collect' \in Seq(0..Len(callbacks)) /\ execute' \in Seq(0..Len(callbacks))
    <3>1. llist \in Seq(0..Len(callbacks))
      BY Structs DEF llist, NULL
    <3>. QED
      BY <1>1, <3>1, Structs
  <2>2. n' \in 1..Len(names')
    BY <1>1 DEF LoadInv, LoopInv, given
  <2>. QED
    BY <1>1, <1>3, <1>4, <2>1, <2>2 DEF LoadInv, TypeOK
<1>6. LoopInv' /\ GivenInv' /\ OpeningInv'
  BY <1>1 DEF LoadInv, LoopInv, GivenInv, OpeningInv, IsOpening, given
<1>7. RegisteredForOwnPlugin'
  <2>1. \A cb \in 1..Len(callbacks) : callbacks[cb].plugin \in 1..Len(opened)
    BY Structs
  <2>2. \A cb \in 1..Len(callbacks) : callbacks[cb].plugin < Len(opened)
    BY <1>1 DEF LoadInv, OpeningInv
  <2>3. \A cb \in 1..Len(callbacks) : callbacks[cb].plugin # id
    BY <1>2, <2>1, <2>2 DEF id
  <2>. QED
    BY <1>1, <1>3, <2>1, <2>3 DEF LoadInv, RegisteredForOwnPlugin
<1>8. UseInv'
  <2>1. \A c \in 1..Len(plugins) : plugins[c] # NULL => plugins[c] \in 1..Len(opened)
    BY Structs
  <2>2. \A c \in 1..Len(plugins) :
            plugins[c] # NULL => plugins[c] < Len(opened) /\ ~opened[plugins[c]].freed
    BY <1>2 DEF LoadInv, UseInv, InUse
  <2>3. \A c \in 1..Len(plugins) : plugins[c] # NULL => ~opened'[plugins[c]].freed
    BY <1>2, <1>3, <2>1, <2>2 DEF id
  <2>4. ~IsOpening' /\ unloaded' = << >> /\ Len(unloaded') = 0
    BY <1>1 DEF IsOpening, LoadInv, UseInv
  <2>. QED
    BY <1>1, <2>3, <2>4 DEF UseInv, InUse
<1>. QED
  BY <1>4, <1>5, <1>6, <1>7, <1>8 DEF LoadInv

\* A loop over a list of structs stays within them.
LEMMA Unloading ==
    ASSUME LoadInv
    PROVE  /\ LL_EACH(plugins) \in Seq(1..Len(opened))
           /\ \A k \in 1..Len(LL_EACH(plugins)) :
                  \E c \in 1..Len(plugins) : /\ plugins[c] # NULL
                                             /\ LL_EACH(plugins)[k] = plugins[c]
<1>. DEFINE each == LL_EACH(plugins)
<1>1. /\ each \in Seq((0..Len(opened)) \ {NULL})
      /\ ToSet(each) = Before(plugins, Len(plugins) - 1) \ {NULL}
  BY Structs, EachPasses
<1>2. (0..Len(opened)) \ {NULL} = 1..Len(opened)
  BY Structs DEF NULL
<1>. HIDE DEF each
<1>3. \A k \in 1..Len(each) : each[k] \in ToSet(each)
  BY <1>1 DEF ToSet
<1>4. 1..(Len(plugins) - 1) \subseteq 1..Len(plugins)
  BY Structs
<1>5. \A v \in Before(plugins, Len(plugins) - 1) : \E c \in 1..Len(plugins) : v = plugins[c]
  BY <1>4 DEF Before
<1>6. ASSUME NEW k \in 1..Len(each)
      PROVE  \E c \in 1..Len(plugins) : plugins[c] # NULL /\ each[k] = plugins[c]
  BY <1>1, <1>3, <1>5
<1>. QED
  BY <1>1, <1>2, <1>6 DEF each

LEMMA UnloadKeeps ==
    ASSUME LoadInv, Unload
    PROVE  LoadInv'
<1>1. /\ pc = "unload" /\ pc' = "exited" /\ unloaded' = LL_EACH(plugins)
      /\ UNCHANGED <<given, n, plugin_path, plugin_path_current, plugin, plugins,
                     current_plugin, opened, refs, callbacks, collect, execute, tried, called>>
  BY DEF Unload, mainVars, pluginVars, registryVars
<1>2. unloaded' \in Seq(1..Len(opened))
  BY <1>1, Unloading
<1>3. TypeOK'
  BY <1>1, <1>2 DEF LoadInv, TypeOK, Stopped
<1>4. LoopInv' /\ GivenInv'
  BY <1>1 DEF LoadInv, LoopInv, GivenInv, given
<1>5. OpeningInv' /\ ~IsOpening'
  BY <1>1 DEF OpeningInv, IsOpening
<1>6. RefsInv'
  BY <1>1 DEF LoadInv, RefsInv, Holders
<1>7. RegisteredForOwnPlugin'
  BY <1>1 DEF LoadInv, RegisteredForOwnPlugin
<1>8. UseInv'
  <2>1. \A c \in 1..Len(plugins) : plugins[c] # NULL => ~opened[plugins[c]].freed
    BY DEF LoadInv, UseInv, InUse
  <2>2. \A c \in 1..Len(unloaded') : ~opened[unloaded'[c]].freed
    BY <1>1, <2>1, Unloading
  <2>. QED
    BY <1>1, <1>5, <2>1, <2>2 DEF UseInv, InUse
<1>. QED
  BY <1>3, <1>4, <1>5, <1>6, <1>7, <1>8 DEF LoadInv

LEMMA LoadStutters ==
    ASSUME LoadInv, UNCHANGED vars
    PROVE  LoadInv'
<1>1. UNCHANGED <<given, pc, n, plugin_path, plugin_path_current, plugin, plugins,
                  current_plugin, opened, refs, callbacks, collect, execute, tried,
                  called, unloaded>>
  BY DEF vars, mainVars, pluginVars, registryVars, observed
<1>2. TypeOK'
  BY <1>1 DEF LoadInv, TypeOK, given
<1>3. GivenInv' /\ LoopInv'
  BY <1>1 DEF LoadInv, GivenInv, LoopInv, given
<1>4. OpeningInv' /\ RefsInv' /\ RegisteredForOwnPlugin' /\ UseInv'
  BY <1>1 DEF LoadInv, OpeningInv, IsOpening, RefsInv, Holders, RegisteredForOwnPlugin,
              UseInv, InUse
<1>. QED
  BY <1>2, <1>3, <1>4 DEF LoadInv

LEMMA LoadNext == LoadInv /\ [Next]_vars => LoadInv'
<1>. SUFFICES ASSUME LoadInv, [Next]_vars PROVE LoadInv'
  OBVIOUS
<1>1. CASE Options
  BY <1>1, OptionsKeeps
<1>2. CASE SearchNull \/ SearchUnreadable \/ NotLoaded \/ SearchEnds
  BY <1>2, SearchKeeps
<1>3. CASE Open
  BY <1>3, OpenKeeps
<1>4. CASE RegisterCollect \/ RegisterExecute
  BY <1>4, RegisterKeeps
<1>5. CASE Loaded
  BY <1>5, LoadedKeeps
<1>6. CASE LoadFails
  BY <1>6, LoadFailsKeeps
<1>7. CASE Configure \/ ConfigureIndeterminate \/ LoadAborts
  BY <1>7, ConfigureKeeps
<1>8. CASE Collect \/ Execute
  BY <1>8, CallKeeps
<1>9. CASE Unload
  BY <1>9, UnloadKeeps
<1>10. CASE Terminated \/ UNCHANGED vars
  BY <1>10, LoadStutters DEF Terminated
<1>. QED
  BY <1>1, <1>2, <1>3, <1>4, <1>5, <1>6, <1>7, <1>8, <1>9, <1>10 DEF Next

LEMMA LoadSafe == Spec => []LoadInv
  BY LoadInit, LoadNext, PTL DEF Spec

-----------------------------------------------------------------------------
(* What holds whichever way the lists grow *)

\* Every variable keeps its type (main.c:148-425, plugin.c:25-146).
THEOREM PluginsTypes == Spec => []TypeOK
<1>1. LoadInv => TypeOK
  BY DEF LoadInv
<1>. QED
  BY <1>1, LoadSafe, PTL

\* Though current_plugin is left dangling by a load that failed, no callback
\* is registered through it before it is set again (plugin.c:121, 143).
THEOREM Registration == Spec => []RegisteredForOwnPlugin
<1>1. LoadInv => RegisteredForOwnPlugin
  BY DEF LoadInv
<1>. QED
  BY <1>1, LoadSafe, PTL

\* The loader counts a struct that was not freed, ...
LEMMA HeldOpen ==
    ASSUME LoadInv, NEW id \in 1..Len(opened), ~opened[id].freed
    PROVE  refs[opened[id].lib] > 0
<1>1. opened[id].lib \in Libraries
  BY Structs
<1>2. id \in Holders(opened[id].lib) /\ IsFiniteSet(Holders(opened[id].lib))
  BY HoldersFinite DEF Holders
<1>3. /\ Cardinality(Holders(opened[id].lib)) \in Nat
      /\ Cardinality(Holders(opened[id].lib)) # 0
  BY <1>2, FS_CardinalityType, FS_EmptySet
<1>4. refs[opened[id].lib] = Cardinality(Holders(opened[id].lib))
  BY <1>1 DEF LoadInv, RefsInv
<1>. QED
  BY <1>3, <1>4

\* ... so that no dlclose of a failed load unmaps what is called later: not a
\* callback and not an unload() (plugin.c:142).
THEOREM CallsAreMapped == Spec => []CalledAreMapped
<1>1. ASSUME LoadInv
      PROVE  CalledAreMapped
  <2>1. ASSUME NEW cb \in ToSet(called)
        PROVE  refs[callbacks[cb].lib] > 0
    <3>1. called \in Seq(1..Len(callbacks))
      BY <1>1, Structs
    <3>2. cb \in 1..Len(callbacks)
      BY <2>1, <3>1 DEF ToSet
    <3>3. /\ ~opened[callbacks[cb].plugin].freed
          /\ opened[callbacks[cb].plugin].lib = callbacks[cb].lib
      BY <1>1, <3>2 DEF LoadInv, RegisteredForOwnPlugin
    <3>4. callbacks[cb].plugin \in 1..Len(opened)
      BY <1>1, <3>2, Structs
    <3>5. refs[opened[callbacks[cb].plugin].lib] > 0
      BY <1>1, <3>3, <3>4, HeldOpen
    <3>. QED
      BY <3>3, <3>5
  <2>2. ASSUME NEW id \in ToSet(unloaded)
        PROVE  refs[opened[id].lib] > 0
    <3>1. unloaded \in Seq(1..Len(opened))
      BY <1>1, Structs
    <3>2. PICK c \in 1..Len(unloaded) : id = unloaded[c]
      BY <2>2, <3>1 DEF ToSet
    <3>3. id \in 1..Len(opened) /\ ~opened[id].freed
      BY <1>1, <3>1, <3>2 DEF LoadInv, UseInv
    <3>. QED
      BY <1>1, <3>3, HeldOpen
  <2>. QED
    BY <2>1, <2>2 DEF CalledAreMapped
<1>2. LoadInv => CalledAreMapped
  BY <1>1
<1>. QED
  BY <1>2, LoadSafe, PTL

-----------------------------------------------------------------------------
(* The search along the list as it is compiled *)

LEMMA Pointed ==
    /\ NULL \notin Paths /\ Unreadable \notin Paths /\ Unreadable # NULL
<1>1. NULL \notin Paths
  BY PluginsAssumption, Zenon
<1>2. Unreadable \notin Paths \union {NULL}
  BY PluginsAssumption, Zenon
<1>. QED
  BY <1>1, <1>2

LEMMA Appended ==
    ASSUME NEW a, NEW b, NEW c
    PROVE  /\ Append(<<a>>, b) = <<a, b>>
           /\ Append(<<a, b>>, c) = <<a, b, c>>
<1>. DEFINE D == {a, b, c}
<1>1. /\ <<a>> \in Seq(D) /\ <<a, b>> \in Seq(D) /\ <<a, b, c>> \in Seq(D)
      /\ b \in D /\ c \in D
  OBVIOUS
<1>2. PICK S : S = D
  OBVIOUS
<1>3. Append(<<a>>, b) = <<a, b>>
  <2>1. /\ Append(<<a>>, b) \in Seq(S) /\ Len(Append(<<a>>, b)) = 2
        /\ \A k \in 1..2 : Append(<<a>>, b)[k] = <<a, b>>[k]
    BY <1>1, <1>2, AppendProperties
  <2>. QED
    BY <1>1, <1>2, <2>1, SeqEqual
<1>4. Append(<<a, b>>, c) = <<a, b, c>>
  <2>1. /\ Append(<<a, b>>, c) \in Seq(S) /\ Len(Append(<<a, b>>, c)) = 3
        /\ \A k \in 1..3 : Append(<<a, b>>, c)[k] = <<a, b, c>>[k]
    BY <1>1, <1>2, AppendProperties
  <2>. QED
    BY <1>1, <1>2, <2>1, SeqEqual
<1>. QED
  BY <1>3, <1>4

LEMMA PathCells ==
    ASSUME PathInv, pc # "options"
    PROVE  /\ Len(plugin_path) = IF paths = << >> THEN 2 ELSE 3
           /\ plugin_path[1] = NULL
           /\ plugin_path[2] = unset
<1>1. CASE paths = << >>
  <2>1. plugin_path = <<NULL, unset>>
    BY <1>1 DEF PathInv
  <2>. QED
    BY <1>1, <2>1
<1>2. CASE paths # << >>
  <2>1. plugin_path = <<NULL, unset, unset>>
    BY <1>2 DEF PathInv
  <2>. QED
    BY <1>2, <2>1
<1>. QED
  BY <1>1, <1>2

\* The cells the loop enters.
LEMMA TurnCells ==
    ASSUME LoadInv, PathInv, SearchTurn
    PROVE  \/ /\ plugin_path_current = 1 /\ plugin_path_current' = 2
              /\ Directory = NULL
           \/ /\ plugin_path_current = 2 /\ plugin_path_current' = 3
              /\ Directory = unset
              /\ paths # << >> /\ Len(plugin_path) = 3
<1>1. pc = "search"
  BY DEF SearchTurn
<1>2. /\ plugin_path_current \in 1..Len(plugin_path)
      /\ plugin_path_current < Len(plugin_path)
      /\ plugin_path_current' = plugin_path_current + 1
  BY TurnFacts
<1>3. /\ Len(plugin_path) = IF paths = << >> THEN 2 ELSE 3
      /\ plugin_path[1] = NULL /\ plugin_path[2] = unset
  BY <1>1, PathCells
<1>4. CASE paths = << >>
  <2>1. plugin_path_current = 1
    BY <1>2, <1>3, <1>4
  <2>. QED
    BY <1>2, <1>3, <2>1 DEF Directory
<1>5. CASE paths # << >>
  <2>1. plugin_path_current = 1 \/ plugin_path_current = 2
    BY <1>2, <1>3, <1>5
  <2>. QED
    BY <1>2, <1>3, <1>5, <2>1 DEF Directory
<1>. QED
  BY <1>4, <1>5

\* A directory is looked into only where the element behind the values names it.
LEMMA DirectoryCell ==
    ASSUME LoadInv, PathInv, SearchDirectory
    PROVE  /\ plugin_path_current = 2 /\ plugin_path_current' = 3
           /\ Len(plugin_path) = 3 /\ Reached
           /\ Directory = unset /\ Wanted = <<unset, names[n]>>
<1>1. Directory \in Paths /\ Directory # NULL /\ SearchTurn
  BY Pointed DEF SearchDirectory
<1>. QED
  BY <1>1, TurnCells DEF Reached, Wanted

\* The list is filled once.
LEMMA PathNext ==
    ASSUME Discipline = "append", PathInv, [Next]_vars
    PROVE  PathInv' /\ (Reached' <=> Reached) /\ UNCHANGED <<names, paths, unset>>
<1>1. CASE Options
  <2>1. \A list, values : plugin_path_opt_cb(list, values) = Append(list, unset)
    BY DEF plugin_path_opt_cb, LL_APPEND, llist_append
  <2>2. Append(llist, unset) = <<NULL, unset>>
    BY Appended DEF llist
  <2>3. Append(<<NULL, unset>>, unset) = <<NULL, unset, unset>>
    BY Appended
  <2>4. plugin_path' = IF paths = << >> THEN <<NULL, unset>> ELSE <<NULL, unset, unset>>
    BY <1>1, <2>1, <2>2, <2>3 DEF Options, PathList
  <2>5. UNCHANGED <<names, paths, unset>>
    BY <1>1 DEF Options, given
  <2>. QED
    BY <2>4, <2>5 DEF PathInv, Reached
<1>2. CASE ~Options
  <2>1. /\ UNCHANGED <<names, paths, unset, plugin_path>>
        /\ pc' # "options" => pc # "options"
    <3>1. CASE UNCHANGED vars
      BY <3>1 DEF vars, given, mainVars
    <3>2. CASE SearchNull \/ SearchUnreadable \/ NotLoaded \/ Open \/ SearchEnds
      BY <3>2 DEF SearchNull, SearchUnreadable, NotLoaded, Open, SearchEnds, SearchDirectory,
                  SearchTurn, given, mainVars
    <3>3. CASE RegisterCollect \/ RegisterExecute \/ Loaded \/ LoadFails \/ LoadAborts
      BY <3>3 DEF RegisterCollect, RegisterExecute, Registers, Loaded, LoadFails, LoadAborts,
                  given, mainVars
    <3>4. CASE Configure \/ ConfigureIndeterminate \/ Collect \/ Execute \/ Unload
      BY <3>4 DEF Configure, ConfigureIndeterminate, Collect, Execute, Unload, given,
                  mainVars
    <3>5. CASE Terminated
      BY <3>5 DEF Terminated, vars, given, mainVars
    <3>. QED
      BY <1>2, <3>1, <3>2, <3>3, <3>4, <3>5 DEF Next
  <2>. QED
    BY <2>1 DEF PathInv, Reached
<1>. QED
  BY <1>1, <1>2

LEMMA TriedNext ==
    ASSUME Discipline = "append", LoadInv, PathInv, TriedInv, [Next]_vars
    PROVE  TriedInv'
<1>0. UNCHANGED unset
  BY PathNext
<1>1. CASE Options
  <2>1. /\ pc = "options" /\ pc' = "search" /\ plugin_path_current' = 1 /\ tried' = tried
    BY <1>1 DEF Options, observed
  <2>. QED
    BY <2>1 DEF TriedInv, IsOpening
<1>2. CASE SearchNull \/ SearchUnreadable
  <2>1. /\ SearchTurn /\ pc = "search" /\ pc' \in {"search", "crashed"} /\ tried' = tried
        /\ \/ Directory = NULL
           \/ Directory = Unreadable /\ pc' = "crashed"
    BY <1>2 DEF SearchNull, SearchUnreadable, SearchTurn, observed
  <2>2. tried = << >> /\ (plugin_path_current' = 3 => Directory = unset)
    BY <2>1, TurnCells DEF TriedInv
  <2>. QED
    BY <1>0, <2>1, <2>2, Pointed DEF TriedInv, IsOpening
<1>3. CASE NotLoaded \/ Open
  <2>1. /\ SearchDirectory /\ pc = "search" /\ pc' \in {"search", "open"}
        /\ tried' = Append(tried, Directory) /\ plugin_path' = plugin_path
    BY <1>3 DEF NotLoaded, Open, SearchDirectory, SearchTurn
  <2>2. /\ plugin_path_current = 2 /\ plugin_path_current' = 3 /\ Len(plugin_path) = 3
        /\ Directory = unset /\ unset \in Paths
    BY <2>1, DirectoryCell DEF Reached
  <2>3. tried = << >>
    BY <2>2 DEF TriedInv
  <2>4. tried' = <<unset>>
    BY <2>1, <2>2, <2>3
  <2>. QED
    BY <1>0, <2>1, <2>2, <2>4, Pointed DEF TriedInv, IsOpening
<1>4. CASE SearchEnds
  <2>1. /\ pc = "search" /\ pc' = "configure"
        /\ UNCHANGED <<tried, plugin_path, plugin_path_current>>
        /\ NextCell(plugin_path, plugin_path_current) = NULL
        /\ plugin_path_current \in 1..Len(plugin_path) /\ plugin_path \in Seq(Pointers)
    BY <1>4 DEF SearchEnds, mainVars, observed, LoadInv, LoopInv, TypeOK
  <2>2. plugin_path_current = Len(plugin_path)
    BY <2>1 DEF NextCell, NULL
  <2>. QED
    BY <1>0, <2>1, <2>2 DEF TriedInv
<1>5. CASE Configure
  <2>1. /\ pc = "configure" /\ pc' \in {"search", "collect"}
        /\ \/ plugin_path_current' = 1 /\ tried' = << >>
           \/ plugin_path_current' = plugin_path_current /\ tried' = tried
    BY <1>5 DEF Configure
  <2>. QED
    BY <1>0, <2>1 DEF TriedInv, IsOpening
<1>6. CASE RegisterCollect \/ RegisterExecute \/ Loaded \/ LoadFails
  <2>1. /\ IsOpening /\ pc # "options" /\ pc' # "options" /\ pc # "crashed"
        /\ UNCHANGED <<tried, plugin_path, plugin_path_current>>
    BY <1>6 DEF RegisterCollect, RegisterExecute, Registers, Loaded, LoadFails, IsOpening,
                mainVars, observed
  <2>. QED
    BY <1>0, <2>1 DEF TriedInv
<1>7. CASE LoadAborts \/ ConfigureIndeterminate \/ Collect \/ Execute \/ Unload
  <2>1. /\ pc # "options" /\ pc # "crashed"
        /\ pc' \in {"aborted", "crashed", "execute", "unload", "exited"}
        /\ UNCHANGED <<tried, plugin_path_current>>
    BY <1>7 DEF LoadAborts, ConfigureIndeterminate, Collect, Execute, Unload, mainVars,
                observed
  <2>. QED
    BY <1>0, <2>1 DEF TriedInv, IsOpening
<1>8. CASE Terminated \/ UNCHANGED vars
  <2>1. UNCHANGED <<pc, tried, plugin_path, plugin_path_current>>
    BY <1>8 DEF Terminated, vars, mainVars, observed
  <2>. QED
    BY <1>0, <2>1 DEF TriedInv, IsOpening
<1>. QED
  BY <1>1, <1>2, <1>3, <1>4, <1>5, <1>6, <1>7, <1>8 DEF Next

LEMMA OwnNext ==
    ASSUME Discipline = "append", LoadInv, SearchInv, [Next]_vars
    PROVE  OwnInv'
<1>0. (Reached' <=> Reached) /\ UNCHANGED <<names, unset>>
  BY PathNext DEF SearchInv
<1>1. CASE Options
  <2>1. pc = "options" /\ pc' = "search" /\ UNCHANGED <<plugin, tried>>
    BY <1>1 DEF Options, observed
  <2>2. tried = << >>
    BY <2>1 DEF SearchInv, TriedInv
  <2>. QED
    BY <1>0, <2>1, <2>2 DEF SearchInv, OwnInv, IsOpening
<1>2. CASE SearchNull \/ SearchUnreadable
  <2>1. /\ pc = "search" /\ pc' \in {"search", "crashed"} /\ UNCHANGED <<plugin, tried>>
    BY <1>2 DEF SearchNull, SearchUnreadable, SearchTurn, observed
  <2>. QED
    BY <1>0, <2>1 DEF SearchInv, OwnInv, IsOpening
<1>3. CASE NotLoaded
  <2>1. SearchDirectory /\ pc = "search" /\ pc' = "search" /\ plugin' = NULL
    BY <1>3 DEF NotLoaded, SearchDirectory, SearchTurn
  <2>2. Reached
    BY <2>1, DirectoryCell DEF SearchInv
  <2>. QED
    BY <1>0, <2>1, <2>2 DEF OwnInv, IsOpening
<1>4. CASE Open
  <2>. DEFINE record == [lib |-> Wanted, freed |-> FALSE]
  <2>1. /\ SearchDirectory /\ pc' = "open" /\ UNCHANGED <<n, plugin>>
        /\ opened' = Append(opened, record)
    BY <1>4 DEF Open, SearchDirectory
  <2>2. Reached /\ Wanted = <<unset, names[n]>>
    BY <2>1, DirectoryCell DEF SearchInv
  <2>3. opened' \in Seq(Struct) /\ opened'[Len(opened')] = record
    <3>1. opened \in Seq(Struct) /\ record \in Struct
      BY <2>1, Structs, TurnFacts DEF SearchDirectory, Struct
    <3>. HIDE DEF record
    <3>. QED
      BY <2>1, <3>1, AppendProperties
  <2>. QED
    BY <1>0, <2>1, <2>2, <2>3 DEF SearchInv, OwnInv
<1>5. CASE RegisterCollect \/ RegisterExecute
  <2>1. IsOpening /\ pc' = "load" /\ UNCHANGED <<n, plugin, opened>>
    BY <1>5 DEF RegisterCollect, RegisterExecute, Registers, IsOpening, mainVars
  <2>. QED
    BY <1>0, <2>1 DEF SearchInv, OwnInv
<1>6. CASE Loaded
  <2>1. IsOpening /\ pc' = "configure" /\ plugin' = Len(opened) /\ UNCHANGED <<n, opened>>
    BY <1>6 DEF Loaded, IsOpening, Opening
  <2>2. ~opened[Len(opened)].freed
    BY <2>1, Newest
  <2>. QED
    BY <1>0, <2>1, <2>2 DEF SearchInv, OwnInv, IsOpening
<1>7. CASE LoadFails
  <2>1. IsOpening /\ pc' = "search" /\ plugin' = NULL
    BY <1>7 DEF LoadFails, IsOpening
  <2>. QED
    BY <1>0, <2>1 DEF SearchInv, OwnInv, IsOpening
<1>8. CASE SearchEnds
  <2>1. pc = "search" /\ pc' = "configure" /\ UNCHANGED <<plugin, tried>>
    BY <1>8 DEF SearchEnds, mainVars, observed
  <2>. QED
    BY <1>0, <2>1 DEF SearchInv, OwnInv, IsOpening
<1>9. CASE Configure
  <2>1. /\ \/ pc' = "search" /\ tried' = << >>
           \/ pc' = "collect"
        /\ plugin' = plugin
    BY <1>9 DEF Configure
  <2>. QED
    BY <1>0, <2>1 DEF SearchInv, OwnInv, IsOpening
<1>10. CASE LoadAborts \/ ConfigureIndeterminate \/ Collect \/ Execute \/ Unload
  <2>1. /\ pc' \in {"aborted", "crashed", "execute", "unload", "exited"}
        /\ plugin' = plugin
    BY <1>10 DEF LoadAborts, ConfigureIndeterminate, Collect, Execute, Unload, mainVars
  <2>. QED
    BY <1>0, <2>1 DEF SearchInv, OwnInv, IsOpening
<1>11. CASE Terminated \/ UNCHANGED vars
  <2>1. UNCHANGED <<pc, n, plugin, opened, tried>>
    BY <1>11 DEF Terminated, vars, mainVars, pluginVars, observed
  <2>. QED
    BY <1>0, <2>1 DEF SearchInv, OwnInv, IsOpening
<1>. QED
  BY <1>1, <1>2, <1>3, <1>4, <1>5, <1>6, <1>7, <1>8, <1>9, <1>10, <1>11 DEF Next

LEMMA SearchSafe ==
    ASSUME Discipline = "append"
    PROVE  Spec => [](LoadInv /\ SearchInv)
<1>1. Init => SearchInv
  BY DEF Init, SearchInv, PathInv, TriedInv, OwnInv, IsOpening
<1>2. LoadInv /\ SearchInv /\ [Next]_vars => SearchInv'
  BY PathNext, TriedNext, OwnNext DEF SearchInv
<1>. QED
  BY <1>1, <1>2, LoadInit, LoadNext, PTL DEF Spec

\* What was tried when a value has been looked for.
LEMMA TriedAtEnd ==
    ASSUME LoadInv, SearchInv, pc = "configure"
    PROVE  /\ Reached => tried = <<unset>>
           /\ ~Reached => tried = << >> /\ (paths = << >> \/ unset = NULL)
<1>1. plugin_path_current = IF paths = << >> THEN 2 ELSE 3
  BY PathCells DEF SearchInv, TriedInv
<1>2. unset \in Pointers
  BY GivenFacts DEF LoadInv
<1>. QED
  BY <1>1, <1>2 DEF SearchInv, TriedInv, Reached, Pointers

\* As compiled no directory that was given and no default one is searched; what
\* is tried, once if --plugin-path is given and never if not, is the element
\* behind the option's values (main.c:154-155, 306-309).
THEOREM UnsetIsSearched ==
    ASSUME Discipline = "append"
    PROVE  Spec => []OnlyUnsetSearched
<1>1. LoadInv /\ SearchInv => OnlyUnsetSearched
  BY TriedAtEnd, Pointed DEF OnlyUnsetSearched, Reached
<1>. QED
  BY <1>1, SearchSafe, PTL

\* Though plugin is not reset between the values of --plugin, no value configures
\* the plugin of an earlier one (main.c:164, 182).
THEOREM OwnPluginConfigured ==
    ASSUME Discipline = "append"
    PROVE  Spec => []ConfiguresOwnPlugin
<1>1. ASSUME LoadInv, SearchInv, pc = "configure"
      PROVE  ConfiguresOwnPlugin
  <2>1. CASE Reached
    <3>1. tried = <<unset>>
      BY <1>1, <2>1, TriedAtEnd
    <3>2. tried # << >> /\ tried[Len(tried)] = unset
      BY <3>1
    <3>. QED
      BY <1>1, <3>2 DEF SearchInv, OwnInv, ConfiguresOwnPlugin
  <2>2. CASE ~Reached
    BY <1>1, <2>2, TriedAtEnd DEF SearchInv, OwnInv, ConfiguresOwnPlugin
  <2>. QED
    BY <2>1, <2>2
<1>2. LoadInv /\ SearchInv => ConfiguresOwnPlugin
  BY <1>1 DEF ConfiguresOwnPlugin
<1>. QED
  BY <1>2, SearchSafe, PTL

-----------------------------------------------------------------------------
(* The list of plugins as it is compiled *)

\* The steps after which the same structs are in use and in the list.
LEMMA SameInUse ==
    ASSUME PluginsInv, UNCHANGED <<plugins, unloaded, LoadedIds>>,
           pc \notin {"options", "aborted"}, pc' \notin {"options", "exited"}
    PROVE  PluginsInv'
  BY DEF PluginsInv

LEMMA PluginsNext ==
    ASSUME Discipline = "append", LoadInv, PluginsInv, [Next]_vars
    PROVE  PluginsInv'
<1>1. CASE Options
  <2>1. /\ pc = "options" /\ pc' = "search" /\ plugins' = <<NULL>> /\ opened' = opened
        /\ opened = << >>
    BY <1>1 DEF Options, pluginVars, llist, PluginsInv
  <2>2. Len(plugins') = 1 /\ plugins'[1] = NULL /\ plugins' # << >>
    BY <2>1
  <2>3. ToSet(plugins') = {NULL} /\ Increasing(plugins')
    BY <2>1, <2>2 DEF ToSet, Increasing, NULL
  <2>4. LoadedIds' = {}
    BY <2>1 DEF LoadedIds
  <2>. QED
    BY <2>1, <2>2, <2>3, <2>4 DEF PluginsInv
<1>2. CASE \/ SearchNull \/ SearchUnreadable \/ NotLoaded \/ SearchEnds
           \/ Configure \/ ConfigureIndeterminate
  <2>1. /\ pc \in {"search", "configure"} /\ pc' \in {"search", "configure", "collect", "crashed"}
        /\ UNCHANGED <<plugins, unloaded, opened>>
    BY <1>2 DEF SearchNull, SearchUnreadable, NotLoaded, SearchEnds, SearchDirectory,
                SearchTurn, Configure, ConfigureIndeterminate, mainVars, pluginVars, observed
  <2>2. LoadedIds' = LoadedIds
    BY <2>1 DEF LoadedIds, InUse, IsOpening
  <2>. QED
    BY <2>1, <2>2, SameInUse
<1>3. CASE Open
  <2>1. /\ pc = "search" /\ pc' = "open" /\ UNCHANGED <<plugins, unloaded>>
        /\ opened' = Append(opened, [lib |-> Wanted, freed |-> FALSE])
    BY <1>3 DEF Open, SearchDirectory, SearchTurn
  <2>2. /\ Len(opened') = Len(opened) + 1 /\ Len(opened) \in Nat
        /\ \A id \in 1..Len(opened) : opened'[id] = opened[id]
    <3>1. /\ opened \in Seq(Struct) /\ [lib |-> Wanted, freed |-> FALSE] \in Struct
          /\ Len(opened) \in Nat
      BY <1>3, Structs, TurnFacts DEF Open, SearchDirectory, Struct
    <3>. QED
      BY <2>1, <3>1, AppendProperties
  <2>3. LoadedIds' = LoadedIds
    BY <2>1, <2>2 DEF LoadedIds, InUse, IsOpening
  <2>. QED
    BY <2>1, <2>3, SameInUse
<1>4. CASE RegisterCollect \/ RegisterExecute
  <2>1. /\ pc \in {"open", "load"} /\ pc' = "load" /\ UNCHANGED <<plugins, unloaded, opened>>
    BY <1>4 DEF RegisterCollect, RegisterExecute, Registers, mainVars, observed
  <2>2. LoadedIds' = LoadedIds
    BY <2>1 DEF LoadedIds, InUse, IsOpening
  <2>. QED
    BY <2>1, <2>2, SameInUse
<1>5. CASE Loaded
  <2>. DEFINE id == Len(opened)
  <2>1. /\ pc \in {"open", "load"} /\ pc' = "configure" /\ opened' = opened
        /\ plugins' = Append(plugins, id)
    BY <1>5 DEF Loaded, LL_APPEND, llist_append, Opening
  <2>2. /\ id \in 1..id /\ id \in Nat /\ ~opened[id].freed
        /\ plugins \in Seq(Nat) /\ plugins \in Seq(0..id)
    <3>1. id \in 1..id /\ ~opened[id].freed /\ id \in Nat /\ plugins \in Seq(0..id)
      BY <2>1, Newest, Structs DEF IsOpening
    <3>2. 0..id \subseteq Nat
      BY <3>1
    <3>. QED
      BY <3>1, <3>2, SeqWidens
  <2>3. LoadedIds' = LoadedIds \union {id}
    BY <2>1, <2>2 DEF LoadedIds, InUse, IsOpening
  <2>4. Increasing(plugins) /\ ToSet(plugins) = {NULL} \union LoadedIds
    BY <2>1 DEF PluginsInv
  <2>5. \A k \in 1..Len(plugins) : plugins[k] < id
    <3>1. \A k \in 1..Len(plugins) : plugins[k] \in {NULL} \union LoadedIds
      BY <2>2, <2>4 DEF ToSet
    <3>2. \A other \in {NULL} \union LoadedIds : other < id
      BY <2>1, <2>2 DEF NULL, LoadedIds, InUse, IsOpening
    <3>. QED
      BY <3>1, <3>2
  <2>. HIDE DEF id
  <2>6. Increasing(plugins')
    BY <2>1, <2>2, <2>4, <2>5, IncreasingAppend
  <2>7. ToSet(plugins') = {NULL} \union LoadedIds'
    BY <2>1, <2>2, <2>3, <2>4, ToSetAppend
  <2>8. plugins' # << >>
    BY <2>1, <2>2, AppendProperties
  <2>. QED
    BY <2>1, <2>6, <2>7, <2>8 DEF PluginsInv
<1>6. CASE LoadFails
  <2>. DEFINE id == Len(opened)
  <2>1. /\ pc = "open" /\ pc' = "search" /\ UNCHANGED <<plugins, unloaded>>
        /\ opened' = [opened EXCEPT ![id].freed = TRUE]
    BY <1>6 DEF LoadFails, Opening, observed
  <2>2. opened \in Seq(Struct) /\ id \in 1..id /\ id \in Nat
    BY <2>1, Newest, Structs DEF IsOpening
  <2>3. /\ Len(opened') = id /\ opened'[id].freed
        /\ \A other \in 1..id : other < id => opened'[other] = opened[other]
    <3>. DEFINE record == [opened[id] EXCEPT !.freed = TRUE]
    <3>1. opened[id] \in Struct
      BY <2>2
    <3>2. record \in Struct /\ record.freed
      BY <3>1 DEF Struct
    <3>3. opened' = [opened EXCEPT ![id] = record]
      BY <2>1
    <3>. HIDE DEF record
    <3>. QED
      BY <2>2, <3>2, <3>3
  <2>4. LoadedIds' = LoadedIds
    <3>1. \A other \in 1..id : other < id \/ other = id
      BY <2>2
    <3>. QED
      BY <2>1, <2>2, <2>3, <3>1 DEF LoadedIds, InUse, IsOpening
  <2>. QED
    BY <2>1, <2>4, SameInUse
<1>7. CASE LoadAborts
  BY <1>7 DEF LoadAborts, PluginsInv
<1>8. CASE Collect \/ Execute
  <2>1. /\ pc \in {"collect", "execute"} /\ pc' \in {"aborted", "execute", "unload"}
        /\ UNCHANGED <<plugins, unloaded, opened>>
    BY <1>8 DEF Collect, Execute, mainVars, pluginVars
  <2>2. LoadedIds' = LoadedIds
    BY <2>1 DEF LoadedIds, InUse, IsOpening
  <2>. QED
    BY <2>1, <2>2, SameInUse
<1>9. CASE Unload
  <2>1. /\ pc = "unload" /\ pc' = "exited" /\ UNCHANGED <<plugins, opened>>
        /\ unloaded' = LL_EACH(plugins)
    BY <1>9 DEF Unload, mainVars, pluginVars
  <2>2. LoadedIds' = LoadedIds
    BY <2>1 DEF LoadedIds, InUse, IsOpening
  <2>. QED
    BY <2>1, <2>2 DEF PluginsInv
<1>10. CASE Terminated \/ UNCHANGED vars
  <2>1. UNCHANGED <<pc, plugins, opened, unloaded>>
    BY <1>10 DEF Terminated, vars, mainVars, pluginVars, observed
  <2>2. LoadedIds' = LoadedIds
    BY <2>1 DEF LoadedIds, InUse, IsOpening
  <2>. QED
    BY <2>1, <2>2 DEF PluginsInv
<1>. QED
  BY <1>1, <1>2, <1>3, <1>4, <1>5, <1>6, <1>7, <1>8, <1>9, <1>10 DEF Next

\* The loop at the end of main unloads every loaded plugin once and in the
\* order of loading, but for the last (main.c:390).
THEOREM Unloads ==
    ASSUME Discipline = "append"
    PROVE  Spec => []UnloadsAllButYoungest
<1>1. Init => PluginsInv
  BY DEF Init, PluginsInv
<1>2. LoadInv /\ PluginsInv /\ [Next]_vars => PluginsInv'
  BY PluginsNext
<1>3. ASSUME LoadInv, PluginsInv, pc = "exited"
      PROVE  UnloadsAllButYoungest
  <2>. DEFINE last == Len(plugins)
              loaded == LoadedIds
  <2>1. /\ plugins \in Seq(Nat) /\ Increasing(plugins) /\ last \in Nat \ {0}
        /\ unloaded = LL_EACH(plugins)
        /\ ToSet(plugins) = {NULL} \union loaded
        /\ loaded = {id \in 1..Len(opened) : ~opened[id].freed}
    <3>1. 0..Len(opened) \subseteq Nat /\ plugins \in Seq(0..Len(opened))
      BY <1>3, Structs
    <3>2. plugins # << >> /\ Increasing(plugins) /\ unloaded = LL_EACH(plugins)
      BY <1>3 DEF PluginsInv
    <3>3. last # 0
      BY <3>1, <3>2, EmptySeq
    <3>4. loaded = {id \in 1..Len(opened) : ~opened[id].freed}
      BY <1>3 DEF LoadedIds, InUse, IsOpening
    <3>5. ToSet(plugins) = {NULL} \union loaded
      BY <1>3 DEF PluginsInv
    <3>. QED
      BY <3>1, <3>2, <3>3, <3>4, <3>5, SeqWidens
  <2>2. \A id \in loaded : id \in Nat /\ id > 0
    BY <1>3, <2>1, Structs
  <2>. HIDE DEF loaded
  <2>3. /\ Increasing(unloaded)
        /\ ToSet(unloaded) = Before(plugins, last - 1) \ {NULL}
    BY <2>1, EachIncreases, EachPasses
  <2>4. /\ \A k \in 1..last : plugins[k] \in {NULL} \union loaded
        /\ \A id \in loaded : \E k \in 1..last : id = plugins[k]
    BY <2>1 DEF ToSet
  <2>5. ASSUME NEW id \in Before(plugins, last - 1), id # NULL
        PROVE  id \in loaded /\ \E later \in loaded : id < later
    <3>1. PICK k \in 1..(last - 1) : id = plugins[k]
      BY <2>5 DEF Before
    <3>2. k \in 1..last /\ last \in 1..last /\ k < last
      BY <2>1
    <3>3. id < plugins[last] /\ id \in loaded
      BY <2>4, <2>5, <3>1, <3>2, <2>1 DEF Increasing
    <3>4. plugins[last] \in loaded
      BY <2>2, <2>4, <3>2, <3>3 DEF NULL
    <3>. QED
      BY <3>3, <3>4
  <2>6. ASSUME NEW id \in loaded, NEW later \in loaded, id < later
        PROVE  id \in Before(plugins, last - 1) /\ id # NULL
    <3>1. PICK k \in 1..last : id = plugins[k]
      BY <2>4
    <3>2. PICK m \in 1..last : later = plugins[m]
      BY <2>4
    <3>3. k < m
      <4>1. ~(m < k)
        BY <2>1, <2>2, <2>6, <3>1, <3>2 DEF Increasing
      <4>2. m # k
        BY <2>2, <2>6, <3>1, <3>2
      <4>. QED
        BY <4>1, <4>2, <2>1
    <3>4. k \in 1..(last - 1)
      BY <2>1, <3>3
    <3>. QED
      BY <2>2, <3>1, <3>4 DEF Before, NULL
  <2>7. ToSet(unloaded) = {id \in loaded : \E later \in loaded : id < later}
    BY <2>3, <2>5, <2>6
  <2>. QED
    BY <1>3, <2>1, <2>3, <2>7 DEF UnloadsAllButYoungest, Increasing
<1>4. LoadInv /\ PluginsInv => UnloadsAllButYoungest
  <2>1. pc # "exited" => UnloadsAllButYoungest
    BY DEF UnloadsAllButYoungest
  <2>. QED
    BY <1>3, <2>1
<1>. QED
  BY <1>1, <1>2, <1>4, LoadInit, LoadNext, PTL DEF Spec

===============================================================================
