----------------------------- MODULE CommandLine -----------------------------
(***************************************************************************)
(* main of src/src/main.c from the command line to the call of             *)
(* libdistexec_execute: copa_parse for main's options, the checks, then    *)
(* for each plugin one parser per configuration key over the words nobody  *)
(* knew, and the collect callbacks.  How a plugin's library is found is    *)
(* the subject of Plugins; here each one known by name loads.              *)
(*                                                                         *)
(* A long option's name is a text of one symbol, a plugin's option a text  *)
(* of two, the callback's name and the key.                                *)
(***************************************************************************)
EXTENDS Copa, Foreman, LinkedLists

CONSTANT COMMAND_SIZE  \* the 1024 of cmd_buf

VARIABLES
    line,        \* the words main was started with
    main,        \* where main is, or how it ended
    left,        \* the unknown words of cmd_parser
    command,     \* its arguments
    names,       \* the values of --plugin
    n,           \* which of them is loaded
    k,           \* the key that is looked for
    concurrent,  \* what became of --concurrent
    collects,    \* the list of collect callbacks
    calls,       \* those libdistexec_collect has not called yet
    ssh_cfg      \* cfg of ssh.c

mainVars == <<line, main, left, command, names, n, k, concurrent, collects, calls, ssh_cfg>>
commandVars == <<mainVars, copaVars, foremanVars>>

Ends == {"failed", "aborted", "crashed", "overrun", "exited", "execute"}

-----------------------------------------------------------------------------
(* Options and plugins *)

Opt(short, long, has_param) == [short |-> short, long |-> <<long>>, has_param |-> has_param]

\* The options in main's order.  has_param of an option is what malloc left
\* there, unless main sets it: only the options in unset take a value by that.
Options(unset) == <<
    Opt("h", "help", "help" \in unset), Opt("V", "version", "version" \in unset),
    Opt("C", "config", "config" \in unset), Opt("O", "output", "output" \in unset),
    Opt("P", "progress", "progress" \in unset),
    Opt(NoText, "plugin-path", TRUE), Opt("p", "plugin", TRUE),
    Opt("g", "grep", TRUE), Opt("c", "concurrent", TRUE),
    Opt("L", "log-file", TRUE), Opt(NoText, "log-format", TRUE),
    Opt(NoText, "log-format-date", TRUE), Opt(NoText, "log-format-time", TRUE),
    Opt(NoText, "debug", "debug" \in unset) >>

Unset == {"help", "version", "config", "output", "progress", "debug"}

\* The number of the option with that name.
OptionNumber(name) == CHOOSE o \in 1..14 : Options({})[o].long = <<name>>
IsGiven(name) == given[OptionNumber(name)]
Values(name) == values[OptionNumber(name)]
Valueless(name) == IsGiven(name) /\ Values(name) = << >>

\* The options of the plugins' callbacks, in the order they were registered.
\* The file and exec plugins register none; no other name is found.
Keys(name) ==
    CASE name = <<"foreman">> -> << <<"foreman", "url">>, <<"foreman", "username">>,
             <<"foreman", "password">>, <<"foreman", "per-page">>,
             <<"foreman", "ssl-verify">> >>
      [] name = <<"ssh">> -> << <<"ssh", "username">>, <<"ssh", "known_hosts">>,
             <<"ssh", "private_key">>, <<"ssh", "public_key">>, <<"ssh", "auth">> >>
      [] name = <<"dummy">> -> << <<"dummy", "option1">>, <<"dummy", "dummy2">>,
             <<"dummy", "option1">>, <<"dummy", "dummy2">> >>
      [] name \notin {<<"foreman">>, <<"ssh">>, <<"dummy">>} -> << >>

\* exec_init of ssh.c
SshUnconfigured ==
    [key \in {"username", "password", "known_hosts", "private_key", "public_key", "auth"} |->
        IF key = "auth" THEN <<"agent">> ELSE NoText]

\* The names of the options are texts like others.
ASSUME CommandLineAssumption ==
    /\ COMMAND_SIZE \in Nat
    /\ \A unset \in SUBSET Unset : Options(unset) \in Seq(Option)
    /\ \A name \in {<<"foreman">>, <<"ssh">>, <<"dummy">>} : Keys(name) \in Seq(Text)
    /\ {"agent", "server-"} \subseteq Symbols

\* Callbacks in the list of collects.
ForemanCollect == 1
DummyCollect == 2

-----------------------------------------------------------------------------
(* main up to copa_callback *)

\* The words w are given, and the options in unset happen to take a value.
MainInit(w, unset) ==
    /\ Parser(w, Options(unset))
    /\ line = w
    /\ main = "parse"
    /\ left = << >>
    /\ command = << >>
    /\ names = << >>
    /\ n = 1
    /\ k = 1
    /\ concurrent = "default"
    /\ collects = << >>
    /\ calls = << >>
    /\ ssh_cfg = SshUnconfigured

ParseStep ==
    /\ main \in {"parse", "key"}
    /\ CopaNext
    /\ UNCHANGED <<mainVars, foremanVars>>

EndsWith(how) ==
    /\ main' = how
    /\ UNCHANGED <<line, left, command, names, n, k, concurrent, collects, calls, ssh_cfg,
                   copaVars, foremanVars>>

\* exit(EXIT_FAILURE) or a write behind an array inside the parser.
ParserEnds ==
    /\ main \in {"parse", "key"}
    /\ \/ parser = "exit" /\ EndsWith("failed")
       \/ parser = "overrun" /\ EndsWith("overrun")

AtParsed == main = "parse" /\ parser = "done"
Required == IsGiven("plugin") /\ ~Valueless("plugin-path")

\* REQUIRE_ARGUMENT for --plugin, REQUIRE_PARAM for --plugin-path.
RequireFails == AtParsed /\ ~Required /\ EndsWith("failed")

BadLogs ==
    {o \in {"log-file", "log-format", "log-format-date", "log-format-time"} : Valueless(o)}

(***************************************************************************)
(* values[-1] of an option without a value is its description, NULL: no    *)
(* logfile of that name, or a format that is read through if anything is   *)
(* logged.                                                                 *)
(***************************************************************************)
LogOptionFails ==
    /\ AtParsed
    /\ Required
    /\ BadLogs # {}
    /\ \E how \in {"aborted", "crashed"} : EndsWith(how)

AtCallbacks == AtParsed /\ Required /\ "log-file" \notin BadLogs

\* help_opt_cb, version_opt_cb, which nothing but --plugin makes reachable.
HelpOrVersion ==
    AtCallbacks /\ (IsGiven("help") \/ IsGiven("version")) /\ EndsWith("exited")

CallbackFails ==
    /\ AtCallbacks
    /\ ~IsGiven("help")
    /\ ~IsGiven("version")
    /\ Valueless("config") \/ Valueless("plugin")
    /\ EndsWith("failed")

\* plugin_opt_cb begins; the parser's results are what it works on.
BeginPlugins ==
    /\ AtCallbacks
    /\ ~IsGiven("help")
    /\ ~IsGiven("version")
    /\ ~Valueless("config")
    /\ ~Valueless("plugin")
    /\ main' = "load"
    /\ left' = unknown
    /\ command' = arguments
    /\ names' = [m \in DOMAIN Values("plugin") |-> Values("plugin")[m].text]
    /\ concurrent' = CASE ~IsGiven("concurrent") -> "default"
                       [] Valueless("concurrent") -> "missing"
                       [] Values("concurrent") # << >> -> "given"
    /\ CopaStart(<< >>, << >>)
    /\ UNCHANGED <<line, n, k, collects, calls, ssh_cfg, foremanVars>>

-----------------------------------------------------------------------------
(* plugin_opt_cb *)

\* LL_INIT_IF_NULL and LL_APPEND of a collect callback.
WithCollect(cb) == LL_APPEND(IF collects = << >> THEN llist ELSE collects, cb)

\* The plugin's load() registers its callbacks, whose init resets its cfg.
LoadPlugin ==
    /\ main = "load"
    /\ n <= Len(names)
    /\ collects' = CASE names[n] = <<"foreman">> -> WithCollect(ForemanCollect)
                     [] names[n] = <<"dummy">> -> WithCollect(DummyCollect)
                     [] names[n] \notin {<<"foreman">>, <<"dummy">>} -> collects
    /\ cfg' = IF names[n] = <<"foreman">> THEN Unconfigured ELSE cfg
    /\ ssh_cfg' = IF names[n] = <<"ssh">> THEN SshUnconfigured ELSE ssh_cfg
    /\ k' = 1
    /\ main' = "keys"
    /\ UNCHANGED <<line, left, command, names, n, concurrent, calls, copaVars, foreman, baseuri,
                   headers, current_page, pages, results, transferVars, nodes, worldVars,
                   observedVars>>

\* A parser with one option reads the words cmd_parser did not know.
ParseForKey ==
    /\ main = "keys"
    /\ k <= Len(Keys(names[n]))
    /\ main' = "key"
    /\ CopaStart(left, << [short |-> NoText, long |-> Keys(names[n])[k],
                           has_param |-> TRUE] >>)
    /\ UNCHANGED <<line, left, command, names, n, k, concurrent, collects, calls, ssh_cfg,
                   foremanVars>>

AtKey == main = "key" /\ parser = "done"

\* config.set, set_config_value
Sets(option, text) ==
    /\ cfg' = IF option[1] = "foreman" THEN [cfg EXCEPT ![option[2]] = text] ELSE cfg
    /\ ssh_cfg' = IF option[1] = "ssh" THEN [ssh_cfg EXCEPT ![option[2]] = text] ELSE ssh_cfg

\* Mutant: the next key of the plugin is set.
SetNextKey ==
    /\ AtKey
    /\ ~given[1] \/ values[1] # << >> \/ names[n] = <<"dummy">>
    /\ LET next == IF k < Len(Keys(names[n])) THEN k + 1 ELSE k
       IN  IF given[1] /\ values[1] # << >> THEN Sets(Keys(names[n])[next], Last(values[1]).text)
           ELSE UNCHANGED <<cfg, ssh_cfg>>
    /\ k' = k + 1
    /\ main' = "keys"
    /\ CopaStart(<< >>, << >>)
    /\ UNCHANGED <<line, left, command, names, n, concurrent, collects, calls, foreman, baseuri,
                   headers, current_page, pages, results, transferVars, nodes, worldVars,
                   observedVars>>

\* A key that was given gets its last value; the dummy plugin keeps none.
SetKey ==
    /\ AtKey
    /\ ~given[1] \/ values[1] # << >> \/ names[n] = <<"dummy">>
    /\ IF given[1] /\ values[1] # << >> THEN Sets(Keys(names[n])[k], Last(values[1]).text)
       ELSE UNCHANGED <<cfg, ssh_cfg>>
    /\ k' = k + 1
    /\ main' = "keys"
    /\ CopaStart(<< >>, << >>)
    /\ UNCHANGED <<line, left, command, names, n, concurrent, collects, calls, foreman, baseuri,
                   headers, current_page, pages, results, transferVars, nodes, worldVars,
                   observedVars>>

\* strdup of values[-1], the description NULL.
SetKeyToNull ==
    /\ AtKey
    /\ given[1]
    /\ values[1] = << >>
    /\ names[n] # <<"dummy">>
    /\ EndsWith("crashed")

NextPlugin ==
    /\ main = "keys"
    /\ k > Len(Keys(names[n]))
    /\ n' = n + 1
    /\ main' = "load"
    /\ UNCHANGED <<line, left, command, names, k, concurrent, collects, calls, ssh_cfg, copaVars,
                   foremanVars>>

-----------------------------------------------------------------------------
(* main after the options *)

\* REQUIRE_PARAM of --concurrent, whose callback comes after plugin_opt_cb.
ConcurrentFails ==
    main = "load" /\ n > Len(names) /\ concurrent = "missing" /\ EndsWith("failed")

\* libdistexec_collect begins its loop.
BeginCollect ==
    /\ main = "load"
    /\ n > Len(names)
    /\ concurrent # "missing"
    /\ main' = "collect"
    /\ calls' = LL_EACH(collects)
    /\ UNCHANGED <<line, left, command, names, n, k, concurrent, collects, ssh_cfg, copaVars,
                   foremanVars>>

CallForeman ==
    /\ main = "collect"
    /\ foreman \in {"idle", "returned"}
    /\ calls # << >>
    /\ Head(calls) = ForemanCollect
    /\ collect
    /\ calls' = Tail(calls)
    /\ UNCHANGED <<line, main, left, command, names, n, k, concurrent, collects, ssh_cfg, copaVars>>

CallDummy ==
    /\ main = "collect"
    /\ foreman \in {"idle", "returned"}
    /\ calls # << >>
    /\ Head(calls) = DummyCollect
    /\ nodes' = nodes \o [m \in 1..10 |-> <<"server-", Digits[m]>>]
    /\ foreman' = "idle"
    /\ calls' = Tail(calls)
    /\ UNCHANGED <<line, main, left, command, names, n, k, concurrent, collects, ssh_cfg, copaVars,
                   pluginVars, transferVars, worldVars, observedVars>>

ForemanStep == main = "collect" /\ ForemanNext /\ UNCHANGED <<mainVars, copaVars>>
ServerStep == main = "collect" /\ ServerNext /\ UNCHANGED <<mainVars, copaVars>>

\* LIBDISTEXEC_ABORT exits, a crash ends the process.
CollectEnds ==
    main = "collect" /\ foreman \in {"aborted", "crashed"} /\ EndsWith(foreman)

AtCommand == main = "collect" /\ foreman \in {"idle", "returned"} /\ calls = << >>

\* "no command given"
NoCommand == AtCommand /\ command = << >> /\ EndsWith("aborted")

\* A blank and a word each, and the 0 at the end.
CommandLength == FoldLeft(LAMBDA len, w : len + 1 + w.dash + Len(w.text), 0, command) + 1

JoinCommand ==
    /\ AtCommand
    /\ command # << >>
    /\ EndsWith(IF CommandLength > COMMAND_SIZE THEN "overrun" ELSE "execute")

MainStep ==
    \/ ParseStep \/ ParserEnds
    \/ RequireFails \/ LogOptionFails \/ HelpOrVersion \/ CallbackFails
    \/ BeginPlugins \/ LoadPlugin \/ ParseForKey \/ SetKey \/ SetKeyToNull \/ NextPlugin
    \/ ConcurrentFails \/ BeginCollect \/ CallForeman \/ CallDummy
    \/ ForemanStep \/ CollectEnds \/ NoCommand \/ JoinCommand

-----------------------------------------------------------------------------
(* Properties *)

CommandLineTypeOK ==
    /\ CopaTypeOK
    /\ ForemanTypeOK
    /\ line \in Seq(Word)
    /\ main \in {"parse", "load", "keys", "key", "collect"} \union Ends
    /\ left \in Seq(Word)
    /\ command \in Seq(Word)
    /\ names \in Seq(Text)
    /\ n \in 1..(Len(names) + 1)
    /\ k \in Nat \ {0}
    /\ concurrent \in {"default", "given", "missing"}
    /\ \A c \in DOMAIN collects : collects[c] \in {NULL, ForemanCollect, DummyCollect}
    /\ \A c \in DOMAIN calls : calls[c] \in {ForemanCollect, DummyCollect}
    /\ \A key \in DOMAIN ssh_cfg : ssh_cfg[key] \in MaybeText

\* The words w up to the first "--".
BeforeDashes(w) ==
    LET ends == {m \in DOMAIN w : w[m] = DashDash}
    IN  IF ends = {} THEN w ELSE SubSeq(w, 1, Min(ends) - 1)

\* A word of w that stands behind the option, with only options that are not
\* the plugin's and their values in between.
Behind(w, option, text) ==
    \E a \in DOMAIN w :
        /\ w[a] = [dash |-> 2, text |-> option]
        /\ \E b \in DOMAIN w :
            /\ a < b
            /\ w[b] = [dash |-> 0, text |-> text]
            /\ \A m \in (a + 1)..(b - 1) :
                IsOption(w[m]) \/ (m > a + 1 /\ IsOption(w[m - 1]))

DirectlyBehind(w, option) ==
    \E a \in DOMAIN w :
        /\ w[a] = [dash |-> 2, text |-> option]
        /\ a < Len(w)
        /\ ~IsOption(w[a + 1])

ConfiguredFrom(config, default, plugin) ==
    LET words == BeforeDashes(line)
    IN  \A key \in DOMAIN config :
            /\ config[key] # default[key] => Behind(words, <<plugin, key>>, config[key])
            /\ (<<plugin, key>> \in ToSet(Keys(<<plugin>>)) /\ <<plugin>> \in ToSet(names)
                /\ DirectlyBehind(words, <<plugin, key>>)) =>
                    \E a \in DOMAIN words : words[a].text = config[key]

\* "supply config parameters" (main.c:111-112): when the nodes are collected a
\* plugin is configured with a word that stands behind its option, through
\* two parsers and the words the first one did not know; and a parameter with
\* a word directly behind its option is never left at its default.
ConfigFromLine ==
    main \in {"collect", "execute"} =>
        /\ ConfiguredFrom(cfg, Unconfigured, "foreman")
        /\ ConfiguredFrom(ssh_cfg, SshUnconfigured, "ssh")
===============================================================================
