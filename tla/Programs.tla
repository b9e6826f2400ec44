------------------------------- MODULE Programs -------------------------------
(***************************************************************************)
(* The three programs of the repository that start with a main: distexec   *)
(* up to libdistexec_execute, and the tests test-uri and test-popen3.      *)
(* They share code, not state: a behaviour is one run of one of them, and  *)
(* the variables of the others stay as they were.                          *)
(***************************************************************************)
EXTENDS CommandLine, UriUser, Popen3

CONSTANTS
    Lines,       \* [words, hosts]: the command lines, and which
                 \* hosts the server may have
    TestUris     \* what test-uri puts together

\* The hosts have different names, and no part of a test's uri holds a sign by which
\* parse finds its end.
ASSUME ProgramsAssumption ==
    /\ \A started \in Lines :
        /\ started.words \in Seq(Word)
        /\ \A served \in started.hosts :
            served \in Seq(Text) /\ IsInjective(served) /\ Len(served) < MaxPage
    /\ TestUris \subseteq
         [scheme : Without({":"}), hostname : Without({":", "/"}),
          port : Without({"/"}) \union {NoText}, path : Without({"?"}),
          get_params : {<< >>}]

VARIABLE program

vars == <<program, commandVars, uriVars, popenVars>>

\* The options on the line whose has_param main does not set, as it happens.
Mentioned(w) ==
    {name \in Unset :
        \E a \in DOMAIN w : \/ w[a].text = <<name>>
                            \/ w[a].dash = 1 /\ Options({})[OptionNumber(name)].short
                                                \in ToSet(w[a].text)}

Distexec ==
    /\ program = "distexec"
    /\ \E started \in Lines :
        /\ \E served \in started.hosts : ForemanInit(served)
        /\ \E unset \in SUBSET Mentioned(started.words) : MainInit(started.words, unset)
    /\ UriInit(uri_new)
    /\ PopenInit /\ answers = InScript

Idle ==
    /\ ForemanInit(<< >>)
    /\ MainInit(<< >>, {})

TestUri ==
    /\ program = "test-uri"
    /\ \E parts \in TestUris : UriInit(parts)
    /\ Idle
    /\ PopenInit /\ answers = InScript

TestPopen3 ==
    /\ program = "test-popen3"
    /\ PopenInit
    /\ Idle
    /\ UriInit(uri_new)

Init == Distexec \/ TestUri \/ TestPopen3

DistexecStep ==
    /\ program = "distexec"
    /\ MainStep
    /\ UNCHANGED <<program, uriVars, popenVars>>

AnswerStep ==
    /\ program = "distexec"
    /\ ServerStep
    /\ UNCHANGED <<program, uriVars, popenVars>>

UriStep ==
    /\ program = "test-uri"
    /\ UriNext
    /\ UNCHANGED <<program, commandVars, popenVars>>

PopenStep ==
    /\ program = "test-popen3"
    /\ PopenNext
    /\ UNCHANGED <<program, commandVars, uriVars>>

\* A program has ended, or waits for ever where Deadlocked says so.
Terminated ==
    /\ \/ program = "distexec" /\ main \in Ends
       \/ program = "test-uri" /\ test_uri # "params"
       \/ program = "test-popen3" /\ (PopenEnded \/ Deadlocked)
    /\ UNCHANGED vars

Next == DistexecStep \/ AnswerStep \/ UriStep \/ PopenStep \/ Terminated

(***************************************************************************)
(* Weak fairness of the process, and of a server that answers each request *)
(* in some way or breaks the connection: steps are taken until main ends.  *)
(* That one is possible until then is what checking for deadlocks shows;   *)
(* TLC would take long to find it out itself from ENABLED.                 *)
(***************************************************************************)
Fairness ==
    \/ program # "distexec"
    \/ []<><<DistexecStep \/ AnswerStep>>_vars
    \/ <>(main \in Ends)

FairSpec == Init /\ [][Next]_vars /\ Fairness

-----------------------------------------------------------------------------
(* Properties *)

TypeOK == CommandLineTypeOK /\ UriTypeOK /\ PopenTypeOK

\* The buffer that libdistexec_uri_build grows as it goes holds the text it
\* returns, but for one byte: a text that ends where the code takes the buffer's
\* end to be has its 0 written behind it (uri.c:174-186).  The uris are those of
\* the test and, when it was sent, the one of a request: a copy with the first page
\* (foreman.c:321-324), then baseuri itself (foreman.c:218-220).
OverrunByOne ==
    /\ program = "test-uri" => BuiltInto(uri).over <= 1
    /\ Waiting =>
        BuiltInto(IF foreman = "first" THEN add_get_param(baseuri, Page, Number(1))
                  ELSE baseuri).over <= 1

\* Whatever the command line, the plugins on it and the server, distexec comes
\* to the call of libdistexec_execute or ends: no parser, no walk over a list
\* and no loop over pages goes on for ever (copa.c:95, foreman.c:190-232).
DistexecEnds == program = "distexec" ~> main \in Ends
===============================================================================
