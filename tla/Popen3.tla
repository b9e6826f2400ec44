-------------------------------- MODULE Popen3 --------------------------------
(***************************************************************************)
(* libdistexec_popen3 of src/src/popen3.c with the two that use it in      *)
(* src/src/tests: the process test-popen3 and its child, the script        *)
(* test-popen3.sh.  A pipe is the sequence of what was written and not     *)
(* read; a line stands for itself, and the 0 that sizeof adds to it is     *)
(* "nul".  The script answers what it reads first with one line; a script  *)
(* that answered with two is there to compare.                             *)
(***************************************************************************)
EXTENDS Naturals, Sequences, Functions

VARIABLES
    answers,       \* the lines the script echoes before it reads again
    test,          \* where the parent is, or how it ended
    child,         \* where the child is
    in, out, err   \* the pipes

pipeVars == <<in, out, err>>
popenVars == <<answers, test, child, pipeVars>>

\* test-popen3.sh:3
InScript == 1

PopenInit ==
    /\ answers \in {InScript, 2}
    /\ test = "popen"
    /\ child = "none"
    /\ in = << >>
    /\ out = << >>
    /\ err = << >>

TestEnded == test \in {"aborted", "killed", "passed"}
ChildEnded == child = "ended"

-----------------------------------------------------------------------------
(* libdistexec_popen3 *)

\* pipe() or fork() fails.
PopenFails ==
    /\ test = "popen"
    /\ test' = "aborted"
    /\ UNCHANGED <<answers, child, pipeVars>>

Fork ==
    /\ test = "popen"
    /\ test' = "write 1"
    /\ child' = "exec"
    /\ UNCHANGED <<answers, pipeVars>>

Exec ==
    /\ child = "exec"
    /\ child' = "read 1"
    /\ UNCHANGED <<answers, test, pipeVars>>

\* The message goes to the pipe that dup2 made the child's stderr.
ExecFails ==
    /\ child = "exec"
    /\ child' = "ended"
    /\ err' = IF TestEnded THEN err ELSE Append(err, "error")
    /\ UNCHANGED <<answers, test, in, out>>

-----------------------------------------------------------------------------
(* The parent *)

\* fdopen fails.
FdopenFails ==
    /\ test = "write 1"
    /\ test' = "aborted"
    /\ UNCHANGED <<answers, child, pipeVars>>

\* A write without a reader is a SIGPIPE.
Writes(from, line, to) ==
    /\ test = from
    /\ IF ChildEnded THEN test' = "killed" /\ in' = in
       ELSE test' = to /\ in' = in \o <<line, "nul">>
    /\ UNCHANGED <<answers, child, out, err>>

\* Mutant: fgets returns although nothing came.
ReadsAtOnce(pipe) == TRUE

\* fgets returns with a line, or at the end when nobody can write any more.
HasLine(pipe) == pipe # << >> \/ ChildEnded

AfterLine(pipe) == IF pipe = << >> THEN << >> ELSE Tail(pipe)

ReadsOut(from, to) ==
    /\ test = from
    /\ HasLine(out)
    /\ test' = to
    /\ out' = AfterLine(out)
    /\ UNCHANGED <<answers, child, in, err>>

Write1 == Writes("write 1", "this is a test", "r1")
ReadR1 == ReadsOut("r1", "r2")
ReadR2 == ReadsOut("r2", "write 2")
Write2 == Writes("write 2", "teststr1", "r3")
ReadR3 == ReadsOut("r3", "stderr")

ReadErr ==
    /\ test = "stderr"
    /\ HasLine(err)
    /\ test' = "wait"
    /\ err' = AfterLine(err)
    /\ UNCHANGED <<answers, child, in, out>>

\* libdistexec_waitpid, return 0
Wait ==
    /\ test = "wait"
    /\ ChildEnded
    /\ test' = "passed"
    /\ UNCHANGED <<answers, child, pipeVars>>

-----------------------------------------------------------------------------
(* The script *)

\* read takes a line; without a writer it takes what there is.
ScriptReads(from, to) ==
    /\ child = from
    /\ \E line \in DOMAIN in :
        /\ in[line] # "nul"
        /\ \A m \in 1..(line - 1) : in[m] = "nul"
        /\ in' = SubSeq(in, line + 1, Len(in))
    /\ child' = to
    /\ UNCHANGED <<answers, test, out, err>>

\* The parent has ended: what the script writes kills it.
OrphanEnds ==
    /\ TestEnded
    /\ child \notin {"none", "exec", "ended"}
    /\ child' = "ended"
    /\ UNCHANGED <<answers, test, pipeVars>>

ReadLine == ScriptReads("read 1", "echo 1")

Echo1 ==
    /\ child = "echo 1"
    /\ out' = out \o [line \in 1..answers |-> "r1"]
    /\ child' = "echo err"
    /\ UNCHANGED <<answers, test, in, err>>

EchoErr ==
    /\ child = "echo err"
    /\ err' = Append(err, "stderr error")
    /\ child' = "read 2"
    /\ UNCHANGED <<answers, test, in, out>>

ReadSecond == ScriptReads("read 2", "echo 2")

Echo2 ==
    /\ child = "echo 2"
    /\ out' = Append(out, "r3")
    /\ child' = "ended"
    /\ UNCHANGED <<answers, test, in, err>>

TestNext ==
    \/ PopenFails \/ Fork \/ FdopenFails
    \/ Write1 \/ ReadR1 \/ ReadR2 \/ Write2 \/ ReadR3 \/ ReadErr \/ Wait
ChildNext ==
    \/ Exec \/ ExecFails \/ OrphanEnds
    \/ ReadLine \/ Echo1 \/ EchoErr \/ ReadSecond \/ Echo2

PopenNext == TestNext \/ ChildNext

PopenSpec == PopenInit /\ [][PopenNext]_popenVars

-----------------------------------------------------------------------------
(* Properties *)

PopenTypeOK ==
    /\ answers \in {InScript, 2}
    /\ test \in {"popen", "write 1", "r1", "r2", "write 2", "r3", "stderr", "wait",
                 "aborted", "killed", "passed"}
    /\ child \in {"none", "exec", "read 1", "echo 1", "echo err", "read 2", "echo 2",
                  "ended"}
    /\ in \in Seq({"this is a test", "teststr1", "nul"})
    /\ out \in Seq({"r1", "r3"})
    /\ err \in Seq({"error", "stderr error"})

\* The test cannot come to its "return 0" (test-popen3.c:71) with the script it
\* runs: it waits for a second line (line 56) before it writes what the script
\* waits for (test-popen3.sh:5), and when the script could not be started its
\* second write kills it.
NeverPasses == test = "passed" => answers # InScript

\* Both wait for each other.
Deadlocked == test = "r2" /\ child = "read 2" /\ out = << >> /\ "teststr1" \notin Range(in)

PopenEnded == TestEnded /\ child \in {"none", "ended"}
===============================================================================
