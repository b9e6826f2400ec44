--------------------------------- MODULE Ssh ---------------------------------
(***************************************************************************)
(* exec of src/src/plugins/ssh.c, run by one thread per node, and          *)
(* libdistexec_yield (src/src/distexec.c), through which the threads hand  *)
(* the nodes' output to the yield handlers.                                *)
(*                                                                         *)
(* The socket and libssh2 are outside: a call succeeds, fails, or says     *)
(* EAGAIN, after which the code waits for the socket and calls again; that *)
(* retry changes nothing and is a stuttering step.  The bytes a node sends *)
(* on a stream are numbered 1, 2, ...; a newline is a negative number.     *)
(***************************************************************************)
EXTENDS Integers, Sequences, FiniteSets, SequencesExt

CONSTANTS
    Nodes,        \* the nodes executed on at the same time
    Handlers,     \* how many yield handlers are registered
    MaxBytes,     \* bound on the bytes that all nodes together send
    BufferSize    \* sizeof(stdout_buffer), sizeof(stderr_buffer)

ASSUME SshAssumption ==
    /\ Nodes \subseteq Nat \ {0}
    /\ Handlers \in Nat
    /\ MaxBytes \in Nat
    /\ BufferSize \in Nat \ {0}

Streams == {0, 1}
NoNode == 0

VARIABLES
    pc,        \* thread -> where it is
    held,      \* thread -> what it has acquired and not released
    result,    \* thread -> what exec returns
    offered,   \* thread -> how many identities it has offered
    aborted,   \* LIBDISTEXEC_ABORT has ended the process
    \* the node's side of the channel
    sent,      \* thread -> stream -> bytes
    eof,       \* thread -> the command has ended
    broken,    \* thread -> the connection is lost
    \* the read loop
    stream,    \* thread -> the stream it reads
    taken,     \* thread -> stream -> how many bytes were read
    buffer,    \* thread -> bytes read since the last yield
    rc,        \* thread -> stream -> rc_out, rc_err
    \* libdistexec_yield
    yield_mutex,  \* the thread that holds it, or NoNode
    x,         \* thread -> the handler called next
    handled    \* handler -> the <<thread, stream, bytes>> it was given

sessionVars == <<held, result, offered>>
peerVars == <<sent, eof, broken>>
readVars == <<stream, taken, buffer, rc>>
yieldVars == <<yield_mutex, x, handled>>
vars == <<pc, sessionVars, aborted, peerVars, readVars, yieldVars>>

Resources == {"socket", "session", "knownhosts", "agent", "channel"}
Yielding == {"lock", "handle"}
Reading == {"read"} \union Yielding
Stopped == {"returned", "overrun"}

\* rc_out and rc_err before a turn, when their values do not matter.
Unread == [s \in Streams |-> "data"]

Init ==
    /\ pc = [t \in Nodes |-> "resolve"]
    /\ held = [t \in Nodes |-> {}]
    /\ result = [t \in Nodes |-> 0]
    /\ offered = [t \in Nodes |-> 0]
    /\ aborted = FALSE
    /\ sent = [t \in Nodes |-> [s \in Streams |-> << >>]]
    /\ eof = [t \in Nodes |-> FALSE]
    /\ broken = [t \in Nodes |-> FALSE]
    /\ stream = [t \in Nodes |-> 0]
    /\ taken = [t \in Nodes |-> [s \in Streams |-> 0]]
    /\ buffer = [t \in Nodes |-> << >>]
    /\ rc = [t \in Nodes |-> Unread]
    /\ yield_mutex = NoNode
    /\ x = [t \in Nodes |-> 1]
    /\ handled = [h \in 1..Handlers |-> << >>]

-----------------------------------------------------------------------------
(* The session: one action per call that can fail *)

Goes(t, from, to) ==
    /\ ~aborted
    /\ pc[t] = from
    /\ pc' = [pc EXCEPT ![t] = to]

\* The call succeeds and acquires or releases something.
Succeeds(t, from, to, now) ==
    /\ Goes(t, from, to)
    /\ held' = [held EXCEPT ![t] = now]
    /\ UNCHANGED <<result, offered, aborted, peerVars, readVars, yieldVars>>

\* The call fails and exec returns, having released only what is named.
Returns(t, from, code, released) ==
    /\ Goes(t, from, "returned")
    /\ result' = [result EXCEPT ![t] = code]
    /\ held' = [held EXCEPT ![t] = @ \ released]
    /\ UNCHANGED <<offered, aborted, peerVars, readVars, yieldVars>>

\* The call fails and the process ends, with all its threads.
Aborts(t, from) ==
    /\ ~aborted
    /\ pc[t] = from
    /\ aborted' = TRUE
    /\ UNCHANGED <<pc, sessionVars, peerVars, readVars, yieldVars>>

Resolve(t) ==
    \/ Succeeds(t, "resolve", "socket", held[t])
    \/ Returns(t, "resolve", -1, {})

Socket(t) ==
    \/ Succeeds(t, "socket", "connect", held[t] \union {"socket"})
    \/ Returns(t, "socket", -1, {})

Connect(t) ==
    \/ Succeeds(t, "connect", "session_init", held[t])
    \/ Returns(t, "connect", -1, {})

\* fcntl of the socket and of stdin, and libssh2_session_init.
SessionInit(t) ==
    \/ Succeeds(t, "session_init", "handshake", held[t] \union {"session"})
    \/ Aborts(t, "session_init")

Handshake(t) ==
    \/ Succeeds(t, "handshake", "knownhosts", held[t])
    \/ Returns(t, "handshake", -1, {"session"})

KnownHosts(t) ==
    \/ Succeeds(t, "knownhosts", "hostkey", held[t] \union {"knownhosts"})
    \/ Returns(t, "knownhosts", -2, {})

\* Whatever the look-up of the key says, the session goes on.
HostKey(t) ==
    \/ Succeeds(t, "hostkey", "agent", held[t] \ {"knownhosts"})
    \/ Returns(t, "hostkey", -3, {})

\* An unknown method, and an agent that cannot be reached, end the process.
Agent(t) ==
    \/ Succeeds(t, "agent", "identity", held[t] \union {"agent"})
    \/ Aborts(t, "agent")

\* libssh2_agent_get_identity: the first one, none at all, or a failure.
Identity(t) ==
    \/ Succeeds(t, "identity", "userauth", held[t])
    \/ Succeeds(t, "identity", "open", held[t])
    \/ Aborts(t, "identity")

\* Mutant: the next identity is tried when one is refused.
UserauthRetried(t) ==
    /\ \/ Goes(t, "userauth", "open")
       \/ offered[t] < 2 /\ Goes(t, "userauth", "identity")
    /\ offered' = [offered EXCEPT ![t] = @ + 1]
    /\ UNCHANGED <<held, result, aborted, peerVars, readVars, yieldVars>>

\* A refused identity ends exec; the loop over identities has no second turn.
Userauth(t) ==
    /\ offered' = [offered EXCEPT ![t] = @ + 1]
    /\ \/ /\ Goes(t, "userauth", "open")
          /\ UNCHANGED <<held, result>>
       \/ /\ Goes(t, "userauth", "returned")
          /\ result' = [result EXCEPT ![t] = -1]
          /\ held' = [held EXCEPT ![t] = @ \ {"agent"}]
    /\ UNCHANGED <<aborted, peerVars, readVars, yieldVars>>

OpenChannel(t) ==
    \/ Succeeds(t, "open", "exec", held[t] \union {"channel"})
    \/ Returns(t, "open", -1, {})

ChannelExec(t) ==
    \/ Succeeds(t, "exec", "read", held[t])
    \/ Aborts(t, "exec")

\* The result of closing the channel is not looked at, except for the log.
CloseChannel(t) == Succeeds(t, "close", "shutdown", held[t])

\* Mutant: the agent is taken to be released by the authentication.
ShutdownButAgent(t) ==
    Returns(t, "shutdown", 0, {"channel", "session", "socket"})

\* The label "shutdown".
Shutdown(t) ==
    Returns(t, "shutdown", 0, {"agent", "channel", "session", "socket"})

Session(t) ==
    \/ Resolve(t) \/ Socket(t) \/ Connect(t) \/ SessionInit(t)
    \/ Handshake(t) \/ KnownHosts(t) \/ HostKey(t)
    \/ Agent(t) \/ Identity(t) \/ Userauth(t)
    \/ OpenChannel(t) \/ ChannelExec(t) \/ CloseChannel(t) \/ Shutdown(t)

-----------------------------------------------------------------------------
(* The node's side of the channel *)

Remote(t) ==
    /\ ~aborted
    /\ pc[t] \in Reading
    /\ ~eof[t]
    /\ ~broken[t]
    /\ UNCHANGED <<pc, sessionVars, aborted, readVars, yieldVars>>

AllSent ==
    UNION {{<<u, r, k>> : k \in DOMAIN sent[u][r]} : u \in Nodes, r \in Streams}

Send(t, s) ==
    /\ Remote(t)
    /\ Cardinality(AllSent) < MaxBytes
    /\ \E b \in {Len(sent[t][s]) + 1, -(Len(sent[t][s]) + 1)} :
          sent' = [sent EXCEPT ![t][s] = Append(@, b)]
    /\ UNCHANGED <<eof, broken>>

Eof(t) ==
    /\ Remote(t)
    /\ eof' = [eof EXCEPT ![t] = TRUE]
    /\ UNCHANGED <<sent, broken>>

Break(t) ==
    /\ Remote(t)
    /\ broken' = [broken EXCEPT ![t] = TRUE]
    /\ UNCHANGED <<sent, eof>>

-----------------------------------------------------------------------------
(* The read loop *)

\* libssh2_channel_read gives one more byte of the stream.
Arrived(t, s) == taken[t][s] < Len(sent[t][s])
NextByte(t, s) == sent[t][s][taken[t][s] + 1]

\* What it says when there is none: a lost connection is told at once.
Nothing(t, s) ==
    IF broken[t] THEN {"error"}
    ELSE IF Arrived(t, s) THEN {}
    ELSE IF eof[t] THEN {"eof"} ELSE {"again"}

Reads(t) ==
    /\ ~aborted
    /\ pc[t] = "read"
    /\ UNCHANGED <<sessionVars, peerVars, yieldVars>>

ReadsByte(t) ==
    /\ Reads(t)
    /\ Arrived(t, stream[t])
    /\ taken' = [taken EXCEPT ![t][stream[t]] = @ + 1]
    /\ rc' = [rc EXCEPT ![t][stream[t]] = "data"]
    /\ UNCHANGED stream

\* The byte goes into the buffer while its index is below the buffer's size.
ReadByte(t) ==
    /\ ReadsByte(t)
    /\ NextByte(t, stream[t]) > 0
    /\ Len(buffer[t]) < BufferSize
    /\ buffer' = [buffer EXCEPT ![t] = Append(@, NextByte(t, stream[t]))]
    /\ UNCHANGED <<pc, aborted>>

\* "stdout buffer overflow!"
ReadTooMuch(t) ==
    /\ ReadsByte(t)
    /\ NextByte(t, stream[t]) > 0
    /\ Len(buffer[t]) >= BufferSize
    /\ aborted' = TRUE
    /\ UNCHANGED <<pc, buffer>>

\* The newline and the terminating 0 are written without a test.
ReadNewline(t) ==
    /\ ReadsByte(t)
    /\ NextByte(t, stream[t]) < 0
    /\ buffer' = [buffer EXCEPT ![t] = Append(@, NextByte(t, stream[t]))]
    /\ pc' = [pc EXCEPT ![t] = IF Len(buffer[t]) + 1 < BufferSize THEN "lock"
                               ELSE "overrun"]
    /\ UNCHANGED aborted

\* A line that has come in part is yielded as it is; 0 is written after it.
ReadNothing(t) ==
    /\ Reads(t)
    /\ buffer[t] # << >>
    /\ \E none \in Nothing(t, stream[t]) :
          rc' = [rc EXCEPT ![t][stream[t]] = none]
    /\ pc' = [pc EXCEPT ![t] = IF Len(buffer[t]) < BufferSize THEN "lock"
                               ELSE "overrun"]
    /\ UNCHANGED <<aborted, stream, taken, buffer>>

\* Mutant: the loop goes on only while both streams say EAGAIN.
ContinuesIfBoth(t, last) ==
    LET other == rc[t][1 - stream[t]]
    IN  \/ stream[t] = 0
        \/ "data" \in {last, other}
        \/ {last, other} = {"again"}

\* Mutant: the end of a stream is taken for EAGAIN.
ContinuesOnEof(t, last) ==
    LET other == rc[t][1 - stream[t]]
    IN  \/ stream[t] = 0
        \/ {"data", "again", "eof"} \intersect {last, other} # {}

(***************************************************************************)
(* After one stream comes the other.  After stderr the loops go on if one  *)
(* of them had data, or if one said EAGAIN, once the socket was waited for.*)
(***************************************************************************)
Continues(t, last) ==
    LET other == rc[t][1 - stream[t]]
    IN  \/ stream[t] = 0
        \/ "data" \in {last, other}
        \/ "again" \in {last, other}

NextStream(t, last) ==
    /\ stream' = [stream EXCEPT ![t] = 1 - @]
    /\ rc' = [rc EXCEPT ![t] = IF stream[t] = 0 THEN [@ EXCEPT ![0] = last]
                               ELSE Unread]
    /\ pc' = [pc EXCEPT ![t] = IF Continues(t, last) THEN "read" ELSE "close"]

ReadEmpty(t) ==
    /\ Reads(t)
    /\ buffer[t] = << >>
    /\ \E none \in Nothing(t, stream[t]) : NextStream(t, none)
    /\ UNCHANGED <<aborted, taken, buffer>>

Read(t) ==
    \/ ReadByte(t) \/ ReadTooMuch(t) \/ ReadNewline(t)
    \/ ReadNothing(t) \/ ReadEmpty(t)

-----------------------------------------------------------------------------
(* libdistexec_yield *)

\* Mutant: the handlers are called without the mutex.
YieldUnlocked(t) ==
    /\ Goes(t, "lock", "handle")
    /\ yield_mutex' = t
    /\ UNCHANGED <<x, handled, sessionVars, aborted, peerVars, readVars>>

YieldLock(t) ==
    /\ Goes(t, "lock", "handle")
    /\ yield_mutex = NoNode
    /\ yield_mutex' = t
    /\ UNCHANGED <<x, handled, sessionVars, aborted, peerVars, readVars>>

\* Mutant: one handler too many is called.
YieldCallPast(t) ==
    /\ Goes(t, "handle", "handle")
    /\ x[t] <= Handlers + 1
    /\ handled' = [h \in 1..Handlers |->
                    IF h = x[t] THEN Append(handled[h], <<t, stream[t], buffer[t]>>)
                    ELSE handled[h]]
    /\ x' = [x EXCEPT ![t] = @ + 1]
    /\ UNCHANGED <<yield_mutex, sessionVars, aborted, peerVars, readVars>>

YieldCall(t) ==
    /\ Goes(t, "handle", "handle")
    /\ x[t] <= Handlers
    /\ handled' = [handled EXCEPT ![x[t]] = Append(@, <<t, stream[t], buffer[t]>>)]
    /\ x' = [x EXCEPT ![t] = @ + 1]
    /\ UNCHANGED <<yield_mutex, sessionVars, aborted, peerVars, readVars>>

\* Mutant: the buffer's index is not reset.
YieldKeepsBuffer(t) ==
    /\ ~aborted
    /\ pc[t] = "handle"
    /\ x[t] > Handlers
    /\ yield_mutex' = NoNode
    /\ NextStream(t, rc[t][stream[t]])
    /\ x' = [x EXCEPT ![t] = 1]
    /\ UNCHANGED <<handled, sessionVars, aborted, peerVars, taken, buffer>>

\* The unlock and the return to the read loop, which empties its buffer.
YieldUnlock(t) ==
    /\ ~aborted
    /\ pc[t] = "handle"
    /\ x[t] > Handlers
    /\ yield_mutex' = NoNode
    /\ buffer' = [buffer EXCEPT ![t] = << >>]
    /\ NextStream(t, rc[t][stream[t]])
    /\ x' = [x EXCEPT ![t] = 1]
    /\ UNCHANGED <<handled, sessionVars, aborted, peerVars, taken>>

Yield(t) == YieldLock(t) \/ YieldCall(t) \/ YieldUnlock(t)

-----------------------------------------------------------------------------

Exec(t) == Session(t) \/ Read(t) \/ Yield(t)

Terminated ==
    /\ aborted \/ \A t \in Nodes : pc[t] \in Stopped
    /\ UNCHANGED vars

Next ==
    \/ \E t \in Nodes :
          \/ Exec(t)
          \/ \E s \in Streams : Send(t, s)
          \/ Eof(t) \/ Break(t)
    \/ Terminated

Spec == Init /\ [][Next]_vars

(***************************************************************************)
(* Threads run, and a call of libssh2 does not say EAGAIN for ever while   *)
(* it could say something else.  The node's command need not end.  A node  *)
(* sends finitely much, so weak fairness gets a thread the yield mutex.    *)
(***************************************************************************)
FairSpec == Spec /\ \A t \in Nodes : WF_vars(Exec(t))
-----------------------------------------------------------------------------
(* Properties *)

\* Every variable keeps its type: ssh.c:144-547 and distexec.c:184-193.
TypeOK ==
    /\ pc \in [Nodes -> {"resolve", "socket", "connect", "session_init",
                         "handshake", "knownhosts", "hostkey", "agent",
                         "identity", "userauth", "open", "exec", "close",
                         "shutdown"} \union Reading \union Stopped]
    /\ held \in [Nodes -> SUBSET Resources]
    /\ result \in [Nodes -> {0, -1, -2, -3}]
    /\ offered \in [Nodes -> Nat]
    /\ aborted \in BOOLEAN
    /\ sent \in [Nodes -> [Streams -> Seq(Int)]]
    /\ eof \in [Nodes -> BOOLEAN]
    /\ broken \in [Nodes -> BOOLEAN]
    /\ stream \in [Nodes -> Streams]
    /\ \A t \in Nodes, s \in Streams : taken[t][s] \in 0..Len(sent[t][s])
    /\ buffer \in [Nodes -> Seq(Int)]
    /\ \A t \in Nodes : pc[t] # "overrun" => Len(buffer[t]) <= BufferSize
    /\ rc \in [Nodes -> [Streams -> {"data", "eof", "again", "error"}]]
    /\ yield_mutex \in Nodes \union {NoNode}
    /\ x \in [Nodes -> 1..(Handlers + 1)]
    /\ handled \in [1..Handlers -> Seq(Nodes \X Streams \X Seq(Int))]

\* All that a handler was given of a node's stream, in that order.
Given(h, t, s) ==
    FlattenSeq([k \in DOMAIN handled[h] |->
        IF handled[h][k][1] = t /\ handled[h][k][2] = s THEN handled[h][k][3]
        ELSE << >>])

\* The two streams, the pieces they come in and the other nodes' output do
\* not disturb the order of a stream's bytes, none comes twice, and no byte
\* gets into the other stream (ssh.c:409-499).
InOrder ==
    \A h \in 1..Handlers, t \in Nodes, s \in Streams :
        IsPrefix(Given(h, t, s), sent[t][s])

\* When exec returns 0 without having lost the connection, every byte of
\* both streams was handed to every handler, whichever stream ended first
\* and whatever was still under way at that time (ssh.c:500-507).
CompleteAtEnd ==
    \A t \in Nodes :
        pc[t] = "returned" /\ result[t] = 0 /\ ~broken[t] =>
            \A h \in 1..Handlers, s \in Streams : Given(h, t, s) = sent[t][s]

\* All handlers are given the same pieces in the same order, though several
\* nodes yield at the same time (distexec.c:186-191).
HandlersAgree ==
    \A g, h \in 1..Handlers :
        g < h => /\ IsPrefix(handled[h], handled[g])
                 /\ Len(handled[g]) <= Len(handled[h]) + 1

\* When exec returns 0 everything it has acquired is released, also if the
\* agent had no identity and the session went on without (ssh.c:524-545).
ReleasedOnSuccess ==
    \A t \in Nodes : pc[t] = "returned" /\ result[t] = 0 => held[t] = {}

\* The agent's first identity is the only one that is offered, although it
\* is taken in a loop over all of them (ssh.c:327-365).
OneIdentityOffered == \A t \in Nodes : offered[t] <= 1

\* Once the node's command has ended or the connection is lost, the thread
\* leaves the read loop and ends (ssh.c:500-507).
EndsAfterEof ==
    \A t \in Nodes :
        (pc[t] \in Reading /\ (eof[t] \/ broken[t])) ~>
            (pc[t] \in Stopped \/ aborted)

\* "stdout buffer overflow!": the process ends before the read loop writes
\* behind its buffer.
InBuffer == \A t \in Nodes : pc[t] # "overrun"
===============================================================================
