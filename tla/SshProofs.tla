------------------------------ MODULE SshProofs ------------------------------
(***************************************************************************)
(* Theorems about Ssh, for every set of nodes, number of handlers, amount  *)
(* of output and size of the line buffer.                                  *)
(***************************************************************************)
EXTENDS Ssh, Induction

Locations == {"resolve", "socket", "connect", "session_init", "handshake",
              "knownhosts", "hostkey", "agent", "identity", "userauth", "open",
              "exec", "close", "shutdown"} \union Reading \union Stopped
Answers == {"data", "eof", "again", "error"}

\* TypeOK in the parts that a step changes or leaves alone.
SessionTypes ==
    /\ pc \in [Nodes -> Locations]
    /\ held \in [Nodes -> SUBSET Resources]
    /\ result \in [Nodes -> {0, -1, -2, -3}]
    /\ offered \in [Nodes -> Nat]
    /\ aborted \in BOOLEAN

\* TypeOK says of the elements of taken what they are, not where they are.
StreamTypes ==
    /\ sent \in [Nodes -> [Streams -> Seq(Int)]]
    /\ taken \in [Nodes -> [Streams -> Nat]]
    /\ \A t \in Nodes, s \in Streams : taken[t][s] \in 0..Len(sent[t][s])
    /\ eof \in [Nodes -> BOOLEAN]
    /\ broken \in [Nodes -> BOOLEAN]

RcTypes ==
    /\ stream \in [Nodes -> Streams]
    /\ rc \in [Nodes -> [Streams -> Answers]]

BufferTypes ==
    /\ buffer \in [Nodes -> Seq(Int)]
    /\ \A t \in Nodes : pc[t] # "overrun" => Len(buffer[t]) <= BufferSize

YieldTypes ==
    /\ yield_mutex \in Nodes \union {NoNode}
    /\ x \in [Nodes -> 1..(Handlers + 1)]
    /\ handled \in [1..Handlers -> Seq(Nodes \X Streams \X Seq(Int))]

TypeInv == SessionTypes /\ StreamTypes /\ RcTypes /\ BufferTypes /\ YieldTypes

LEMMA TypeInvIsTypeOK == TypeInv => TypeOK
  BY DEF TypeInv, TypeOK, SessionTypes, StreamTypes, RcTypes, BufferTypes, YieldTypes,
         Locations, Answers

\* A part of which nothing changes.
LEMMA Untouched ==
    /\ StreamTypes /\ UNCHANGED <<peerVars, taken>> => StreamTypes'
    /\ RcTypes /\ UNCHANGED <<stream, rc>> => RcTypes'
    /\ YieldTypes /\ UNCHANGED yieldVars => YieldTypes'
<1>1. StreamTypes /\ UNCHANGED <<peerVars, taken>> => StreamTypes'
  BY DEF StreamTypes, peerVars
<1>2. RcTypes /\ UNCHANGED <<stream, rc>> => RcTypes'
  BY DEF RcTypes
<1>3. YieldTypes /\ UNCHANGED yieldVars => YieldTypes'
  BY DEF YieldTypes, yieldVars
<1>. QED
  BY <1>1, <1>2, <1>3

\* The buffer stays, and a thread that has overrun it does not go on.
LEMMA BufferUntouched ==
    ASSUME BufferTypes, SessionTypes, NEW t \in Nodes, NEW to,
           pc[t] # "overrun", pc' = [pc EXCEPT ![t] = to], UNCHANGED buffer
    PROVE  BufferTypes'
  BY DEF BufferTypes, SessionTypes

-----------------------------------------------------------------------------
(* Types *)

LEMMA TypesInit == Init => TypeInv
<1>. SUFFICES ASSUME Init PROVE TypeInv
  OBVIOUS
<1>1. /\ << >> \in Seq(Int) /\ Len(<< >>) = 0
      /\ << >> \in Seq(Nodes \X Streams \X Seq(Int))
  OBVIOUS
<1>2. BufferSize \in Nat /\ Handlers \in Nat
  BY SshAssumption
<1>3. SessionTypes
  BY DEF Init, SessionTypes, Locations
<1>4. StreamTypes
  BY <1>1 DEF Init, StreamTypes, Streams
<1>5. RcTypes
  BY DEF Init, RcTypes, Streams, Answers, Unread
<1>6. BufferTypes
  BY <1>1, <1>2 DEF Init, BufferTypes
<1>7. YieldTypes
  BY <1>1, <1>2 DEF Init, YieldTypes
<1>. QED
  BY <1>3, <1>4, <1>5, <1>6, <1>7 DEF TypeInv

\* The steps of a session: nothing of the read loop changes.
LEMMA TypesSession ==
    ASSUME TypeInv, NEW t \in Nodes, Session(t)
    PROVE  TypeInv'
<1>. USE DEF TypeInv
<1>1. ASSUME NEW from, from # "overrun", NEW to \in Locations,
             NEW now \in SUBSET Resources, Succeeds(t, from, to, now)
      PROVE  TypeInv'
  <2>1. SessionTypes'
    BY <1>1 DEF SessionTypes, Succeeds, Goes
  <2>2. BufferTypes'
    BY <1>1, BufferUntouched DEF Succeeds, Goes, readVars
  <2>. QED
    BY <1>1, <2>1, <2>2, Untouched DEF Succeeds, readVars
<1>2. ASSUME NEW from, from # "overrun", NEW code \in {0, -1, -2, -3}, NEW released,
             Returns(t, from, code, released)
      PROVE  TypeInv'
  <2>1. SessionTypes'
    BY <1>2 DEF SessionTypes, Locations, Stopped, Returns, Goes
  <2>2. BufferTypes'
    BY <1>2, BufferUntouched DEF Returns, Goes, readVars
  <2>. QED
    BY <1>2, <2>1, <2>2, Untouched DEF Returns, readVars
<1>3. ASSUME NEW from, Aborts(t, from)
      PROVE  TypeInv'
  <2>1. SessionTypes' /\ BufferTypes'
    BY <1>3 DEF SessionTypes, BufferTypes, Aborts, sessionVars, readVars
  <2>. QED
    BY <1>3, <2>1, Untouched DEF Aborts, readVars
<1>4. CASE Userauth(t)
  <2>1. PICK to \in {"open", "returned"} : Goes(t, "userauth", to)
    BY <1>4 DEF Userauth
  <2>2. held' \in [Nodes -> SUBSET Resources] /\ result' \in [Nodes -> {0, -1, -2, -3}]
    BY <1>4 DEF Userauth, SessionTypes
  <2>3. pc' \in [Nodes -> Locations]
    BY <2>1 DEF SessionTypes, Goes, Locations, Stopped
  <2>4. offered' \in [Nodes -> Nat] /\ UNCHANGED aborted
    BY <1>4 DEF Userauth, SessionTypes
  <2>5. SessionTypes'
    BY <2>2, <2>3, <2>4 DEF SessionTypes
  <2>6. BufferTypes'
    BY <1>4, <2>1, BufferUntouched DEF Userauth, Goes, readVars
  <2>. QED
    BY <1>4, <2>5, <2>6, Untouched DEF Userauth, readVars
<1>5. held[t] \in SUBSET Resources
  BY DEF SessionTypes
<1>. USE DEF Resources, Locations, Reading
<1>6. CASE Resolve(t) \/ Socket(t) \/ Connect(t)
  BY <1>1, <1>2, <1>5, <1>6 DEF Resolve, Socket, Connect
<1>7. CASE SessionInit(t) \/ Handshake(t)
  BY <1>1, <1>2, <1>3, <1>5, <1>7 DEF SessionInit, Handshake
<1>8. CASE KnownHosts(t) \/ HostKey(t)
  BY <1>1, <1>2, <1>5, <1>8 DEF KnownHosts, HostKey
<1>9. CASE Agent(t) \/ Identity(t)
  BY <1>1, <1>3, <1>5, <1>9 DEF Agent, Identity
<1>10. CASE OpenChannel(t) \/ ChannelExec(t)
  BY <1>1, <1>2, <1>3, <1>5, <1>10 DEF OpenChannel, ChannelExec
<1>11. CASE CloseChannel(t) \/ Shutdown(t)
  BY <1>1, <1>2, <1>5, <1>11 DEF CloseChannel, Shutdown
<1>. QED
  BY <1>4, <1>6, <1>7, <1>8, <1>9, <1>10, <1>11 DEF Session

\* The node's steps only make what was sent longer.
LEMMA TypesRemote ==
    ASSUME TypeInv, NEW t \in Nodes,
           (\E s \in Streams : Send(t, s)) \/ Eof(t) \/ Break(t)
    PROVE  TypeInv'
<1>1. SessionTypes' /\ RcTypes' /\ BufferTypes' /\ YieldTypes' /\ UNCHANGED taken
  <2>1. Remote(t)
    BY DEF Send, Eof, Break
  <2>2. UNCHANGED <<pc, sessionVars, aborted, readVars, yieldVars>>
    BY <2>1 DEF Remote
  <2>. QED
    BY <2>2, Untouched DEF TypeInv, SessionTypes, BufferTypes, sessionVars, readVars
<1>2. CASE \E s \in Streams : Send(t, s)
  <2>1. PICK s \in Streams : Send(t, s)
    BY <1>2
  <2>2. sent[t][s] \in Seq(Int) /\ sent \in [Nodes -> [Streams -> Seq(Int)]]
    BY DEF TypeInv, StreamTypes
  <2>3. PICK b \in Int : sent' = [sent EXCEPT ![t][s] = Append(@, b)]
    <3>1. Len(sent[t][s]) + 1 \in Int /\ -(Len(sent[t][s]) + 1) \in Int
      BY <2>2
    <3>2. \E b \in {Len(sent[t][s]) + 1, -(Len(sent[t][s]) + 1)} :
              sent' = [sent EXCEPT ![t][s] = Append(@, b)]
      BY <2>1 DEF Send
    <3>. QED
      BY <3>1, <3>2
  <2>4. sent' \in [Nodes -> [Streams -> Seq(Int)]]
    BY <2>2, <2>3
  <2>5. ASSUME NEW u \in Nodes, NEW r \in Streams
        PROVE  taken[u][r] \in 0..Len(sent'[u][r])
    <3>1. taken[u][r] \in 0..Len(sent[u][r]) /\ Len(sent[u][r]) \in Nat
      BY DEF TypeInv, StreamTypes
    <3>2. CASE u = t /\ r = s
      <4>1. sent'[u][r] = Append(sent[t][s], b)
        BY <2>2, <2>3, <3>2
      <4>2. Len(sent'[u][r]) = Len(sent[u][r]) + 1
        BY <2>2, <3>2, <4>1
      <4>. QED
        BY <3>1, <4>2
    <3>3. CASE ~(u = t /\ r = s)
      BY <2>2, <2>3, <3>1, <3>3
    <3>. QED
      BY <3>2, <3>3
  <2>6. StreamTypes'
    BY <1>1, <2>1, <2>4, <2>5 DEF TypeInv, StreamTypes, Send
  <2>. QED
    BY <1>1, <2>6 DEF TypeInv
<1>3. CASE Eof(t) \/ Break(t)
  BY <1>1, <1>3 DEF TypeInv, StreamTypes, Eof, Break
<1>. QED
  BY <1>2, <1>3

LEMMA TypesNextStream ==
    ASSUME TypeInv, NEW t \in Nodes, NEW last \in Answers, NextStream(t, last)
    PROVE  /\ RcTypes'
           /\ \E to \in {"read", "close"} : pc' = [pc EXCEPT ![t] = to]
<1>1. stream \in [Nodes -> Streams] /\ rc \in [Nodes -> [Streams -> Answers]]
  BY DEF TypeInv, RcTypes
<1>2. stream' \in [Nodes -> Streams]
  BY <1>1 DEF NextStream, Streams
<1>3. Unread \in [Streams -> Answers]
  BY DEF Unread, Answers
<1>4. rc' \in [Nodes -> [Streams -> Answers]]
  <2>1. CASE stream[t] = 0
    BY <1>1, <2>1 DEF NextStream, Streams
  <2>2. CASE stream[t] # 0
    BY <1>1, <1>3, <2>2 DEF NextStream
  <2>. QED
    BY <2>1, <2>2
<1>. QED
  BY <1>2, <1>4 DEF NextStream, RcTypes

\* A byte is taken from a stream.
LEMMA TypesByte ==
    ASSUME TypeInv, NEW t \in Nodes, ReadsByte(t)
    PROVE  StreamTypes' /\ RcTypes' /\ YieldTypes' /\ NextByte(t, stream[t]) \in Int
<1>1. /\ stream[t] \in Streams
      /\ taken[t][stream[t]] \in Nat
      /\ taken[t][stream[t]] < Len(sent[t][stream[t]])
      /\ sent[t][stream[t]] \in Seq(Int)
  BY DEF TypeInv, StreamTypes, RcTypes, ReadsByte, Arrived
<1>2. NextByte(t, stream[t]) \in Int
  <2>1. taken[t][stream[t]] + 1 \in 1..Len(sent[t][stream[t]])
    BY <1>1
  <2>. QED
    BY <1>1, <2>1, ElementOfSeq DEF NextByte
<1>3. taken' \in [Nodes -> [Streams -> Nat]]
  BY <1>1 DEF TypeInv, StreamTypes, ReadsByte
<1>4. ASSUME NEW u \in Nodes, NEW s \in Streams
      PROVE  taken'[u][s] \in 0..Len(sent[u][s])
  <2>1. taken[u][s] \in 0..Len(sent[u][s]) /\ Len(sent[u][s]) \in Nat
    BY DEF TypeInv, StreamTypes
  <2>2. CASE u = t /\ s = stream[t]
    <3>1. taken'[u][s] = taken[t][stream[t]] + 1
      BY <1>1, <2>2 DEF TypeInv, StreamTypes, ReadsByte
    <3>. QED
      BY <1>1, <2>1, <2>2, <3>1
  <2>3. CASE ~(u = t /\ s = stream[t])
    <3>1. taken'[u][s] = taken[u][s]
      BY <1>1, <2>3 DEF TypeInv, StreamTypes, ReadsByte
    <3>. QED
      BY <2>1, <3>1
  <2>. QED
    BY <2>2, <2>3
<1>5. StreamTypes'
  BY <1>3, <1>4 DEF TypeInv, StreamTypes, ReadsByte, Reads, peerVars
<1>6. RcTypes'
  BY <1>1 DEF TypeInv, RcTypes, ReadsByte, Answers
<1>7. YieldTypes'
  BY Untouched DEF TypeInv, ReadsByte, Reads
<1>. QED
  BY <1>2, <1>5, <1>6, <1>7

\* A byte is put into the buffer, which has room or is overrun.
LEMMA TypesAppend ==
    ASSUME TypeInv, NEW t \in Nodes, NEW b \in Int, NEW to,
           pc[t] # "overrun",
           buffer' = [buffer EXCEPT ![t] = Append(@, b)],
           pc' = [pc EXCEPT ![t] = to],
           to # "overrun" => Len(buffer[t]) < BufferSize
    PROVE  BufferTypes'
<1>1. buffer[t] \in Seq(Int) /\ Len(buffer[t]) \in Nat /\ BufferSize \in Nat
  BY SshAssumption DEF TypeInv, BufferTypes
<1>2. buffer' \in [Nodes -> Seq(Int)]
  BY <1>1 DEF TypeInv, BufferTypes
<1>3. buffer'[t] = Append(buffer[t], b) /\ pc'[t] = to
  BY DEF TypeInv, BufferTypes, SessionTypes
<1>4. Len(buffer'[t]) = Len(buffer[t]) + 1
  BY <1>1, <1>3
<1>5. \A u \in Nodes : u # t => buffer'[u] = buffer[u] /\ pc'[u] = pc[u]
  BY DEF TypeInv, BufferTypes, SessionTypes
<1>. QED
  BY <1>1, <1>2, <1>3, <1>4, <1>5 DEF TypeInv, BufferTypes

\* The read loop.
LEMMA TypesRead ==
    ASSUME TypeInv, NEW t \in Nodes, Read(t)
    PROVE  TypeInv'
<1>1. /\ Len(buffer[t]) \in Nat /\ BufferSize \in Nat
      /\ pc \in [Nodes -> Locations]
  BY SshAssumption DEF TypeInv, BufferTypes, SessionTypes
<1>2. pc[t] = "read" /\ UNCHANGED <<sessionVars, peerVars, yieldVars>>
  BY DEF Read, ReadByte, ReadTooMuch, ReadNewline, ReadNothing, ReadEmpty, ReadsByte, Reads
<1>3. ASSUME NEW to \in Locations, pc' = [pc EXCEPT ![t] = to], UNCHANGED aborted
      PROVE  SessionTypes'
  BY <1>2, <1>3 DEF TypeInv, SessionTypes, sessionVars
<1>4. CASE ReadByte(t)
  <2>1. /\ ReadsByte(t) /\ UNCHANGED <<pc, aborted>> /\ Len(buffer[t]) < BufferSize
        /\ buffer' = [buffer EXCEPT ![t] = Append(@, NextByte(t, stream[t]))]
    BY <1>4 DEF ReadByte
  <2>2. pc' = [pc EXCEPT ![t] = "read"]
    BY <1>1, <1>2, <2>1
  <2>3. BufferTypes'
    BY <1>2, <2>1, <2>2, TypesAppend, TypesByte
  <2>4. SessionTypes'
    BY <1>3, <2>1, <2>2 DEF Locations, Reading
  <2>. QED
    BY <2>1, <2>3, <2>4, TypesByte DEF TypeInv
<1>5. CASE ReadTooMuch(t)
  <2>1. ReadsByte(t) /\ aborted' = TRUE /\ UNCHANGED <<pc, buffer>>
    BY <1>5 DEF ReadTooMuch
  <2>2. SessionTypes' /\ BufferTypes'
    BY <1>2, <2>1 DEF TypeInv, SessionTypes, BufferTypes, sessionVars
  <2>. QED
    BY <2>1, <2>2, TypesByte DEF TypeInv
<1>6. CASE ReadNewline(t)
  <2>1. /\ ReadsByte(t) /\ UNCHANGED aborted
        /\ buffer' = [buffer EXCEPT ![t] = Append(@, NextByte(t, stream[t]))]
    BY <1>6 DEF ReadNewline
  <2>2. PICK to \in {"lock", "overrun"} :
            /\ pc' = [pc EXCEPT ![t] = to]
            /\ to # "overrun" => Len(buffer[t]) < BufferSize
    <3>1. CASE Len(buffer[t]) + 1 < BufferSize
      <4>1. Len(buffer[t]) < BufferSize
        BY <1>1, <3>1
      <4>. QED
        BY <1>6, <3>1, <4>1 DEF ReadNewline
    <3>2. CASE ~(Len(buffer[t]) + 1 < BufferSize)
      BY <1>6, <3>2 DEF ReadNewline
    <3>. QED
      BY <3>1, <3>2
  <2>3. BufferTypes'
    BY <1>2, <2>1, <2>2, TypesAppend, TypesByte
  <2>4. SessionTypes'
    BY <1>3, <2>1, <2>2 DEF Locations, Reading, Yielding, Stopped
  <2>. QED
    BY <2>1, <2>3, <2>4, TypesByte DEF TypeInv
<1>7. CASE ReadNothing(t)
  <2>1. PICK none \in Answers : rc' = [rc EXCEPT ![t][stream[t]] = none]
    BY <1>7 DEF ReadNothing, Nothing, Answers
  <2>2. RcTypes'
    BY <1>7, <2>1 DEF TypeInv, RcTypes, ReadNothing
  <2>3. PICK to \in {"lock", "overrun"} : pc' = [pc EXCEPT ![t] = to]
    BY <1>7 DEF ReadNothing
  <2>4. SessionTypes'
    BY <1>3, <1>7, <2>3 DEF ReadNothing, Locations, Reading, Yielding, Stopped
  <2>5. BufferTypes'
    BY <1>2, <1>7, <2>3, BufferUntouched DEF TypeInv, ReadNothing
  <2>. QED
    BY <1>2, <1>7, <2>2, <2>4, <2>5, Untouched DEF TypeInv, ReadNothing
<1>8. CASE ReadEmpty(t)
  <2>1. PICK none \in Answers : NextStream(t, none)
    BY <1>8 DEF ReadEmpty, Nothing, Answers
  <2>2. PICK to \in {"read", "close"} : pc' = [pc EXCEPT ![t] = to]
    BY <2>1, TypesNextStream
  <2>3. RcTypes'
    BY <2>1, TypesNextStream
  <2>4. SessionTypes'
    BY <1>3, <1>8, <2>2 DEF ReadEmpty, Locations, Reading
  <2>5. BufferTypes'
    BY <1>2, <1>8, <2>2, BufferUntouched DEF TypeInv, ReadEmpty
  <2>. QED
    BY <1>2, <1>8, <2>3, <2>4, <2>5, Untouched DEF TypeInv, ReadEmpty
<1>. QED
  BY <1>4, <1>5, <1>6, <1>7, <1>8 DEF Read

\* libdistexec_yield.
LEMMA TypesYield ==
    ASSUME TypeInv, NEW t \in Nodes, Yield(t)
    PROVE  TypeInv'
<1>. USE DEF Locations, Reading, Yielding
<1>1. CASE YieldLock(t)
  <2>1. SessionTypes' /\ YieldTypes'
    BY <1>1 DEF TypeInv, SessionTypes, YieldTypes, YieldLock, Goes, sessionVars
  <2>2. BufferTypes'
    BY <1>1, BufferUntouched DEF TypeInv, YieldLock, Goes, readVars
  <2>. QED
    BY <1>1, <2>1, <2>2, Untouched DEF TypeInv, YieldLock, readVars
<1>2. CASE YieldCall(t)
  <2>1. Handlers \in Nat /\ x[t] \in 1..Handlers
    BY <1>2, SshAssumption DEF TypeInv, YieldTypes, YieldCall
  <2>2. x' \in [Nodes -> 1..(Handlers + 1)]
    BY <1>2, <2>1 DEF TypeInv, YieldTypes, YieldCall
  <2>3. <<t, stream[t], buffer[t]>> \in Nodes \X Streams \X Seq(Int)
    BY DEF TypeInv, RcTypes, BufferTypes
  <2>4. handled' \in [1..Handlers -> Seq(Nodes \X Streams \X Seq(Int))]
    <3>1. /\ handled \in [1..Handlers -> Seq(Nodes \X Streams \X Seq(Int))]
          /\ handled' = [handled EXCEPT ![x[t]] =
                            Append(@, <<t, stream[t], buffer[t]>>)]
      BY <1>2 DEF TypeInv, YieldTypes, YieldCall
    <3>2. Append(handled[x[t]], <<t, stream[t], buffer[t]>>)
            \in Seq(Nodes \X Streams \X Seq(Int))
      <4>1. handled[x[t]] \in Seq(Nodes \X Streams \X Seq(Int))
        BY <2>1, <3>1
      <4>. QED
        BY <2>3, <4>1, AppendProperties
    <3>. QED
      BY <2>1, <3>1, <3>2
  <2>5. YieldTypes'
    BY <1>2, <2>2, <2>4 DEF TypeInv, YieldTypes, YieldCall
  <2>6. SessionTypes' /\ BufferTypes'
    BY <1>2 DEF TypeInv, SessionTypes, BufferTypes, YieldCall, Goes, sessionVars, readVars
  <2>. QED
    BY <1>2, <2>5, <2>6, Untouched DEF TypeInv, YieldCall, readVars
<1>3. CASE YieldUnlock(t)
  <2>1. rc[t][stream[t]] \in Answers
    BY DEF TypeInv, RcTypes
  <2>2. PICK to \in {"read", "close"} : pc' = [pc EXCEPT ![t] = to]
    BY <1>3, <2>1, TypesNextStream DEF YieldUnlock
  <2>3. RcTypes'
    BY <1>3, <2>1, TypesNextStream DEF YieldUnlock
  <2>4. SessionTypes'
    BY <1>3, <2>2 DEF TypeInv, SessionTypes, YieldUnlock, sessionVars
  <2>5. 1 \in 1..(Handlers + 1) /\ BufferSize \in Nat
    BY SshAssumption
  <2>6. << >> \in Seq(Int) /\ Len(<< >>) = 0
    OBVIOUS
  <2>7. BufferTypes'
    BY <1>3, <2>2, <2>5, <2>6 DEF TypeInv, BufferTypes, SessionTypes, YieldUnlock
  <2>8. YieldTypes'
    BY <1>3, <2>5 DEF TypeInv, YieldTypes, YieldUnlock
  <2>. QED
    BY <1>3, <2>3, <2>4, <2>7, <2>8, Untouched DEF TypeInv, YieldUnlock
<1>. QED
  BY <1>1, <1>2, <1>3 DEF Yield

LEMMA TypesNext == TypeInv /\ [Next]_vars => TypeInv'
<1>. SUFFICES ASSUME TypeInv, [Next]_vars PROVE TypeInv'
  OBVIOUS
<1>1. ASSUME NEW t \in Nodes, Exec(t) PROVE TypeInv'
  BY <1>1, TypesSession, TypesRead, TypesYield DEF Exec
<1>2. CASE UNCHANGED vars
  BY <1>2, Untouched
  DEF TypeInv, SessionTypes, BufferTypes, vars, sessionVars, readVars
<1>. QED
  BY <1>1, <1>2, TypesRemote DEF Next, Terminated

\* Every variable keeps its type: a thread fills its buffer up to its size
\* before it overruns it, and never takes more than was sent.
THEOREM Typing == Spec => []TypeOK
  BY TypesInit, TypesNext, TypeInvIsTypeOK, PTL DEF Spec

-----------------------------------------------------------------------------
(* What a session holds *)

Unauthenticated == {"resolve", "socket", "connect", "session_init", "handshake",
                    "knownhosts", "hostkey", "agent", "identity", "userauth"}

\* What may be held at p.  From the agent's connection to the shutdown nothing
\* is held that the shutdown does not release.
May(p) ==
    {"socket", "session"}
        \union (IF p = "hostkey" THEN {"knownhosts"}
                ELSE IF p \in Unauthenticated \ {"identity", "userauth"} THEN {}
                ELSE {"agent", "channel"})

HeldInv ==
    \A t \in Nodes :
        /\ pc[t] \notin Stopped => held[t] \subseteq May(pc[t])
        /\ pc[t] = "returned" /\ result[t] = 0 => held[t] = {}

OfferedInv ==
    \A t \in Nodes :
        /\ offered[t] \in {0, 1}
        /\ pc[t] \in Unauthenticated => offered[t] = 0

SessionInv == SessionTypes /\ HeldInv /\ OfferedInv

LEMMA SessionInit0 == Init => SessionInv
  BY TypesInit DEF Init, TypeInv, SessionInv, HeldInv, OfferedInv, Stopped

\* The steps outside the session keep a thread where nothing more is held.
LEMMA SessionElsewhere ==
    ASSUME SessionInv, SessionTypes', UNCHANGED sessionVars,
           \/ UNCHANGED pc
           \/ \E t \in Nodes : \E to \in Reading \union {"close", "overrun"} :
                 pc[t] \in Reading /\ pc' = [pc EXCEPT ![t] = to]
    PROVE  SessionInv'
<1>1. CASE UNCHANGED pc
  BY <1>1 DEF SessionInv, SessionTypes, HeldInv, OfferedInv, sessionVars
<1>2. CASE \E t \in Nodes : \E to \in Reading \union {"close", "overrun"} :
               pc[t] \in Reading /\ pc' = [pc EXCEPT ![t] = to]
  <2>1. PICK t \in Nodes, to \in Reading \union {"close", "overrun"} :
            pc[t] \in Reading /\ pc' = [pc EXCEPT ![t] = to]
    BY <1>2
  <2>2. /\ pc'[t] = to
        /\ \A u \in Nodes : u # t => pc'[u] = pc[u]
    BY <2>1 DEF SessionInv, SessionTypes
  <2>3. UNCHANGED <<held, result, offered>>
    BY DEF sessionVars
  <2>4. /\ pc[t] \notin Stopped /\ to # "returned"
        /\ to \notin Unauthenticated /\ May(pc[t]) = May(to)
    BY <2>1 DEF Reading, Yielding, Stopped, May, Unauthenticated
  <2>5. HeldInv'
    <3>1. held[t] \subseteq May(to)
      BY <2>4 DEF SessionInv, HeldInv
    <3>. QED
      BY <2>2, <2>3, <2>4, <3>1 DEF SessionInv, HeldInv
  <2>6. OfferedInv'
    BY <2>2, <2>3, <2>4 DEF SessionInv, OfferedInv
  <2>. QED
    BY <2>5, <2>6 DEF SessionInv
<1>. QED
  BY <1>1, <1>2

\* A step of the session goes on, returns, or ends the process.
LEMMA SessionSteps ==
    ASSUME SessionInv, SessionTypes', NEW t \in Nodes, Session(t)
    PROVE  SessionInv'
<1>. USE DEF SessionInv
<1>1. ASSUME NEW from, from \notin Stopped, NEW to, to \notin Stopped, NEW now,
             held[t] \subseteq May(from) => now \subseteq May(to),
             to \in Unauthenticated => from \in Unauthenticated,
             Succeeds(t, from, to, now)
      PROVE  HeldInv' /\ OfferedInv'
  <2>1. /\ pc[t] = from /\ pc'[t] = to /\ held'[t] = now
        /\ UNCHANGED <<result, offered>>
        /\ \A u \in Nodes : u # t => pc'[u] = pc[u] /\ held'[u] = held[u]
    BY <1>1 DEF SessionTypes, Succeeds, Goes
  <2>2. held'[t] \subseteq May(to)
    BY <1>1, <2>1 DEF HeldInv
  <2>3. HeldInv'
    BY <1>1, <2>1, <2>2 DEF HeldInv, Stopped
  <2>4. OfferedInv'
    BY <1>1, <2>1 DEF OfferedInv
  <2>. QED
    BY <2>3, <2>4
<1>2. ASSUME NEW from, NEW code, NEW released,
             code = 0 => held[t] \ released = {},
             Returns(t, from, code, released)
      PROVE  HeldInv' /\ OfferedInv'
  <2>1. /\ pc[t] = from /\ pc'[t] = "returned" /\ result'[t] = code
        /\ held'[t] = held[t] \ released
        /\ UNCHANGED offered
        /\ \A u \in Nodes :
              u # t => pc'[u] = pc[u] /\ held'[u] = held[u] /\ result'[u] = result[u]
    BY <1>2 DEF SessionTypes, Returns, Goes
  <2>2. HeldInv'
    BY <1>2, <2>1 DEF HeldInv, Stopped
  <2>3. OfferedInv'
    BY <2>1 DEF OfferedInv, Unauthenticated
  <2>. QED
    BY <2>2, <2>3
<1>3. ASSUME NEW from, Aborts(t, from)
      PROVE  HeldInv' /\ OfferedInv'
  BY <1>3 DEF HeldInv, OfferedInv, Aborts, sessionVars
<1>4. CASE Resolve(t)
  BY <1>1, <1>2, <1>4 DEF Resolve, May, Unauthenticated, Stopped
<1>5. CASE Socket(t)
  BY <1>1, <1>2, <1>5 DEF Socket, May, Unauthenticated, Stopped
<1>6. CASE Connect(t)
  BY <1>1, <1>2, <1>6 DEF Connect, May, Unauthenticated, Stopped
<1>7. CASE SessionInit(t)
  BY <1>1, <1>3, <1>7 DEF SessionInit, May, Unauthenticated, Stopped
<1>8. CASE Handshake(t)
  BY <1>1, <1>2, <1>8 DEF Handshake, May, Unauthenticated, Stopped
<1>9. CASE KnownHosts(t)
  BY <1>1, <1>2, <1>9 DEF KnownHosts, May, Unauthenticated, Stopped
<1>10. CASE HostKey(t)
  BY <1>1, <1>2, <1>10 DEF HostKey, May, Unauthenticated, Stopped
<1>11. CASE Agent(t)
  BY <1>1, <1>3, <1>11 DEF Agent, May, Unauthenticated, Stopped
<1>12. CASE Identity(t)
  BY <1>1, <1>3, <1>12 DEF Identity, May, Unauthenticated, Stopped
<1>13. CASE OpenChannel(t)
  BY <1>1, <1>2, <1>13 DEF OpenChannel, May, Unauthenticated, Stopped
<1>14. CASE ChannelExec(t)
  BY <1>1, <1>3, <1>14 DEF ChannelExec, May, Unauthenticated, Stopped, Reading
<1>15. CASE CloseChannel(t)
  BY <1>1, <1>15 DEF CloseChannel, May, Unauthenticated, Stopped
<1>16. CASE Userauth(t)
  <2>1. /\ pc[t] = "userauth" /\ offered[t] = 0 /\ offered'[t] = 1
        /\ pc'[t] \in {"open", "returned"}
        /\ pc'[t] = "open" => UNCHANGED <<held, result>>
        /\ pc'[t] = "returned" => result'[t] = -1
    BY <1>16 DEF SessionTypes, OfferedInv, Unauthenticated, Userauth, Goes
  <2>2. \A u \in Nodes : u # t => /\ pc'[u] = pc[u] /\ held'[u] = held[u]
                                  /\ result'[u] = result[u] /\ offered'[u] = offered[u]
    BY <1>16 DEF SessionTypes, Userauth, Goes
  <2>3. held[t] \subseteq May("open")
    BY <2>1 DEF HeldInv, May, Unauthenticated, Stopped
  <2>4. HeldInv'
    BY <2>1, <2>2, <2>3 DEF HeldInv, Stopped
  <2>5. OfferedInv'
    BY <2>1, <2>2 DEF OfferedInv, Unauthenticated
  <2>. QED
    BY <2>4, <2>5
<1>17. CASE Shutdown(t)
  <2>1. pc[t] = "shutdown"
    BY <1>17 DEF Shutdown, Returns, Goes
  <2>2. held[t] \ {"agent", "channel", "session", "socket"} = {}
    BY <2>1 DEF HeldInv, May, Unauthenticated, Stopped
  <2>. QED
    BY <1>2, <1>17, <2>2 DEF Shutdown
<1>. QED
  BY <1>4, <1>5, <1>6, <1>7, <1>8, <1>9, <1>10, <1>11,
     <1>12, <1>13, <1>14, <1>15, <1>16, <1>17 DEF Session

\* The read loop and libdistexec_yield stay away from what the session holds.
LEMMA LoopAndSession ==
    ASSUME TypeInv, NEW t \in Nodes, Read(t) \/ Yield(t)
    PROVE  /\ UNCHANGED sessionVars
           /\ \/ UNCHANGED pc
              \/ \E to \in Reading \union {"close", "overrun"} :
                    pc[t] \in Reading /\ pc' = [pc EXCEPT ![t] = to]
<1>. USE DEF Reading, Yielding
<1>1. CASE ReadByte(t) \/ ReadTooMuch(t)
  BY <1>1 DEF ReadByte, ReadTooMuch, ReadsByte, Reads
<1>2. CASE ReadNewline(t) \/ ReadNothing(t)
  BY <1>2 DEF ReadNewline, ReadNothing, ReadsByte, Reads
<1>3. CASE ReadEmpty(t)
  BY <1>3 DEF ReadEmpty, Reads, NextStream
<1>4. CASE YieldLock(t) \/ YieldCall(t)
  BY <1>4 DEF YieldLock, YieldCall, Goes, TypeInv, SessionTypes
<1>5. CASE YieldUnlock(t)
  BY <1>5 DEF YieldUnlock, NextStream
<1>. QED
  BY <1>1, <1>2, <1>3, <1>4, <1>5 DEF Read, Yield

LEMMA SessionNext == TypeInv /\ SessionInv /\ [Next]_vars => SessionInv'
<1>. SUFFICES ASSUME TypeInv, SessionInv, [Next]_vars PROVE SessionInv'
  OBVIOUS
<1>1. SessionTypes'
  BY TypesNext DEF TypeInv
<1>2. ASSUME NEW t \in Nodes, Session(t) PROVE SessionInv'
  BY <1>1, <1>2, SessionSteps
<1>3. ASSUME NEW t \in Nodes, Read(t) \/ Yield(t) PROVE SessionInv'
  BY <1>1, <1>3, LoopAndSession, SessionElsewhere
<1>4. ASSUME NEW t \in Nodes, (\E s \in Streams : Send(t, s)) \/ Eof(t) \/ Break(t)
      PROVE  SessionInv'
  <2>1. Remote(t)
    BY <1>4 DEF Send, Eof, Break
  <2>. QED
    BY <1>1, <2>1, SessionElsewhere DEF Remote
<1>5. CASE UNCHANGED vars
  BY <1>1, <1>5, SessionElsewhere DEF vars
<1>. QED
  BY <1>2, <1>3, <1>4, <1>5 DEF Next, Exec, Terminated

\* When exec returns 0 it has released all that it acquired, on the way with an
\* identity and on the one without; each failing return has a code below 0.
THEOREM ReleasedAtEnd == Spec => []ReleasedOnSuccess
<1>1. SessionInv => ReleasedOnSuccess
  BY DEF SessionInv, HeldInv, ReleasedOnSuccess
<1>. QED
  BY <1>1, TypesInit, TypesNext, SessionInit0, SessionNext, PTL DEF Spec

\* The identity that was refused is the last one: no step leads back to the
\* choice of an identity.
THEOREM OfferedOnce == Spec => []OneIdentityOffered
<1>1. SessionInv => OneIdentityOffered
  BY DEF SessionInv, OfferedInv, OneIdentityOffered
<1>. QED
  BY <1>1, TypesInit, TypesNext, SessionInit0, SessionNext, PTL DEF Spec

-----------------------------------------------------------------------------
(* The yield handlers *)

Piece(t) == <<t, stream[t], buffer[t]>>

\* The holder of the mutex is the thread that calls handlers.  The handlers
\* before x[t] have its piece and the others do not yet; without a holder all
\* have the same.
YieldInv ==
    /\ \A t \in Nodes : (pc[t] = "handle") <=> (yield_mutex = t)
    /\ \A t \in Nodes : pc[t] # "handle" => x[t] = 1
    /\ yield_mutex = NoNode =>
          \A g, h \in 1..Handlers : handled[g] = handled[h]
    /\ \A t \in Nodes : yield_mutex = t =>
          \A g, h \in 1..Handlers :
              /\ (g < x[t]) <=> (h < x[t]) => handled[g] = handled[h]
              /\ g < x[t] /\ x[t] <= h => handled[g] = Append(handled[h], Piece(t))

LEMMA YieldInit == Init => YieldInv
<1>. SUFFICES ASSUME Init PROVE YieldInv
  OBVIOUS
<1>1. \A t \in Nodes : t # NoNode
  BY SshAssumption DEF NoNode
<1>. QED
  BY <1>1 DEF Init, YieldInv

\* No handler is called, the mutex is not touched, and the piece that is being
\* handed over stays.
LEMMA YieldElsewhere ==
    ASSUME TypeInv, YieldInv, UNCHANGED yieldVars,
           \A t \in Nodes : (pc'[t] = "handle") <=> (pc[t] = "handle"),
           \A t \in Nodes :
               pc[t] = "handle" => stream'[t] = stream[t] /\ buffer'[t] = buffer[t]
    PROVE  YieldInv'
<1>1. \A t \in Nodes : yield_mutex = t => Piece(t)' = Piece(t)
  BY DEF YieldInv, Piece
<1>. QED
  BY <1>1 DEF YieldInv, yieldVars

\* The steps of a session touch nothing of the transfer.
LEMMA SessionQuiet ==
    ASSUME NEW t \in Nodes, Session(t)
    PROVE  ~aborted /\ UNCHANGED <<yieldVars, readVars, peerVars>>
<1>1. ASSUME NEW from, NEW to, NEW now, Succeeds(t, from, to, now)
      PROVE  ~aborted /\ UNCHANGED <<yieldVars, readVars, peerVars>>
  BY <1>1 DEF Succeeds, Goes
<1>2. ASSUME NEW from, NEW code, NEW released, Returns(t, from, code, released)
      PROVE  ~aborted /\ UNCHANGED <<yieldVars, readVars, peerVars>>
  BY <1>2 DEF Returns, Goes
<1>3. ASSUME NEW from, Aborts(t, from)
      PROVE  ~aborted /\ UNCHANGED <<yieldVars, readVars, peerVars>>
  BY <1>3 DEF Aborts
<1>4. CASE Userauth(t)
  BY <1>4 DEF Userauth, Goes
<1>. QED
  BY <1>1, <1>2, <1>3, <1>4
  DEF Session, Resolve, Socket, Connect, SessionInit, Handshake, KnownHosts, HostKey,
      Agent, Identity, OpenChannel, ChannelExec, CloseChannel, Shutdown

LEMMA SessionAndYield ==
    ASSUME TypeInv, YieldInv, NEW t \in Nodes, Session(t)
    PROVE  YieldInv'
<1>1. UNCHANGED <<yieldVars, readVars>>
  BY SessionQuiet
<1>2. \/ UNCHANGED pc
      \/ \E to : pc[t] # "handle" /\ to # "handle" /\ pc' = [pc EXCEPT ![t] = to]
  <2>1. ASSUME NEW from, from # "handle", NEW to, to # "handle", NEW now,
               Succeeds(t, from, to, now)
        PROVE  \E q : pc[t] # "handle" /\ q # "handle" /\ pc' = [pc EXCEPT ![t] = q]
    BY <2>1 DEF Succeeds, Goes
  <2>2. ASSUME NEW from, from # "handle", NEW code, NEW released,
               Returns(t, from, code, released)
        PROVE  \E q : pc[t] # "handle" /\ q # "handle" /\ pc' = [pc EXCEPT ![t] = q]
    BY <2>2 DEF Returns, Goes
  <2>3. ASSUME NEW from, Aborts(t, from)
        PROVE  UNCHANGED pc
    BY <2>3 DEF Aborts
  <2>4. CASE Userauth(t)
    BY <2>4 DEF Userauth, Goes
  <2>5. CASE Resolve(t) \/ Socket(t) \/ Connect(t) \/ SessionInit(t) \/ Handshake(t)
    BY <2>1, <2>2, <2>3, <2>5 DEF Resolve, Socket, Connect, SessionInit, Handshake
  <2>6. CASE KnownHosts(t) \/ HostKey(t) \/ Agent(t) \/ Identity(t)
    BY <2>1, <2>2, <2>3, <2>6 DEF KnownHosts, HostKey, Agent, Identity
  <2>7. CASE OpenChannel(t) \/ ChannelExec(t) \/ CloseChannel(t) \/ Shutdown(t)
    BY <2>1, <2>2, <2>3, <2>7 DEF OpenChannel, ChannelExec, CloseChannel, Shutdown
  <2>. QED
    BY <2>4, <2>5, <2>6, <2>7 DEF Session
<1>3. \A u \in Nodes : (pc'[u] = "handle") <=> (pc[u] = "handle")
  BY <1>2 DEF TypeInv, SessionTypes
<1>. QED
  BY <1>1, <1>3, YieldElsewhere DEF readVars

LEMMA ReadAndYield ==
    ASSUME TypeInv, YieldInv, NEW t \in Nodes, Read(t)
    PROVE  YieldInv'
<1>1. pc[t] = "read" /\ UNCHANGED yieldVars
  BY DEF Read, ReadByte, ReadTooMuch, ReadNewline, ReadNothing, ReadEmpty, ReadsByte, Reads
<1>2. UNCHANGED pc \/ \E to : to # "handle" /\ pc' = [pc EXCEPT ![t] = to]
  <2>1. CASE ReadByte(t) \/ ReadTooMuch(t)
    BY <2>1 DEF ReadByte, ReadTooMuch
  <2>2. CASE ReadNewline(t) \/ ReadNothing(t)
    BY <2>2 DEF ReadNewline, ReadNothing
  <2>3. CASE ReadEmpty(t)
    BY <2>3 DEF ReadEmpty, NextStream
  <2>. QED
    BY <2>1, <2>2, <2>3 DEF Read
<1>3. \A u \in Nodes : u # t => stream'[u] = stream[u] /\ buffer'[u] = buffer[u]
  <2>1. CASE ReadByte(t) \/ ReadNewline(t)
    BY <2>1 DEF ReadByte, ReadNewline, ReadsByte, TypeInv, BufferTypes
  <2>2. CASE ReadTooMuch(t) \/ ReadNothing(t)
    BY <2>2 DEF ReadTooMuch, ReadsByte, ReadNothing
  <2>3. CASE ReadEmpty(t)
    BY <2>3 DEF ReadEmpty, NextStream, TypeInv, RcTypes
  <2>. QED
    BY <2>1, <2>2, <2>3 DEF Read
<1>4. \A u \in Nodes : (pc'[u] = "handle") <=> (pc[u] = "handle")
  BY <1>1, <1>2 DEF TypeInv, SessionTypes
<1>. QED
  BY <1>1, <1>3, <1>4, YieldElsewhere

LEMMA LockAndYield ==
    ASSUME TypeInv, YieldInv, NEW t \in Nodes, YieldLock(t)
    PROVE  YieldInv'
<1>1. /\ pc[t] = "lock" /\ pc' = [pc EXCEPT ![t] = "handle"]
      /\ yield_mutex = NoNode /\ yield_mutex' = t
      /\ UNCHANGED <<x, handled, stream, buffer>>
  BY DEF YieldLock, Goes, readVars
<1>2. t # NoNode /\ \A u \in Nodes : u # NoNode
  BY SshAssumption DEF NoNode
<1>3. \A u \in Nodes : pc[u] # "handle"
  BY <1>1, <1>2 DEF YieldInv
<1>4. pc'[t] = "handle" /\ \A u \in Nodes : u # t => pc'[u] = pc[u]
  BY <1>1 DEF TypeInv, SessionTypes
<1>5. \A u \in Nodes : (pc'[u] = "handle") <=> (yield_mutex' = u)
  BY <1>1, <1>3, <1>4
<1>6. \A u \in Nodes : x'[u] = 1
  BY <1>1, <1>3 DEF YieldInv
<1>7. \A g, h \in 1..Handlers : handled'[g] = handled'[h] /\ ~(g < 1)
  BY <1>1, SshAssumption DEF YieldInv
<1>. QED
  BY <1>1, <1>2, <1>5, <1>6, <1>7 DEF YieldInv

LEMMA CallAndYield ==
    ASSUME TypeInv, YieldInv, NEW t \in Nodes, YieldCall(t)
    PROVE  YieldInv'
<1>1. /\ pc[t] = "handle" /\ UNCHANGED pc
      /\ yield_mutex = t /\ yield_mutex' = t
      /\ x[t] \in 1..Handlers
      /\ Handlers \in Nat
      /\ UNCHANGED <<stream, buffer>>
  <2>1. pc[t] = "handle" /\ pc' = [pc EXCEPT ![t] = "handle"]
    BY DEF YieldCall, Goes
  <2>2. UNCHANGED pc
    BY <2>1 DEF TypeInv, SessionTypes
  <2>. QED
    BY <2>1, <2>2, SshAssumption DEF YieldCall, YieldInv, TypeInv, YieldTypes, readVars
<1>2. x'[t] = x[t] + 1 /\ \A u \in Nodes : u # t => x'[u] = x[u]
  BY DEF YieldCall, TypeInv, YieldTypes
<1>3. /\ handled'[x[t]] = Append(handled[x[t]], Piece(t))
      /\ \A h \in 1..Handlers : h # x[t] => handled'[h] = handled[h]
  BY <1>1 DEF YieldCall, TypeInv, YieldTypes, Piece
<1>4. Piece(t)' = Piece(t) /\ t # NoNode
  BY <1>1, SshAssumption DEF Piece, NoNode
<1>5. ASSUME NEW g \in 1..Handlers, NEW h \in 1..Handlers
      PROVE  /\ (g < x[t] + 1) <=> (h < x[t] + 1) => handled'[g] = handled'[h]
             /\ g < x[t] + 1 /\ x[t] + 1 <= h => handled'[g] = Append(handled'[h], Piece(t))
  <2>1. ASSUME NEW c \in 1..Handlers, NEW d \in 1..Handlers
        PROVE  /\ (c < x[t]) <=> (d < x[t]) => handled[c] = handled[d]
               /\ c < x[t] /\ x[t] <= d => handled[c] = Append(handled[d], Piece(t))
    BY <1>1 DEF YieldInv
  <2>2. ASSUME NEW c \in 1..Handlers, c <= x[t]
        PROVE  handled'[c] = Append(handled[x[t]], Piece(t))
    <3>1. CASE c = x[t]
      BY <1>3, <3>1
    <3>2. CASE c # x[t]
      <4>1. c < x[t] /\ x[t] <= x[t]
        BY <1>1, <2>2, <3>2
      <4>. QED
        BY <1>1, <1>3, <2>1, <3>2, <4>1
    <3>. QED
      BY <3>1, <3>2
  <2>3. ASSUME NEW c \in 1..Handlers, ~(c <= x[t])
        PROVE  handled'[c] = handled[x[t]]
    <3>1. c # x[t] /\ ~(c < x[t]) /\ ~(x[t] < x[t])
      BY <1>1, <2>3
    <3>. QED
      BY <1>1, <1>3, <2>1, <3>1
  <2>4. /\ (g < x[t] + 1) <=> (g <= x[t])
        /\ (h < x[t] + 1) <=> (h <= x[t])
        /\ x[t] + 1 <= h => ~(h <= x[t])
    BY <1>1
  <2>5. CASE g <= x[t] /\ h <= x[t]
    <3>0. handled'[g] = Append(handled[x[t]], Piece(t))
      BY <2>2, <2>5
    <3>1. handled'[g] = handled'[h] /\ ~(x[t] + 1 <= h)
      BY <2>2, <2>4, <2>5, <3>0
    <3>. QED
      BY <3>1
  <2>6. CASE g <= x[t] /\ ~(h <= x[t])
    <3>1. handled'[g] = Append(handled'[h], Piece(t))
      BY <2>2, <2>3, <2>6
    <3>2. g < x[t] + 1 /\ ~(h < x[t] + 1)
      BY <2>4, <2>6
    <3>. QED
      BY <3>1, <3>2
  <2>7. CASE ~(g <= x[t]) /\ h <= x[t]
    <3>1. ~(g < x[t] + 1) /\ h < x[t] + 1
      BY <2>4, <2>7
    <3>. QED
      BY <3>1
  <2>8. CASE ~(g <= x[t]) /\ ~(h <= x[t])
    <3>1. handled'[g] = handled'[h] /\ ~(g < x[t] + 1)
      BY <2>3, <2>4, <2>8
    <3>. QED
      BY <3>1
  <2>. QED
    BY <2>5, <2>6, <2>7, <2>8
<1>6. \A u \in Nodes : yield_mutex' = u => u = t
  BY <1>1
<1>7. \A u \in Nodes : pc'[u] # "handle" => x'[u] = 1
  BY <1>1, <1>2 DEF YieldInv
<1>8. \A u \in Nodes : (pc'[u] = "handle") <=> (yield_mutex' = u)
  BY <1>1 DEF YieldInv
<1>9. yield_mutex' # NoNode
  BY <1>1, <1>4
<1>. QED
  BY <1>2, <1>4, <1>5, <1>6, <1>7, <1>8, <1>9 DEF YieldInv

LEMMA UnlockAndYield ==
    ASSUME TypeInv, YieldInv, NEW t \in Nodes, YieldUnlock(t)
    PROVE  YieldInv'
<1>1. /\ pc[t] = "handle" /\ yield_mutex = t
      /\ x[t] = Handlers + 1 /\ Handlers \in Nat
      /\ yield_mutex' = NoNode /\ UNCHANGED handled
      /\ x' = [x EXCEPT ![t] = 1]
  BY SshAssumption DEF YieldUnlock, YieldInv, TypeInv, YieldTypes
<1>2. PICK to \in {"read", "close"} : pc' = [pc EXCEPT ![t] = to]
  BY DEF YieldUnlock, NextStream
<1>3. /\ pc'[t] # "handle" /\ x'[t] = 1
      /\ \A u \in Nodes : u # t => pc'[u] = pc[u] /\ x'[u] = x[u]
  BY <1>1, <1>2 DEF TypeInv, SessionTypes, YieldTypes
<1>4. \A u \in Nodes : pc'[u] # "handle" /\ x'[u] = 1
  BY <1>1, <1>3 DEF YieldInv
<1>5. ASSUME NEW g \in 1..Handlers, NEW h \in 1..Handlers
      PROVE  handled[g] = handled[h]
  <2>1. g < x[t] /\ h < x[t]
    BY <1>1
  <2>. QED
    BY <1>1, <2>1 DEF YieldInv
<1>6. \A u \in Nodes : u # NoNode
  BY SshAssumption DEF NoNode
<1>. QED
  BY <1>1, <1>4, <1>5, <1>6 DEF YieldInv

LEMMA YieldNext == TypeInv /\ YieldInv /\ [Next]_vars => YieldInv'
<1>. SUFFICES ASSUME TypeInv, YieldInv, [Next]_vars PROVE YieldInv'
  OBVIOUS
<1>1. ASSUME NEW t \in Nodes, Exec(t) PROVE YieldInv'
  BY <1>1, SessionAndYield, ReadAndYield, LockAndYield, CallAndYield, UnlockAndYield
  DEF Exec, Yield
<1>2. ASSUME NEW t \in Nodes, (\E s \in Streams : Send(t, s)) \/ Eof(t) \/ Break(t)
      PROVE  YieldInv'
  <2>1. Remote(t)
    BY <1>2 DEF Send, Eof, Break
  <2>. QED
    BY <2>1, YieldElsewhere DEF Remote, readVars
<1>3. CASE UNCHANGED vars
  BY <1>3, YieldElsewhere DEF vars, readVars
<1>. QED
  BY <1>1, <1>2, <1>3 DEF Next, Terminated

LEMMA YieldInvImplies == TypeInv /\ YieldInv => HandlersAgree
<1>. SUFFICES ASSUME TypeInv, YieldInv, NEW g \in 1..Handlers, NEW h \in 1..Handlers, g < h
              PROVE  /\ IsPrefix(handled[h], handled[g])
                     /\ Len(handled[g]) <= Len(handled[h]) + 1
  BY DEF HandlersAgree
<1>. DEFINE Pieces == Nodes \X Streams \X Seq(Int)
<1>1. handled[g] \in Seq(Pieces) /\ handled[h] \in Seq(Pieces)
  BY DEF TypeInv, YieldTypes
<1>2. \/ handled[g] = handled[h]
      \/ \E t \in Nodes : handled[g] = Append(handled[h], Piece(t))
  <2>1. CASE yield_mutex = NoNode
    BY <2>1 DEF YieldInv
  <2>2. CASE yield_mutex # NoNode
    <3>1. yield_mutex \in Nodes /\ x[yield_mutex] \in Nat
      BY <2>2, SshAssumption DEF TypeInv, YieldTypes
    <3>2. \/ (g < x[yield_mutex]) <=> (h < x[yield_mutex])
          \/ g < x[yield_mutex] /\ x[yield_mutex] <= h
      BY <3>1
    <3>. QED
      BY <3>1, <3>2 DEF YieldInv
  <2>. QED
    BY <2>1, <2>2
<1>3. CASE handled[g] = handled[h]
  BY <1>1, <1>3 DEF IsPrefix
<1>4. ASSUME NEW t \in Nodes, handled[g] = Append(handled[h], Piece(t))
      PROVE  /\ IsPrefix(handled[h], handled[g])
             /\ Len(handled[g]) <= Len(handled[h]) + 1
  <2>1. Piece(t) \in Pieces
    BY DEF TypeInv, RcTypes, BufferTypes, Piece
  <2>2. /\ Len(handled[g]) = Len(handled[h]) + 1 /\ Len(handled[h]) \in Nat
        /\ \A k \in 1..Len(handled[h]) : handled[g][k] = handled[h][k]
    BY <1>1, <1>4, <2>1, AppendProperties
  <2>3. SubSeq(handled[h], 1, Len(handled[h])) = SubSeq(handled[g], 1, Len(handled[h]))
    BY <1>1, <2>2
  <2>. QED
    BY <2>2, <2>3 DEF IsPrefix
<1>. QED
  BY <1>2, <1>3, <1>4

\* However the nodes' lines come, the mutex makes the handlers see one sequence
\* of pieces: a handler is at most the piece in hand ahead of a later one.
THEOREM Agreement == Spec => []HandlersAgree
  BY TypesInit, TypesNext, YieldInit, YieldNext, YieldInvImplies, PTL DEF Spec

-----------------------------------------------------------------------------
(* The bytes on their way *)

\* The piece in hand, if handler h has not been given it yet.
Pending(h, t, s) == IF stream[t] = s /\ x[t] <= h THEN buffer[t] ELSE << >>

\* What was read of a stream is with the handler or in the buffer.
Transferred(h, t, s) ==
    Given(h, t, s) \o Pending(h, t, s) = SubSeq(sent[t][s], 1, taken[t][s])

\* The process may have ended with a byte read and not kept (ssh.c:434).
TransferInv ==
    \A h \in 1..Handlers, t \in Nodes, s \in Streams :
        (aborted /\ pc[t] = "read") \/ Transferred(h, t, s)

\* rc_out and rc_err are right when they are read.
RcInv ==
    \A t \in Nodes, s \in Streams :
        /\ rc[t][s] = "eof" => eof[t] /\ taken[t][s] = Len(sent[t][s])
        /\ rc[t][s] = "error" => broken[t]

Ended(t) == pc[t] \in {"close", "shutdown"} \/ (pc[t] = "returned" /\ result[t] = 0)

\* The read loop is left only when nothing can come any more.
EndInv ==
    \A t \in Nodes :
        Ended(t) =>
            \/ broken[t]
            \/ /\ buffer[t] = << >>
               /\ \A s \in Streams : taken[t][s] = Len(sent[t][s])

PieceSet == Nodes \X Streams \X Seq(Int)

\* What a piece has of one stream.
PartOf(piece, t, s) == IF piece[1] = t /\ piece[2] = s THEN piece[3] ELSE << >>
Parts(pieces, t, s) == [k \in DOMAIN pieces |-> PartOf(pieces[k], t, s)]

LEMMA PartType ==
    ASSUME NEW piece \in PieceSet, NEW t, NEW s
    PROVE  PartOf(piece, t, s) \in Seq(Int)
<1>1. piece[3] \in Seq(Int) /\ << >> \in Seq(Int)
  BY DEF PieceSet
<1>. QED
  BY <1>1 DEF PartOf

LEMMA PartsAppend ==
    ASSUME NEW pieces \in Seq(PieceSet), NEW piece \in PieceSet, NEW t, NEW s
    PROVE  /\ Parts(pieces, t, s) \in Seq(Seq(Int))
           /\ Parts(Append(pieces, piece), t, s)
                = Append(Parts(pieces, t, s), PartOf(piece, t, s))
<1>. DEFINE len == Len(pieces)
            more == Append(pieces, piece)
<1>1. /\ len \in Nat /\ DOMAIN pieces = 1..len /\ \A k \in 1..len : pieces[k] \in PieceSet
      /\ more \in Seq(PieceSet) /\ Len(more) = len + 1 /\ DOMAIN more = 1..(len + 1)
      /\ \A k \in 1..len : more[k] = pieces[k]
      /\ more[len + 1] = piece
  BY AppendProperties
<1>. HIDE DEF len, more
<1>2. /\ Parts(pieces, t, s) = [k \in 1..len |-> PartOf(pieces[k], t, s)]
      /\ Parts(more, t, s) = [k \in 1..(len + 1) |-> PartOf(more[k], t, s)]
  BY <1>1 DEF Parts
<1>3. \A k \in 1..len : PartOf(pieces[k], t, s) \in Seq(Int)
  BY <1>1, PartType
<1>4. PartOf(piece, t, s) \in Seq(Int)
  BY PartType
<1>. DEFINE old == Parts(pieces, t, s)
            last == PartOf(piece, t, s)
            new == Parts(more, t, s)
            B == Seq(Int)
<1>5. /\ old \in Seq(B) /\ Len(old) = len /\ last \in B
      /\ \A k \in 1..len : old[k] = PartOf(pieces[k], t, s)
  BY <1>1, <1>2, <1>3, <1>4
<1>6. /\ new \in Seq(B) /\ Len(new) = len + 1
      /\ \A k \in 1..len : new[k] = old[k]
      /\ new[len + 1] = last
  <2>1. \A k \in 1..len : PartOf(more[k], t, s) = PartOf(pieces[k], t, s)
    BY <1>1
  <2>2. PartOf(more[len + 1], t, s) = last
    BY <1>1
  <2>3. \A k \in 1..(len + 1) : k \in 1..len \/ k = len + 1
    BY <1>1
  <2>4. \A k \in 1..(len + 1) : PartOf(more[k], t, s) \in B
    BY <1>3, <1>4, <2>1, <2>2, <2>3
  <2>. QED
    BY <1>1, <1>2, <1>5, <2>1, <2>2, <2>4
<1>. HIDE DEF old, last, new, B
<1>7. /\ Append(old, last) \in Seq(B) /\ Len(Append(old, last)) = len + 1
      /\ \A k \in 1..len : Append(old, last)[k] = old[k]
      /\ Append(old, last)[len + 1] = last
  BY <1>5, AppendProperties
<1>8. \A k \in 1..(len + 1) : new[k] = Append(old, last)[k]
  <2>1. \A k \in 1..(len + 1) : k \in 1..len \/ k = len + 1
    BY <1>1
  <2>. QED
    BY <1>6, <1>7, <2>1
<1>9. new = Append(old, last)
  BY <1>6, <1>7, <1>8, SeqEqual
<1>. QED
  BY <1>5, <1>9 DEF old, last, new, B, more

LEMMA GivenIsFlat ==
    ASSUME NEW h, NEW t, NEW s
    PROVE  Given(h, t, s) = FlattenSeq(Parts(handled[h], t, s))
  BY DEF Given, Parts, PartOf

LEMMA GivenType ==
    ASSUME TypeInv, NEW h \in 1..Handlers, NEW t \in Nodes, NEW s \in Streams
    PROVE  /\ handled[h] \in Seq(PieceSet)
           /\ Given(h, t, s) \in Seq(Int)
           /\ buffer[t] \in Seq(Int)
           /\ Pending(h, t, s) \in Seq(Int)
<1>1. handled[h] \in Seq(PieceSet)
  BY DEF TypeInv, YieldTypes, PieceSet
<1>2. Parts(handled[h], t, s) \in Seq(Seq(Int))
  <2>1. Piece(t) \in PieceSet
    BY DEF TypeInv, RcTypes, BufferTypes, Piece, PieceSet
  <2>. QED
    BY <1>1, <2>1, PartsAppend
<1>3. Given(h, t, s) \in Seq(Int)
  BY <1>2, FlattenType, GivenIsFlat
<1>4. buffer[t] \in Seq(Int) /\ << >> \in Seq(Int)
  BY DEF TypeInv, BufferTypes
<1>. QED
  BY <1>1, <1>3, <1>4 DEF Pending

\* A handler is called: its node's stream grows by the piece, no other does.
LEMMA GivenGrows ==
    ASSUME TypeInv, NEW h \in 1..Handlers, NEW t \in Nodes,
           handled' = [handled EXCEPT ![h] = Append(@, Piece(t))],
           NEW u \in Nodes, NEW s \in Streams
    PROVE  Given(h, u, s)' = IF u = t /\ s = stream[t] THEN Given(h, u, s) \o buffer[t]
                             ELSE Given(h, u, s)
<1>1. /\ handled[h] \in Seq(PieceSet) /\ Piece(t) \in PieceSet
      /\ handled'[h] = Append(handled[h], Piece(t))
  BY DEF TypeInv, YieldTypes, RcTypes, BufferTypes, Piece, PieceSet
<1>. DEFINE parts == Parts(handled[h], u, s)
            part == PartOf(Piece(t), u, s)
<1>2. parts \in Seq(Seq(Int)) /\ part \in Seq(Int)
  BY <1>1, PartsAppend, PartType
<1>3. Parts(handled'[h], u, s) = Append(parts, part)
  <2>1. Parts(Append(handled[h], Piece(t)), u, s) = Append(parts, part)
    BY <1>1, PartsAppend
  <2>. QED
    BY <1>1, <2>1
<1>4. Given(h, u, s) = FlattenSeq(parts)
  BY GivenIsFlat
<1>5. Given(h, u, s)' = FlattenSeq(Parts(handled'[h], u, s))
  BY DEF Given, Parts, PartOf
<1>6. part = IF u = t /\ s = stream[t] THEN buffer[t] ELSE << >>
  BY DEF Piece, PartOf
<1>7. FlattenSeq(parts) \in Seq(Int)
  BY <1>2, FlattenType
<1>. HIDE DEF parts, part
<1>8. FlattenSeq(Append(parts, part)) = FlattenSeq(parts) \o part
  BY <1>2, FlattenAppend
<1>9. FlattenSeq(parts) \o << >> = FlattenSeq(parts)
  BY <1>7, ConcatEmptySeq
<1>. QED
  BY <1>3, <1>4, <1>5, <1>6, <1>8, <1>9


LEMMA TransferStays ==
    ASSUME TypeInv, NEW h \in 1..Handlers, NEW t \in Nodes, NEW s \in Streams,
           Transferred(h, t, s), UNCHANGED <<Given(h, t, s), Pending(h, t, s)>>,
           taken'[t][s] = taken[t][s],
           \/ sent'[t][s] = sent[t][s]
           \/ \E b \in Int : sent'[t][s] = Append(sent[t][s], b)
    PROVE  Transferred(h, t, s)'
<1>1. sent[t][s] \in Seq(Int) /\ taken[t][s] \in 0..Len(sent[t][s])
  BY DEF TypeInv, StreamTypes
<1>. DEFINE bytes == sent[t][s]
            k == taken[t][s]
<1>2. \A b \in Int : SubSeq(Append(bytes, b), 1, k) = SubSeq(bytes, 1, k)
  <2>1. bytes \in Seq(Int) /\ k \in 0..Len(bytes)
    BY <1>1
  <2>. HIDE DEF bytes, k
  <2>. QED
    BY <2>1, TakenStays
<1>3. SubSeq(sent'[t][s], 1, taken'[t][s]) = SubSeq(sent[t][s], 1, taken[t][s])
  <2>1. CASE sent'[t][s] = sent[t][s]
    BY <2>1
  <2>2. CASE \E b \in Int : sent'[t][s] = Append(sent[t][s], b)
    <3>1. PICK b \in Int : sent'[t][s] = Append(bytes, b)
      BY <2>2
    <3>2. SubSeq(Append(bytes, b), 1, k) = SubSeq(bytes, 1, k)
      BY <1>2
    <3>. QED
      BY <3>1, <3>2
  <2>. QED
    BY <2>1, <2>2
<1>. QED
  BY <1>3 DEF Transferred

LEMMA QuietTransfer ==
    ASSUME TypeInv, UNCHANGED <<handled, x, stream, buffer, taken>>,
           NEW h \in 1..Handlers, NEW t \in Nodes, NEW s \in Streams,
           Transferred(h, t, s),
           \/ sent'[t][s] = sent[t][s]
           \/ \E b \in Int : sent'[t][s] = Append(sent[t][s], b)
    PROVE  Transferred(h, t, s)'
<1>1. UNCHANGED <<Given(h, t, s), Pending(h, t, s)>>
  BY DEF Given, Pending
<1>. QED
  BY <1>1, TransferStays

\* A byte moves from the channel into the buffer.
LEMMA ByteTransfer ==
    ASSUME TypeInv, YieldInv, NEW t \in Nodes, ReadByte(t) \/ ReadNewline(t),
           NEW h \in 1..Handlers, NEW u \in Nodes, NEW s \in Streams,
           Transferred(h, u, s)
    PROVE  Transferred(h, u, s)'
<1>. DEFINE r == stream[t]
            k == taken[t][r]
            bytes == sent[t][r]
            b == NextByte(t, r)
<1>1. /\ pc[t] = "read" /\ k < Len(bytes) /\ r \in Streams
      /\ taken' = [taken EXCEPT ![t][r] = k + 1]
      /\ buffer' = [buffer EXCEPT ![t] = Append(buffer[t], b)]
      /\ UNCHANGED <<handled, x, stream, sent>>
  BY DEF ReadByte, ReadNewline, ReadsByte, Reads, Arrived, yieldVars, peerVars, TypeInv,
         RcTypes
<1>2. /\ bytes \in Seq(Int) /\ k \in 0..(Len(bytes) - 1) /\ b = bytes[k + 1] /\ b \in Int
      /\ taken \in [Nodes -> [Streams -> Nat]] /\ buffer \in [Nodes -> Seq(Int)]
  <2>1. bytes \in Seq(Int) /\ k \in 0..Len(bytes)
    BY <1>1 DEF TypeInv, StreamTypes
  <2>2. k \in 0..(Len(bytes) - 1) /\ b = bytes[k + 1] /\ b \in Int
    <3>0. k < Len(bytes) /\ k \in Nat /\ Len(bytes) \in Nat
      BY <1>1, <2>1
    <3>. HIDE DEF k, bytes
    <3>1. k \in 0..(Len(bytes) - 1) /\ k + 1 \in 1..Len(bytes)
      BY <3>0
    <3>2. b = bytes[k + 1]
      BY DEF NextByte, k, bytes
    <3>3. bytes[k + 1] \in Int
      BY <2>1, <3>1
    <3>. QED
      BY <3>1, <3>2, <3>3
  <2>. QED
    BY <2>1, <2>2 DEF TypeInv, StreamTypes, BufferTypes
<1>3. Given(h, u, s)' = Given(h, u, s)
  BY <1>1 DEF Given
<1>4. CASE u = t /\ s = r
  <2>1. x[t] = 1 /\ x[t] <= h
    BY <1>1 DEF YieldInv
  <2>2. Pending(h, t, r) = buffer[t] /\ Pending(h, t, r)' = Append(buffer[t], b)
    BY <1>1, <1>2, <2>1 DEF Pending
  <2>3. Given(h, t, r) \in Seq(Int) /\ buffer[t] \in Seq(Int)
    BY <1>1, GivenType
  <2>4. Given(h, t, r) \o Append(buffer[t], b) = Append(Given(h, t, r) \o buffer[t], b)
    <3>. DEFINE g == Given(h, t, r)
                c == buffer[t]
    <3>1. g \in Seq(Int) /\ c \in Seq(Int) /\ b \in Int
      BY <1>2, <2>3
    <3>. HIDE DEF g, c, b
    <3>2. g \o Append(c, b) = Append(g \o c, b)
      BY <3>1, AppendToConcat
    <3>. QED
      BY <3>2 DEF g, c
  <2>5. Given(h, t, r) \o buffer[t] = SubSeq(bytes, 1, k)
    BY <1>4, <2>2 DEF Transferred
  <2>6. SubSeq(bytes, 1, k + 1) = Append(SubSeq(bytes, 1, k), bytes[k + 1])
    <3>. HIDE DEF bytes, k
    <3>. QED
      BY <1>2, TakeOneMore
  <2>7. taken'[t][r] = k + 1 /\ sent'[t][r] = bytes
    BY <1>1, <1>2
  <2>8. Given(h, u, s) \o Append(buffer[t], b) = SubSeq(bytes, 1, k + 1)
    BY <1>2, <1>4, <2>4, <2>5, <2>6
  <2>9. Pending(h, u, s)' = Append(buffer[t], b)
    BY <1>1, <1>2, <1>4, <2>1 DEF Pending
  <2>10. sent'[u][s] = bytes /\ taken'[u][s] = k + 1
    BY <1>4, <2>7
  <2>. HIDE DEF bytes, k, b, r
  <2>. QED
    BY <1>3, <2>8, <2>9, <2>10 DEF Transferred
<1>5. CASE ~(u = t /\ s = r)
  <2>1. taken'[u][s] = taken[u][s]
    BY <1>1, <1>2, <1>5
  <2>2. Pending(h, u, s)' = Pending(h, u, s)
    BY <1>1, <1>2, <1>5 DEF Pending
  <2>. QED
    BY <1>1, <1>3, <2>1, <2>2, TransferStays
<1>. QED
  BY <1>4, <1>5

\* The read loop turns to the other stream with an empty buffer.
LEMMA EmptyTransfer ==
    ASSUME TypeInv, NEW t \in Nodes, ReadEmpty(t),
           NEW h \in 1..Handlers, NEW u \in Nodes, NEW s \in Streams,
           Transferred(h, u, s)
    PROVE  Transferred(h, u, s)'
<1>1. /\ buffer[t] = << >> /\ UNCHANGED <<handled, x, buffer, taken, sent>>
      /\ \A v \in Nodes : v # t => stream'[v] = stream[v]
  BY DEF ReadEmpty, Reads, NextStream, yieldVars, peerVars, TypeInv, RcTypes
<1>2. Given(h, u, s)' = Given(h, u, s) /\ Pending(h, u, s)' = Pending(h, u, s)
  BY <1>1 DEF Given, Pending
<1>. QED
  BY <1>1, <1>2, TransferStays

\* The piece moves from the buffer to a handler.
LEMMA CallTransfer ==
    ASSUME TypeInv, NEW t \in Nodes, YieldCall(t),
           NEW h \in 1..Handlers, NEW u \in Nodes, NEW s \in Streams,
           Transferred(h, u, s)
    PROVE  Transferred(h, u, s)'
<1>1. /\ x[t] \in 1..Handlers /\ Handlers \in Nat
      /\ handled' = [handled EXCEPT ![x[t]] = Append(@, Piece(t))]
      /\ x'[t] = x[t] + 1
      /\ \A v \in Nodes : v # t => x'[v] = x[v]
      /\ UNCHANGED <<stream, buffer, taken, sent>>
  BY SshAssumption DEF YieldCall, TypeInv, YieldTypes, readVars, peerVars, Piece
<1>2. CASE u = t /\ s = stream[t] /\ h = x[t]
  <2>1. Given(h, u, s)' = Given(h, u, s) \o buffer[t]
    BY <1>1, <1>2, GivenGrows
  <2>2. Pending(h, u, s) = buffer[t] /\ Pending(h, u, s)' = << >>
    BY <1>1, <1>2 DEF Pending
  <2>3. Given(h, u, s) \in Seq(Int) /\ buffer[t] \in Seq(Int)
    BY GivenType
  <2>4. (Given(h, u, s) \o buffer[t]) \o << >> = Given(h, u, s) \o buffer[t]
    BY <2>3, ConcatProperties, ConcatEmptySeq
  <2>. QED
    BY <1>1, <2>1, <2>2, <2>4 DEF Transferred
<1>3. CASE ~(u = t /\ s = stream[t] /\ h = x[t])
  <2>1. Given(h, u, s)' = Given(h, u, s)
    <3>1. CASE h = x[t]
      <4>1. handled' = [handled EXCEPT ![h] = Append(@, Piece(t))]
        BY <1>1, <3>1
      <4>2. ~(u = t /\ s = stream[t])
        BY <1>3, <3>1
      <4>. QED
        BY <4>1, <4>2, GivenGrows
    <3>2. CASE h # x[t]
      <4>1. handled'[h] = handled[h]
        BY <1>1, <3>2 DEF TypeInv, YieldTypes
      <4>. QED
        BY <4>1 DEF Given
    <3>. QED
      BY <3>1, <3>2
  <2>2. Pending(h, u, s)' = Pending(h, u, s)
    <3>1. u # t \/ s # stream[t] \/ (x[t] <= h <=> x[t] + 1 <= h)
      BY <1>1, <1>3
    <3>. QED
      BY <1>1, <3>1 DEF Pending
  <2>. QED
    BY <1>1, <2>1, <2>2, TransferStays
<1>. QED
  BY <1>2, <1>3

\* All handlers have the piece when the buffer is emptied.
LEMMA UnlockTransfer ==
    ASSUME TypeInv, NEW t \in Nodes, YieldUnlock(t),
           NEW h \in 1..Handlers, NEW u \in Nodes, NEW s \in Streams,
           Transferred(h, u, s)
    PROVE  Transferred(h, u, s)'
<1>1. /\ x[t] = Handlers + 1 /\ Handlers \in Nat /\ buffer'[t] = << >>
      /\ UNCHANGED <<handled, taken, sent>>
      /\ \A v \in Nodes : v # t => /\ stream'[v] = stream[v] /\ x'[v] = x[v]
                                   /\ buffer'[v] = buffer[v]
  <2>1. /\ x \in [Nodes -> 1..(Handlers + 1)] /\ Handlers \in Nat
        /\ stream \in [Nodes -> Streams] /\ buffer \in [Nodes -> Seq(Int)]
    BY SshAssumption DEF TypeInv, RcTypes, YieldTypes, BufferTypes
  <2>2. /\ x[t] > Handlers /\ x' = [x EXCEPT ![t] = 1]
        /\ buffer' = [buffer EXCEPT ![t] = << >>] /\ stream' = [stream EXCEPT ![t] = 1 - @]
        /\ UNCHANGED <<handled, taken, sent>>
    BY DEF YieldUnlock, NextStream, peerVars
  <2>3. x[t] \in 1..(Handlers + 1)
    BY <2>1
  <2>4. x[t] = Handlers + 1
    BY <2>1, <2>2, <2>3
  <2>. QED
    BY <2>1, <2>2, <2>4
<1>2. Given(h, u, s)' = Given(h, u, s)
  BY <1>1 DEF Given
<1>3. Pending(h, u, s)' = Pending(h, u, s)
  <2>1. ~(x[t] <= h)
    BY <1>1
  <2>. QED
    BY <1>1, <2>1 DEF Pending
<1>. QED
  BY <1>1, <1>2, <1>3, TransferStays

LEMMA TransferInit == Init => TransferInv /\ InOrder
<1>. SUFFICES ASSUME Init, NEW h \in 1..Handlers, NEW t \in Nodes, NEW s \in Streams
              PROVE  Transferred(h, t, s) /\ IsPrefix(Given(h, t, s), sent[t][s])
  BY DEF TransferInv, InOrder
<1>1. handled[h] = << >> /\ buffer[t] = << >> /\ sent[t][s] = << >> /\ taken[t][s] = 0
  BY DEF Init
<1>2. Parts(<< >>, t, s) = << >>
  BY DEF Parts
<1>3. Given(h, t, s) = << >>
  BY <1>1, <1>2, FlattenEmpty, GivenIsFlat
<1>4. << >> \in Seq(Int) /\ << >> \o << >> = << >>
  BY ConcatEmptySeq
<1>5. SubSeq(<< >>, 1, 0) = << >> /\ Len(<< >>) = 0
  BY <1>4, TakeNone
<1>6. Transferred(h, t, s)
  BY <1>1, <1>3, <1>4, <1>5 DEF Transferred, Pending
<1>7. IsPrefix(Given(h, t, s), sent[t][s])
  BY <1>1, <1>3, <1>5 DEF IsPrefix
<1>. QED
  BY <1>6, <1>7

LEMMA TransferNext == TypeInv /\ YieldInv /\ TransferInv /\ [Next]_vars => TransferInv'
<1>. SUFFICES ASSUME TypeInv, YieldInv, TransferInv, [Next]_vars,
                     NEW h \in 1..Handlers, NEW u \in Nodes, NEW s \in Streams
              PROVE  (aborted' /\ pc'[u] = "read") \/ Transferred(h, u, s)'
  BY DEF TransferInv
<1>1. CASE UNCHANGED vars
  <2>1. UNCHANGED <<pc, aborted, handled, x, stream, buffer, taken, sent>>
    BY <1>1 DEF vars, yieldVars, readVars, peerVars
  <2>2. (aborted /\ pc[u] = "read") \/ Transferred(h, u, s)
    BY DEF TransferInv
  <2>. QED
    BY <2>1, <2>2, QuietTransfer
<1>2. ASSUME ~aborted
      PROVE  Transferred(h, u, s)
  BY <1>2 DEF TransferInv
<1>3. ASSUME NEW t \in Nodes, Session(t)
      PROVE  Transferred(h, u, s)'
  BY <1>2, <1>3, SessionQuiet, QuietTransfer DEF yieldVars, readVars, peerVars
<1>4. ASSUME NEW t \in Nodes, NEW r \in Streams, Send(t, r)
      PROVE  Transferred(h, u, s)'
  <2>1. ~aborted /\ UNCHANGED <<handled, x, stream, buffer, taken>>
    BY <1>4 DEF Send, Remote, yieldVars, readVars
  <2>2. PICK b \in {Len(sent[t][r]) + 1, -(Len(sent[t][r]) + 1)} :
            sent' = [sent EXCEPT ![t][r] = Append(@, b)]
    BY <1>4 DEF Send
  <2>3. /\ b \in Int
        /\ \/ sent'[u][s] = sent[u][s]
           \/ sent'[u][s] = Append(sent[u][s], b)
    <3>1. sent[t][r] \in Seq(Int) /\ sent \in [Nodes -> [Streams -> Seq(Int)]]
      BY DEF TypeInv, StreamTypes
    <3>2. b \in Int
      BY <3>1
    <3>. QED
      BY <2>2, <3>1, <3>2
  <2>. QED
    BY <1>2, <2>1, <2>3, QuietTransfer
<1>5. ASSUME NEW t \in Nodes, Eof(t) \/ Break(t)
      PROVE  Transferred(h, u, s)'
  BY <1>2, <1>5, QuietTransfer DEF Eof, Break, Remote, yieldVars, readVars
<1>6. ASSUME NEW t \in Nodes, ReadByte(t) \/ ReadNewline(t)
      PROVE  Transferred(h, u, s)'
  BY <1>2, <1>6, ByteTransfer DEF ReadByte, ReadNewline, ReadsByte, Reads
<1>7. ASSUME NEW t \in Nodes, ReadTooMuch(t)
      PROVE  (aborted' /\ pc'[u] = "read") \/ Transferred(h, u, s)'
  <2>1. /\ ~aborted /\ aborted' /\ pc[t] = "read" /\ pc' = pc
        /\ taken' = [taken EXCEPT ![t][stream[t]] = @ + 1]
        /\ UNCHANGED <<handled, x, stream, buffer, sent>>
    BY <1>7 DEF ReadTooMuch, ReadsByte, Reads, yieldVars, peerVars
  <2>2. u # t => taken'[u] = taken[u]
    BY <2>1 DEF TypeInv, StreamTypes
  <2>3. Given(h, u, s)' = Given(h, u, s) /\ Pending(h, u, s)' = Pending(h, u, s)
    BY <2>1 DEF Given, Pending
  <2>. QED
    BY <1>2, <2>1, <2>2, <2>3, TransferStays
<1>8. ASSUME NEW t \in Nodes, ReadNothing(t) \/ YieldLock(t)
      PROVE  Transferred(h, u, s)'
  BY <1>2, <1>8, QuietTransfer
  DEF ReadNothing, Reads, YieldLock, Goes, yieldVars, readVars, peerVars
<1>9. ASSUME NEW t \in Nodes, ReadEmpty(t)
      PROVE  Transferred(h, u, s)'
  BY <1>2, <1>9, EmptyTransfer DEF ReadEmpty, Reads
<1>10. ASSUME NEW t \in Nodes, YieldCall(t)
       PROVE  Transferred(h, u, s)'
  BY <1>2, <1>10, CallTransfer DEF YieldCall, Goes
<1>11. ASSUME NEW t \in Nodes, YieldUnlock(t)
       PROVE  Transferred(h, u, s)'
  BY <1>2, <1>11, UnlockTransfer DEF YieldUnlock
<1>. QED
  BY <1>1, <1>3, <1>4, <1>5, <1>6, <1>7, <1>8, <1>9, <1>10, <1>11
  DEF Next, Exec, Read, Yield, Terminated


LEMMA TransferredIsPrefix ==
    ASSUME TypeInv, NEW h \in 1..Handlers, NEW t \in Nodes, NEW s \in Streams,
           Transferred(h, t, s)
    PROVE  IsPrefix(Given(h, t, s), sent[t][s])
<1>. DEFINE given == Given(h, t, s)
            pending == Pending(h, t, s)
            bytes == sent[t][s]
            k == taken[t][s]
<1>1. /\ bytes \in Seq(Int) /\ k \in 0..Len(bytes)
      /\ given \in Seq(Int) /\ pending \in Seq(Int)
      /\ given \o pending = SubSeq(bytes, 1, k)
  BY GivenType DEF TypeInv, StreamTypes, Transferred
<1>. HIDE DEF given, pending, bytes, k
<1>2. given = SubSeq(bytes, 1, Len(given)) /\ Len(given) \in 0..k
  BY <1>1, PrefixOfTaken
<1>3. Len(given) \in 0..Len(bytes)
  BY <1>1, <1>2
<1>4. IsPrefix(SubSeq(bytes, 1, Len(given)), bytes)
  BY <1>1, <1>3, TakenIsPrefix
<1>5. IsPrefix(given, bytes)
  BY <1>2, <1>4
<1>. QED
  BY <1>5 DEF given, bytes

AllTransferred ==
    \A h \in 1..Handlers, t \in Nodes, s \in Streams : Transferred(h, t, s)

LEMMA TransferredInOrder == TypeInv /\ AllTransferred => InOrder
  BY TransferredIsPrefix DEF AllTransferred, InOrder

\* The step that ends the process gives nothing to a handler.
LEMMA LastStep ==
    ASSUME TypeInv, [Next]_vars
    PROVE  aborted' = FALSE \/ UNCHANGED <<handled, sent>>
<1>1. CASE UNCHANGED vars
  BY <1>1 DEF vars, yieldVars, peerVars
<1>2. ASSUME NEW t \in Nodes, Session(t)
      PROVE  UNCHANGED <<handled, sent>>
  BY <1>2, SessionQuiet DEF yieldVars, peerVars
<1>3. ASSUME NEW t \in Nodes, Read(t)
      PROVE  UNCHANGED <<handled, sent>>
  BY <1>3 DEF Read, ReadByte, ReadTooMuch, ReadNewline, ReadNothing, ReadEmpty, ReadsByte,
              Reads, yieldVars, peerVars
<1>4. ASSUME NEW t \in Nodes, Yield(t)
      PROVE  aborted' = FALSE
  <2>1. ~aborted /\ aborted' = aborted
    BY <1>4 DEF Yield, YieldLock, YieldCall, YieldUnlock, Goes
  <2>. QED
    BY <2>1 DEF TypeInv, SessionTypes
<1>5. ASSUME NEW t \in Nodes, (\E s \in Streams : Send(t, s)) \/ Eof(t) \/ Break(t)
      PROVE  aborted' = FALSE
  <2>1. ~aborted /\ aborted' = aborted
    BY <1>5 DEF Send, Eof, Break, Remote
  <2>. QED
    BY <2>1 DEF TypeInv, SessionTypes
<1>. QED
  BY <1>1, <1>2, <1>3, <1>4, <1>5 DEF Next, Exec, Terminated

LEMMA OrderNext == TypeInv /\ YieldInv /\ TransferInv /\ InOrder /\ [Next]_vars => InOrder'
<1>. SUFFICES ASSUME TypeInv, YieldInv, TransferInv, InOrder, [Next]_vars
              PROVE  InOrder'
  OBVIOUS
<1>1. TypeInv' /\ TransferInv'
  BY TypesNext, TransferNext
<1>2. CASE aborted' = FALSE
  <2>1. \A h \in 1..Handlers, t \in Nodes, s \in Streams : Transferred(h, t, s)'
    BY <1>1, <1>2 DEF TransferInv
  <2>2. (TypeInv /\ AllTransferred => InOrder)'
    BY TransferredInOrder, PTL
  <2>. QED
    BY <1>1, <2>1, <2>2 DEF AllTransferred
<1>3. CASE UNCHANGED <<handled, sent>>
  BY <1>3 DEF InOrder, Given
<1>. QED
  BY <1>2, <1>3, LastStep

\* The pieces in which the two streams come, and the other nodes' output, leave
\* each stream as it was sent, for every handler (ssh.c:409-499).
THEOREM StreamOrder == Spec => []InOrder
  BY TypesInit, TypesNext, YieldInit, YieldNext, TransferInit, TransferNext, OrderNext, PTL
  DEF Spec


\* What a stream's loop was told is true.
Told(t, s, answer) ==
    /\ answer = "eof" => eof[t] /\ taken[t][s] = Len(sent[t][s])
    /\ answer = "error" => broken[t]

LEMMA ToldNothing ==
    ASSUME TypeInv, NEW t \in Nodes, NEW s \in Streams, NEW none \in Nothing(t, s)
    PROVE  none \in Answers /\ Told(t, s, none)
<1>1. taken[t][s] \in 0..Len(sent[t][s]) /\ Len(sent[t][s]) \in Nat
  BY DEF TypeInv, StreamTypes
<1>2. none \in {"error", "eof", "again"}
  BY DEF Nothing
<1>3. none = "error" => broken[t]
  BY DEF Nothing
<1>4. none = "eof" => eof[t] /\ ~Arrived(t, s)
  BY DEF Nothing
<1>5. ~Arrived(t, s) => taken[t][s] = Len(sent[t][s])
  BY <1>1 DEF Arrived
<1>. QED
  BY <1>2, <1>3, <1>4, <1>5 DEF Told, Answers

\* A turn to the other stream, or the end of the loop.
LEMMA TurnAndEnd ==
    ASSUME TypeInv, RcInv, EndInv, NEW t \in Nodes, pc[t] \in {"read", "handle"},
           NEW last \in Answers, Told(t, stream[t], last), NextStream(t, last),
           UNCHANGED <<taken, peerVars, result>>,
           buffer'[t] = << >>, \A u \in Nodes : u # t => buffer'[u] = buffer[u]
    PROVE  RcInv' /\ EndInv'
<1>1. /\ rc' = [rc EXCEPT ![t] = IF stream[t] = 0 THEN [@ EXCEPT ![0] = last] ELSE Unread]
      /\ pc' = [pc EXCEPT ![t] = IF Continues(t, last) THEN "read" ELSE "close"]
      /\ UNCHANGED <<taken, sent, eof, broken, result>>
  BY DEF NextStream, peerVars
<1>2. /\ rc \in [Nodes -> [Streams -> Answers]] /\ stream \in [Nodes -> Streams]
      /\ pc \in [Nodes -> Locations]
  BY DEF TypeInv, RcTypes, SessionTypes
<1>3. RcInv'
  <2>1. ASSUME NEW u \in Nodes, NEW s \in Streams
        PROVE  Told(u, s, rc'[u][s])
    <3>1. Told(u, s, rc[u][s])
      BY DEF RcInv, Told
    <3>2. CASE u # t
      BY <1>1, <1>2, <3>1, <3>2
    <3>3. CASE u = t /\ stream[t] = 0
      BY <1>1, <1>2, <3>1, <3>3
    <3>4. CASE u = t /\ stream[t] # 0
      <4>1. rc'[u][s] = "data"
        BY <1>1, <1>2, <3>4 DEF Unread
      <4>. QED
        BY <4>1 DEF Told
    <3>. QED
      BY <3>2, <3>3, <3>4
  <2>. QED
    BY <1>1, <2>1 DEF RcInv, Told
<1>4. EndInv'
  <2>1. ASSUME NEW u \in Nodes, u # t, Ended(u)'
        PROVE  broken[u] \/ /\ buffer'[u] = << >>
                            /\ \A s \in Streams : taken[u][s] = Len(sent[u][s])
    <3>1. Ended(u)
      BY <1>1, <1>2, <2>1 DEF Ended
    <3>. QED
      BY <2>1, <3>1 DEF EndInv
  <2>2. ASSUME Ended(t)'
        PROVE  broken[t] \/ \A s \in Streams : taken[t][s] = Len(sent[t][s])
    <3>1. ~Continues(t, last)
      BY <1>1, <1>2, <2>2 DEF Ended
    <3>2. stream[t] = 1 /\ 1 - stream[t] = 0
      BY <1>2, <3>1 DEF Continues, Streams
    <3>3. last \in {"eof", "error"} /\ rc[t][0] \in {"eof", "error"}
      <4>1. rc[t][0] \in Answers
        BY <1>2 DEF Streams
      <4>. QED
        BY <3>1, <3>2, <4>1 DEF Continues, Answers
    <3>4. /\ last = "eof" => taken[t][1] = Len(sent[t][1])
          /\ rc[t][0] = "eof" => taken[t][0] = Len(sent[t][0])
          /\ last = "error" \/ rc[t][0] = "error" => broken[t]
      BY <3>2 DEF RcInv, Told, Streams
    <3>. QED
      BY <3>3, <3>4 DEF Streams
  <2>. QED
    BY <1>1, <2>1, <2>2 DEF EndInv
<1>. QED
  BY <1>3, <1>4

LEMMA SessionEnds ==
    ASSUME TypeInv, NEW t \in Nodes, Session(t), NEW u \in Nodes, Ended(u)'
    PROVE  Ended(u)
<1>1. ASSUME NEW from, NEW to, to \notin {"close", "returned"},
             to = "shutdown" => from = "close", NEW now, Succeeds(t, from, to, now)
      PROVE  Ended(u)
  BY <1>1 DEF Succeeds, Goes, Ended, TypeInv, SessionTypes
<1>2. ASSUME NEW from, NEW code, code = 0 => from = "shutdown", NEW released,
             Returns(t, from, code, released)
      PROVE  Ended(u)
  BY <1>2 DEF Returns, Goes, Ended, TypeInv, SessionTypes
<1>3. ASSUME NEW from, Aborts(t, from)
      PROVE  Ended(u)
  BY <1>3 DEF Aborts, Ended, sessionVars
<1>4. CASE Userauth(t)
  BY <1>4 DEF Userauth, Goes, Ended, TypeInv, SessionTypes
<1>5. CASE Resolve(t) \/ Socket(t) \/ Connect(t) \/ SessionInit(t) \/ Handshake(t)
  BY <1>1, <1>2, <1>3, <1>5 DEF Resolve, Socket, Connect, SessionInit, Handshake
<1>6. CASE KnownHosts(t) \/ HostKey(t) \/ Agent(t) \/ Identity(t)
  BY <1>1, <1>2, <1>3, <1>6 DEF KnownHosts, HostKey, Agent, Identity
<1>7. CASE OpenChannel(t) \/ ChannelExec(t) \/ CloseChannel(t) \/ Shutdown(t)
  BY <1>1, <1>2, <1>3, <1>7 DEF OpenChannel, ChannelExec, CloseChannel, Shutdown
<1>. QED
  BY <1>4, <1>5, <1>6, <1>7 DEF Session

\* Steps that leave the read loops' own state alone.
LEMMA EndStays ==
    ASSUME EndInv, UNCHANGED <<taken, sent, broken, buffer>>,
           \A u \in Nodes : Ended(u)' => Ended(u)
    PROVE  EndInv'
  BY DEF EndInv

LEMMA RcStays ==
    ASSUME RcInv, UNCHANGED <<rc, taken, peerVars>>
    PROVE  RcInv'
  BY DEF RcInv, peerVars

LEMMA RemoteAndEnd ==
    ASSUME TypeInv, RcInv, EndInv, NEW t \in Nodes,
           (\E s \in Streams : Send(t, s)) \/ Eof(t) \/ Break(t)
    PROVE  RcInv' /\ EndInv'
<1>1. /\ pc[t] \in Reading /\ ~eof[t]
      /\ UNCHANGED <<pc, result, stream, taken, buffer, rc>>
  BY DEF Send, Eof, Break, Remote, sessionVars, readVars
<1>2. ~Ended(t) /\ \A u \in Nodes : Ended(u)' <=> Ended(u)
  BY <1>1 DEF Ended, Reading, Yielding
<1>3. /\ \A u \in Nodes : u # t => sent'[u] = sent[u]
      /\ \A u \in Nodes : (eof[u] => eof'[u]) /\ (broken[u] => broken'[u])
      /\ \A u \in Nodes : u # t => eof'[u] = eof[u]
  <2>1. CASE \E s \in Streams : Send(t, s)
    BY <2>1 DEF Send, TypeInv, StreamTypes
  <2>2. CASE Eof(t) \/ Break(t)
    BY <2>2 DEF Eof, Break, TypeInv, StreamTypes
  <2>. QED
    BY <2>1, <2>2
<1>4. RcInv'
  <2>1. \A s \in Streams : rc[t][s] # "eof"
    BY <1>1 DEF RcInv
  <2>. QED
    BY <1>1, <1>3, <2>1 DEF RcInv
<1>5. EndInv'
  BY <1>1, <1>2, <1>3 DEF EndInv
<1>. QED
  BY <1>4, <1>5

LEMMA ReadAndEnd ==
    ASSUME TypeInv, RcInv, EndInv, NEW t \in Nodes, Read(t)
    PROVE  RcInv' /\ EndInv'
<1>. DEFINE s == stream[t]
<1>1. /\ pc[t] = "read" /\ s \in Streams /\ ~Ended(t)
      /\ UNCHANGED <<result, peerVars, sent, eof, broken>>
      /\ rc \in [Nodes -> [Streams -> Answers]]
  BY DEF Read, ReadByte, ReadTooMuch, ReadNewline, ReadNothing, ReadEmpty, ReadsByte,
         Reads, sessionVars, peerVars, TypeInv, RcTypes, Ended
<1>2. CASE ReadEmpty(t)
  <2>1. PICK none \in Nothing(t, s) : NextStream(t, none)
    BY <1>2 DEF ReadEmpty
  <2>2. none \in Answers /\ Told(t, s, none)
    BY <1>1, ToldNothing
  <2>3. /\ UNCHANGED <<taken, buffer>> /\ buffer[t] = << >>
    BY <1>2 DEF ReadEmpty
  <2>. QED
    BY <1>1, <2>1, <2>2, <2>3, TurnAndEnd
<1>3. CASE ~ReadEmpty(t)
  <2>1. /\ \A u \in Nodes : u # t => /\ taken'[u] = taken[u] /\ buffer'[u] = buffer[u]
                                     /\ pc'[u] = pc[u]
        /\ pc'[t] \in {"read", "lock", "overrun"}
    <3>1. CASE ReadByte(t) \/ ReadTooMuch(t)
      BY <1>1, <3>1 DEF ReadByte, ReadTooMuch, ReadsByte, TypeInv, StreamTypes, BufferTypes
    <3>2. CASE ReadNewline(t)
      BY <1>1, <3>2 DEF ReadNewline, ReadsByte, TypeInv, StreamTypes, BufferTypes, SessionTypes
    <3>3. CASE ReadNothing(t)
      BY <1>1, <3>3 DEF ReadNothing, TypeInv, SessionTypes
    <3>. QED
      BY <1>3, <3>1, <3>2, <3>3 DEF Read
  <2>2. PICK answer \in Answers :
            /\ rc' = [rc EXCEPT ![t][s] = answer]
            /\ \/ answer = "data" /\ taken' = [taken EXCEPT ![t][s] = @ + 1]
               \/ Told(t, s, answer) /\ taken' = taken
    <3>1. CASE ReadByte(t) \/ ReadTooMuch(t) \/ ReadNewline(t)
      BY <3>1 DEF ReadByte, ReadTooMuch, ReadNewline, ReadsByte, Answers
    <3>2. CASE ReadNothing(t)
      BY <1>1, <3>2, ToldNothing DEF ReadNothing
    <3>. QED
      BY <1>3, <3>1, <3>2 DEF Read
  <2>3. RcInv'
    <3>1. ASSUME NEW u \in Nodes, NEW r \in Streams
          PROVE  /\ rc'[u][r] = "eof" => eof[u] /\ taken'[u][r] = Len(sent[u][r])
                 /\ rc'[u][r] = "error" => broken[u]
      <4>1. CASE u = t /\ r = s
        BY <1>1, <2>2, <4>1 DEF Told
      <4>2. CASE ~(u = t /\ r = s)
        <5>1. rc'[u][r] = rc[u][r] /\ taken'[u][r] = taken[u][r]
          <6>1. /\ rc \in [Nodes -> [Streams -> Answers]]
                /\ taken \in [Nodes -> [Streams -> Nat]]
            BY DEF TypeInv, StreamTypes, RcTypes
          <6>2. rc'[u][r] = rc[u][r]
            BY <1>1, <2>2, <4>2, <6>1
          <6>3. taken'[u][r] = taken[u][r]
            BY <1>1, <2>2, <4>2, <6>1
          <6>. QED
            BY <6>2, <6>3
        <5>. QED
          BY <5>1 DEF RcInv
      <4>. QED
        BY <4>1, <4>2
    <3>. QED
      BY <1>1, <3>1 DEF RcInv
  <2>4. EndInv'
    <3>1. \A u \in Nodes : Ended(u)' => u # t /\ Ended(u)
      BY <1>1, <2>1 DEF Ended
    <3>. QED
      BY <1>1, <2>1, <3>1 DEF EndInv
  <2>. QED
    BY <2>3, <2>4
<1>. QED
  BY <1>2, <1>3

LEMMA YieldAndEnd ==
    ASSUME TypeInv, RcInv, EndInv, NEW t \in Nodes, Yield(t)
    PROVE  RcInv' /\ EndInv'
<1>1. CASE YieldLock(t) \/ YieldCall(t)
  <2>1. /\ UNCHANGED <<result, rc, taken, buffer, sent, broken, peerVars>>
        /\ pc' = [pc EXCEPT ![t] = "handle"]
    BY <1>1 DEF YieldLock, YieldCall, Goes, sessionVars, readVars, peerVars
  <2>2. \A u \in Nodes : Ended(u)' => Ended(u)
    BY <2>1 DEF Ended, TypeInv, SessionTypes
  <2>. QED
    BY <2>1, <2>2, EndStays, RcStays
<1>2. CASE YieldUnlock(t)
  <2>1. /\ pc[t] = "handle" /\ NextStream(t, rc[t][stream[t]])
        /\ buffer' = [buffer EXCEPT ![t] = << >>]
        /\ UNCHANGED <<taken, peerVars, result>>
    BY <1>2 DEF YieldUnlock, sessionVars
  <2>2. buffer'[t] = << >> /\ \A u \in Nodes : u # t => buffer'[u] = buffer[u]
    BY <2>1 DEF TypeInv, BufferTypes
  <2>3. rc[t][stream[t]] \in Answers /\ Told(t, stream[t], rc[t][stream[t]])
    <3>1. stream[t] \in Streams /\ rc \in [Nodes -> [Streams -> Answers]]
      BY DEF TypeInv, RcTypes
    <3>. QED
      BY <3>1 DEF RcInv, Told
  <2>. QED
    BY <2>1, <2>2, <2>3, TurnAndEnd
<1>. QED
  BY <1>1, <1>2 DEF Yield

LEMMA EndNext == TypeInv /\ RcInv /\ EndInv /\ [Next]_vars => RcInv' /\ EndInv'
<1>. SUFFICES ASSUME TypeInv, RcInv, EndInv, [Next]_vars PROVE RcInv' /\ EndInv'
  OBVIOUS
<1>1. ASSUME NEW t \in Nodes, Session(t)
      PROVE  RcInv' /\ EndInv'
  <2>1. UNCHANGED <<rc, taken, buffer, sent, broken, peerVars>>
    BY <1>1, SessionQuiet DEF readVars, peerVars
  <2>2. \A u \in Nodes : Ended(u)' => Ended(u)
    BY <1>1, SessionEnds
  <2>. QED
    BY <2>1, <2>2, EndStays, RcStays
<1>2. CASE UNCHANGED vars
  <2>1. UNCHANGED <<pc, result, rc, taken, buffer, sent, broken, peerVars>>
    BY <1>2 DEF vars, sessionVars, readVars, peerVars
  <2>2. \A u \in Nodes : Ended(u)' => Ended(u)
    BY <2>1 DEF Ended
  <2>. QED
    BY <2>1, <2>2, EndStays, RcStays
<1>. QED
  BY <1>1, <1>2, ReadAndEnd, YieldAndEnd, RemoteAndEnd DEF Next, Exec, Terminated

\* Whichever stream ends first, exec returns 0 over an unbroken connection only
\* when every handler has every byte of both (ssh.c:500-507).
THEOREM Completeness == Spec => []CompleteAtEnd
<1>1. Init => RcInv /\ EndInv
  BY DEF Init, RcInv, EndInv, Ended, Unread
<1>2. ASSUME TypeInv, TransferInv, EndInv
      PROVE  CompleteAtEnd
  <2>. SUFFICES ASSUME NEW t \in Nodes, pc[t] = "returned", result[t] = 0, ~broken[t],
                       NEW h \in 1..Handlers, NEW s \in Streams
                PROVE  Given(h, t, s) = sent[t][s]
    BY DEF CompleteAtEnd
  <2>1. buffer[t] = << >> /\ taken[t][s] = Len(sent[t][s])
    BY <1>2 DEF EndInv, Ended
  <2>2. Given(h, t, s) \o Pending(h, t, s) = SubSeq(sent[t][s], 1, Len(sent[t][s]))
    BY <1>2, <2>1 DEF TransferInv, Transferred
  <2>3. sent[t][s] \in Seq(Int) /\ Given(h, t, s) \in Seq(Int)
    BY <1>2, GivenType DEF TypeInv, StreamTypes
  <2>4. SubSeq(sent[t][s], 1, Len(sent[t][s])) = sent[t][s]
    BY <2>3, SubSeqFull
  <2>5. Pending(h, t, s) = << >> /\ Given(h, t, s) \o << >> = Given(h, t, s)
    BY <2>1, <2>3, ConcatEmptySeq DEF Pending
  <2>. QED
    BY <2>2, <2>4, <2>5
<1>3. TypeInv /\ TransferInv /\ EndInv => CompleteAtEnd
  BY <1>2
<1>. QED
  BY <1>1, <1>3, TypesInit, TypesNext, YieldInit, YieldNext, TransferInit, TransferNext,
     EndNext, PTL DEF Spec

===============================================================================
