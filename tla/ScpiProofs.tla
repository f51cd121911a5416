----------------------------- MODULE ScpiProofs ------------------------------
(***************************************************************************)
(* Proofs about Scpi.  A command goes to the right channel because the cached *)
(* channel name is the instrument's channel whenever a thread can get at it:  *)
(* a selection that fails leaves the cache wrong and the mutex locked for    *)
(* good.                                                                   *)
(***************************************************************************)
EXTENDS Scpi, TLAPS

Inside == {"select", "send", "read"}

\* A call that is under way has a name, and a selection has a channel.
CallKnown ==
  \A t \in Threads : /\ pc[t] # "idle" => op[t].name \in Names
                     /\ pc[t] = "select" => op[t].channel # NULL

\* Who is between lock and unlock owns the mutex.
Exclusive == \A t \in Threads : pc[t] \in Inside => owner = t

\* The cache is empty, right, or out of reach.
CacheRight == actual = NULL \/ actual = selected \/ Orphaned

\* A command that is about to be sent is for the cached channel.
SendsToCached ==
  \A t \in Threads : pc[t] = "send" /\ op[t].channel # NULL => actual = op[t].channel

ChannelInv == TypeOK /\ CallKnown /\ Exclusive /\ CacheRight /\ SendsToCached

-----------------------------------------------------------------------------
\* The specification begins in the channel's invariant.
LEMMA ChannelInit == Init => ChannelInv
<1> SUFFICES ASSUME Init PROVE ChannelInv
  OBVIOUS
<1>1. TypeOK
  <2>1. out \in Seq(Byte) /\ stream \in Seq(Byte) /\ response \in Seq(Byte)
    BY DEF Init
  <2>2. pc \in [Threads -> {"idle", "lock", "select", "send", "read"}]
    BY DEF Init
  <2>3. op \in [Threads -> [name : Names \cup {"none"}, channel : Channels \cup {NULL},
                            query : Nat]]
    BY DEF Init, NoOp
  <2>4. /\ owner \in Threads \cup {NULL} /\ actual \in Channels \cup {NULL}
        /\ selected \in Channels /\ dirty \in BOOLEAN
    BY DEF Init
  <2>5. queries \in Nat /\ calls \in 0 .. MaxCalls /\ faults \in 0 .. MaxFaults
    BY ScpiAssumption DEF Init
  <2> QED
    BY <2>1, <2>2, <2>3, <2>4, <2>5 DEF TypeOK
<1>2. CallKnown /\ Exclusive /\ CacheRight /\ SendsToCached
  BY DEF Init, CallKnown, Exclusive, CacheRight, SendsToCached, Inside
<1> QED
  BY <1>1, <1>2 DEF ChannelInv

\* The bytes of an answer are bytes.
LEMMA BytesType ==
  ASSUME NEW q \in Nat, NEW name \in Names
  PROVE  Bytes(q, Parts(name)) \in Seq(Byte)
  BY DEF Bytes, Parts, Part, Names, Byte

\* The return of a call keeps the types of what it assigns.
LEMMA ReturnType ==
  ASSUME TypeOK, NEW t \in Threads, Return(t)
  PROVE  /\ pc' \in [Threads -> {"idle", "lock", "select", "send", "read"}]
         /\ op' \in [Threads -> [name : Names \cup {"none"}, channel : Channels \cup {NULL},
                                 query : Nat]]
         /\ owner' \in Threads \cup {NULL}
<1>1. NoOp \in [name : Names \cup {"none"}, channel : Channels \cup {NULL}, query : Nat]
  BY DEF NoOp
<1> QED
  BY <1>1 DEF TypeOK, Return

\* A fault is counted up to the bound.
LEMMA FaultType == TypeOK /\ Fault => faults' \in 0 .. MaxFaults
  BY ScpiAssumption DEF TypeOK, Fault

\* Every step keeps the types.
LEMMA TypeStep == TypeOK /\ CallKnown /\ [Next]_vars => TypeOK'
<1> SUFFICES ASSUME TypeOK, CallKnown, [Next]_vars PROVE TypeOK'
  OBVIOUS
<1>1. ASSUME NEW t \in Threads, NEW name \in Names, NEW c \in Channels \cup {NULL},
             Call(t, name, c)
      PROVE  TypeOK'
  <2>1. calls' \in 0 .. MaxCalls
    BY <1>1, ScpiAssumption DEF TypeOK, Call
  <2> QED
    BY <1>1, <2>1 DEF TypeOK, Call
<1>2. ASSUME NEW t \in Threads, Lock(t) PROVE TypeOK'
  BY <1>2 DEF TypeOK, Lock
<1>3. ASSUME NEW t \in Threads, Select(t) PROVE TypeOK'
  <2>1. op[t].channel \in Channels
    BY <1>3 DEF TypeOK, CallKnown, Select
  <2>2. faults' \in 0 .. MaxFaults
    BY <1>3, FaultType DEF TypeOK, Select
  <2>3. pc' \in [Threads -> {"idle", "lock", "select", "send", "read"}]
    BY <1>3 DEF TypeOK, Select
  <2>4. owner' \in Threads \cup {NULL} /\ actual' \in Channels /\ selected' \in Channels
    BY <1>3, <2>1 DEF TypeOK, Select, OwnerAfterError
  <2> QED
    BY <1>3, <2>2, <2>3, <2>4 DEF TypeOK, Select
<1>4. ASSUME NEW t \in Threads, SendFails(t) \/ SendCmd(t) PROVE TypeOK'
  <2>1. Return(t)
    BY <1>4 DEF SendFails, SendCmd
  <2>2. faults' \in 0 .. MaxFaults
    BY <1>4, FaultType DEF TypeOK, SendFails, SendCmd
  <2> QED
    BY <1>4, <2>1, <2>2, ReturnType DEF TypeOK, SendFails, SendCmd
<1>5. ASSUME NEW t \in Threads, SendQuery(t) PROVE TypeOK'
  <2>1. op[t].name \in Names
    BY <1>5 DEF CallKnown, SendQuery
  <2>2. queries' \in Nat
    BY <1>5 DEF TypeOK, SendQuery
  <2>3. out' \in Seq(Byte)
    BY <1>5, <2>1, <2>2, BytesType DEF TypeOK, SendQuery
  <2>4. response' \in Seq(Byte)
    BY <1>5 DEF SendQuery
  <2>5. pc' \in [Threads -> {"idle", "lock", "select", "send", "read"}]
    BY <1>5 DEF TypeOK, SendQuery
  <2>6. op' \in [Threads -> [name : Names \cup {"none"}, channel : Channels \cup {NULL},
                             query : Nat]]
    BY <1>5, <2>2 DEF TypeOK, SendQuery
  <2> QED
    BY <1>5, <2>2, <2>3, <2>4, <2>5, <2>6 DEF TypeOK, SendQuery, OwnerWhileReading
<1>6. ASSUME NEW t \in Threads, Read(t) PROVE TypeOK'
  <2>1. stream' \in Seq(Byte) /\ response \o stream \in Seq(Byte)
    BY <1>6 DEF TypeOK, Read
  <2>2. CASE Complete(t, response \o stream)
    <3>1. Finish(t, response \o stream, Succeeds(t, response \o stream))
      BY <1>6, <2>2 DEF Read
    <3>2. Return(t) /\ response' \in Seq(Byte) /\ dirty' \in BOOLEAN
      BY <3>1 DEF Finish, TypeOK
    <3> QED
      BY <1>6, <2>1, <3>2, ReturnType DEF TypeOK, Read
  <2>3. CASE ~Complete(t, response \o stream)
    BY <1>6, <2>1, <2>3 DEF TypeOK, Read
  <2> QED
    BY <2>2, <2>3
<1>7. ASSUME NEW t \in Threads, Timeout(t) \/ ReadFails(t) PROVE TypeOK'
  <2>1. Return(t) /\ response' \in Seq(Byte) /\ dirty' \in BOOLEAN
    <3>1. CASE Timeout(t)
      BY <3>1 DEF Timeout, Finish, TypeOK
    <3>2. CASE ReadFails(t)
      BY <3>2 DEF ReadFails, Finish, TypeOK
    <3> QED
      BY <1>7, <3>1, <3>2
  <2>2. faults' \in 0 .. MaxFaults
    BY <1>7, FaultType DEF Timeout, ReadFails
  <2> QED
    BY <1>7, <2>1, <2>2, ReturnType DEF TypeOK, Timeout, ReadFails
<1>8. CASE Emit
  <2>1. stream' \in Seq(Byte) /\ out' \in Seq(Byte)
    BY <1>8 DEF TypeOK, Emit
  <2> QED
    BY <1>8, <2>1 DEF TypeOK, Emit
<1>9. CASE Reopen
  <2>1. stream' \in Seq(Byte) /\ dirty' \in BOOLEAN
    BY <1>9 DEF TypeOK, Reopen
  <2> QED
    BY <1>9, <2>1 DEF TypeOK, Reopen
<1>10. CASE UNCHANGED vars
  BY <1>10 DEF TypeOK, vars
<1> QED
  BY <1>1, <1>2, <1>3, <1>4, <1>5, <1>6, <1>7, <1>8, <1>9, <1>10 DEF Next, Step, Names

-----------------------------------------------------------------------------
\* Every step keeps the channel's invariant.
LEMMA ChannelStep == ChannelInv /\ [Next]_vars => ChannelInv'
<1> SUFFICES ASSUME ChannelInv, [Next]_vars PROVE ChannelInv'
  OBVIOUS
<1> USE DEF ChannelInv
<1> DEFINE Rest == CallKnown /\ Exclusive /\ CacheRight /\ SendsToCached
<1>0. TypeOK'
  BY TypeStep
<1>1. ASSUME NEW t \in Threads, NEW name \in Names, NEW c \in Channels \cup {NULL},
             Call(t, name, c)
      PROVE  Rest'
  BY <1>1, ScpiAssumption
     DEF TypeOK, CallKnown, Exclusive, CacheRight, SendsToCached, Call, Orphaned, Inside
<1>2. ASSUME NEW t \in Threads, Lock(t) PROVE Rest'
  BY <1>2, ScpiAssumption
     DEF TypeOK, CallKnown, Exclusive, CacheRight, SendsToCached, Lock, NeedsSelect, Orphaned,
         Inside
<1>3. ASSUME NEW t \in Threads, Select(t) PROVE Rest'
  BY <1>3, ScpiAssumption
     DEF TypeOK, CallKnown, Exclusive, CacheRight, SendsToCached, Select, OwnerAfterError,
         Orphaned, Inside
<1>4. ASSUME NEW t \in Threads, pc[t] \in Inside, Return(t), UNCHANGED <<actual, selected>>
      PROVE  Rest'
  BY <1>4, ScpiAssumption
     DEF TypeOK, CallKnown, Exclusive, CacheRight, SendsToCached, Return, Orphaned, Inside
<1>5. ASSUME NEW t \in Threads, SendQuery(t) PROVE Rest'
  BY <1>5, ScpiAssumption
     DEF TypeOK, CallKnown, Exclusive, CacheRight, SendsToCached, SendQuery, OwnerWhileReading,
         Orphaned, Inside
<1>6. ASSUME pc' = pc, op' = op, owner' = owner, actual' = actual, selected' = selected
      PROVE  Rest'
  BY <1>6 DEF CallKnown, Exclusive, CacheRight, SendsToCached, Orphaned
<1>7. ASSUME NEW t \in Threads, SendFails(t) \/ SendCmd(t) \/ Timeout(t) \/ ReadFails(t)
      PROVE  Rest'
  BY <1>4, <1>7 DEF SendFails, SendCmd, Timeout, ReadFails, Finish, Inside
<1>8. ASSUME NEW t \in Threads, Read(t) PROVE Rest'
  <2>1. CASE Complete(t, response \o stream)
    BY <1>4, <1>8, <2>1 DEF Read, Finish, Inside
  <2>2. CASE ~Complete(t, response \o stream)
    BY <1>6, <1>8, <2>2 DEF Read
  <2> QED
    BY <2>1, <2>2
<1>9. ASSUME Emit \/ Reopen \/ UNCHANGED vars PROVE Rest'
  <2>1. pc' = pc /\ op' = op /\ owner' = owner /\ actual' = actual /\ selected' = selected
    BY <1>9 DEF Emit, Reopen, vars
  <2> QED
    BY <1>6, <2>1
<1>10. Rest'
  BY <1>1, <1>2, <1>3, <1>5, <1>7, <1>8, <1>9 DEF Next, Step, Names
<1> QED
  BY <1>0, <1>10

\* The channel's invariant is one.
LEMMA ChannelCorrect == Spec => []ChannelInv
  BY ChannelInit, ChannelStep, PTL DEF Spec

\* Every call keeps the types of the connection's state: bytes of the stream and of
\* the answer, the owner of the mutex, the cached channel.
THEOREM TypeCorrect == Spec => []TypeOK
<1>1. ChannelInv => TypeOK
  BY DEF ChannelInv
<1> QED
  BY <1>1, ChannelCorrect, PTL

\* Whatever the threads select in between, a command of sr_scpi_cmd() or
\* sr_scpi_cmd_resp() is sent when the instrument is on the command's channel.
THEOREM ChannelsRight == Spec => []RightChannel
<1>1. ChannelInv => RightChannel
  <2> SUFFICES ASSUME ChannelInv, NEW t \in Threads, pc[t] = "send", op[t].channel # NULL
               PROVE  selected = op[t].channel
    BY DEF RightChannel
  <2>1. actual = op[t].channel /\ owner = t
    BY DEF ChannelInv, SendsToCached, Exclusive, Inside
  <2>2. ~Orphaned
    BY <2>1 DEF Orphaned
  <2> QED
    BY <2>1, <2>2 DEF ChannelInv, CacheRight
<1> QED
  BY <1>1, ChannelCorrect, PTL

-----------------------------------------------------------------------------
(* A call gets its own answer.  While nothing was left in the stream, what has *)
(* been read, what has arrived and what is to come are together the answer to  *)
(* the query of the one thread that reads, and nothing when no thread does.    *)

Expected(t) == Bytes(op[t].query, Parts(op[t].name))

StreamInv ==
  ~dirty => /\ (\A t \in Threads : pc[t] # "read") => out = <<>> /\ stream = <<>>
            /\ \A t \in Threads : pc[t] = "read" => (response \o stream) \o out = Expected(t)

AnswerInv == ChannelInv /\ StreamInv /\ OwnAnswer

\* The first part of a sequence is a prefix of it.
LEMMA PrefixOf ==
  ASSUME NEW a \in Seq(Byte), NEW b \in Seq(Byte)
  PROVE  /\ a = SubSeq(a \o b, 1, Len(a))
         /\ \A k \in 1 .. Len(a) : a[k] = (a \o b)[k]
         /\ Len(a) <= Len(a \o b)
         /\ Len(a) = Len(a \o b) => a = a \o b
  OBVIOUS

\* A byte that arrives moves from one part of the answer to the next.
LEMMA Arrives ==
  ASSUME NEW r \in Seq(Byte), NEW s \in Seq(Byte), NEW o \in Seq(Byte), o # <<>>
  PROVE  (r \o Append(s, Head(o))) \o Tail(o) = (r \o s) \o o
  BY SMTT(30)

\* Nothing precedes an answer in a clean stream.
LEMMA NothingBefore ==
  ASSUME NEW s \in Seq(Byte)
  PROVE  <<>> \o s = s /\ s \o <<>> = s /\ (<<>> \o <<>>) \o s = s
  OBVIOUS

\* The newline of a line is its last byte.
LEMMA LineEnds ==
  ASSUME NEW q \in Nat, NEW name \in Names \ {"get_block"}, NEW a \in Seq(Byte),
         NEW b \in Seq(Byte), a \o b = Bytes(q, Parts(name)), LineComplete(a)
  PROVE  a = Bytes(q, Parts("get_string"))
<1> DEFINE c == Bytes(q, Parts(name))
<1>1. Len(c) = 2 /\ c[1].part = "text" /\ c[2].part = "newline"
  BY DEF Bytes, Parts, Names
<1>2. c = Bytes(q, Parts("get_string"))
  BY DEF Parts, Names
<1>3. Len(a) \in 1 .. 2
  BY <1>1, PrefixOf DEF LineComplete
<1>4. c[Len(a)].part = "newline"
  BY <1>3, PrefixOf DEF LineComplete
<1>5. Len(a) = Len(c)
  <2>1. Len(a) # 1
    BY <1>1, <1>4
  <2> QED
    BY <1>1, <1>3, <2>1
<1> QED
  BY <1>2, <1>5, PrefixOf

\* Every step keeps the answers right.
LEMMA AnswerStep == AnswerInv /\ [Next]_vars => StreamInv' /\ OwnAnswer'
<1> SUFFICES ASSUME AnswerInv, [Next]_vars PROVE StreamInv' /\ OwnAnswer'
  OBVIOUS
<1>0. /\ TypeOK /\ CallKnown /\ Exclusive
      /\ out \in Seq(Byte) /\ stream \in Seq(Byte) /\ response \in Seq(Byte)
  BY DEF AnswerInv, ChannelInv, TypeOK
<1>1. ASSUME NEW t \in Threads, pc[t] # "read", pc'[t] # "read",
             \A u \in Threads \ {t} : pc'[u] = pc[u] /\ op'[u] = op[u],
             out' = out, stream' = stream, response' = response, answer' = answer,
             dirty' = dirty
      PROVE  StreamInv' /\ OwnAnswer'
  <2>1. OwnAnswer'
    BY <1>1 DEF AnswerInv, OwnAnswer
  <2>2. \A u \in Threads : pc'[u] = "read" => u # t /\ pc[u] = "read" /\ op'[u] = op[u]
    BY <1>1
  <2>3. (\A u \in Threads : pc'[u] # "read") => \A u \in Threads : pc[u] # "read"
    BY <1>1
  <2>4. ASSUME NEW u \in Threads, pc'[u] = "read" PROVE Expected(u)' = Expected(u)
    BY <2>2, <2>4 DEF Expected
  <2>5. StreamInv'
    BY <1>1, <2>2, <2>3, <2>4 DEF AnswerInv, StreamInv
  <2> QED
    BY <2>1, <2>5
<1>2. ASSUME NEW t \in Threads, NEW name, NEW c, Call(t, name, c)
      PROVE  StreamInv' /\ OwnAnswer'
  BY <1>0, <1>1, <1>2 DEF Call, TypeOK
<1>3. ASSUME NEW t \in Threads, Lock(t) \/ Select(t) PROVE StreamInv' /\ OwnAnswer'
  BY <1>0, <1>1, <1>3 DEF Lock, Select, TypeOK
<1>4. ASSUME NEW t \in Threads, SendFails(t) \/ SendCmd(t) PROVE StreamInv' /\ OwnAnswer'
  BY <1>0, <1>1, <1>4 DEF SendFails, SendCmd, Return, TypeOK
<1>5. ASSUME NEW t \in Threads, SendQuery(t) PROVE StreamInv' /\ OwnAnswer'
  <2>1. OwnAnswer'
    BY <1>5 DEF AnswerInv, OwnAnswer, SendQuery
  <2>2. \A u \in Threads : pc[u] # "read"
    BY <1>0, <1>5 DEF Exclusive, SendQuery, Inside, TypeOK
  <2>3. \A u \in Threads : pc'[u] = "read" => u = t
    BY <1>0, <1>5, <2>2 DEF SendQuery, TypeOK
  <2>4. Expected(t)' = Bytes(queries', Parts(op[t].name))
    BY <1>0, <1>5 DEF SendQuery, TypeOK, Expected
  <2>5. Bytes(queries', Parts(op[t].name)) \in Seq(Byte)
    <3>1. queries' \in Nat /\ op[t].name \in Names
      BY <1>0, <1>5 DEF SendQuery, TypeOK, CallKnown
    <3> QED
      BY <3>1, BytesType
  <2>6. ASSUME ~dirty PROVE (response' \o stream') \o out' = Bytes(queries', Parts(op[t].name))
    <3>1. out = <<>> /\ stream = <<>>
      BY <2>2, <2>6 DEF AnswerInv, StreamInv
    <3>2. out' = <<>> \o Bytes(queries', Parts(op[t].name)) /\ stream' = <<>> /\ response' = <<>>
      BY <1>5, <3>1 DEF SendQuery
    <3> QED
      BY <2>5, <3>2, NothingBefore
  <2>7. dirty' = dirty /\ pc'[t] = "read"
    BY <1>0, <1>5 DEF SendQuery, TypeOK
  <2>8. StreamInv'
    BY <2>3, <2>4, <2>6, <2>7 DEF StreamInv
  <2> QED
    BY <2>1, <2>8
<1>6. ASSUME NEW t \in Threads, NEW r \in Seq(Byte), NEW s \in Seq(Byte), NEW ok,
             pc[t] = "read", r = response \o s, stream = s, stream' = <<>>, out' = out,
             Finish(t, r, ok),
             ok => \/ op[t].name # "get_block" /\ LineComplete(r)
                   \/ op[t].name = "get_block"
      PROVE  StreamInv' /\ OwnAnswer'
  <2>1. \A u \in Threads : pc'[u] # "read"
    BY <1>0, <1>6 DEF Exclusive, Finish, Return, Inside, TypeOK
  <2>2. StreamInv'
    BY <1>6, <2>1 DEF StreamInv, Finish
  <2>3. CASE ~ok \/ dirty
    BY <1>6, <2>2, <2>3 DEF AnswerInv, OwnAnswer, Finish
  <2>4. CASE ok /\ ~dirty
    <3>1. r \o out = Expected(t)
      BY <1>6, <2>4 DEF AnswerInv, StreamInv
    <3>2. op[t].query \in Nat /\ op[t].name \in Names
      BY <1>0, <1>6 DEF TypeOK, CallKnown
    <3>3. answer' = [query |-> op[t].query, clean |-> TRUE, got |-> r]
      BY <1>6, <2>4 DEF Finish
    <3>4. CASE op[t].name # "get_block"
      <4>1. r = Bytes(op[t].query, Parts("get_string"))
        BY <1>0, <1>6, <2>4, <3>1, <3>2, <3>4, LineEnds DEF Expected
      <4> QED
        BY <2>2, <3>3, <4>1 DEF OwnAnswer, Own
    <3>5. CASE op[t].name = "get_block"
      <4>1. r = SubSeq(Bytes(op[t].query, Parts("get_block")), 1, Len(r))
        BY <1>0, <1>6, <3>1, <3>5, PrefixOf DEF Expected
      <4> QED
        BY <2>2, <3>3, <4>1 DEF OwnAnswer, Own
    <3> QED
      BY <3>4, <3>5
  <2> QED
    BY <2>2, <2>3, <2>4
<1>7. ASSUME NEW t \in Threads, Read(t) PROVE StreamInv' /\ OwnAnswer'
  <2>1. response \o stream \in Seq(Byte) /\ stream' = <<>> /\ out' = out /\ pc[t] = "read"
    BY <1>0, <1>7 DEF Read
  <2>2. CASE Complete(t, response \o stream)
    <3>1. Finish(t, response \o stream, Succeeds(t, response \o stream))
      BY <1>7, <2>2 DEF Read
    <3> QED
      BY <1>0, <1>6, <2>1, <2>2, <3>1 DEF Complete
  <2>3. CASE ~Complete(t, response \o stream)
    <3>1. /\ response' = response \o stream /\ pc' = pc /\ op' = op /\ answer' = answer
          /\ dirty' = dirty
      BY <1>7, <2>3 DEF Read
    <3>2. response' \o stream' = response \o stream
      BY <2>1, <3>1, NothingBefore
    <3>3. OwnAnswer'
      BY <3>1 DEF AnswerInv, OwnAnswer
    <3>4. \A u \in Threads : Expected(u)' = Expected(u)
      BY <3>1 DEF Expected
    <3>5. StreamInv'
      BY <2>1, <3>1, <3>2, <3>4 DEF AnswerInv, StreamInv
    <3> QED
      BY <3>3, <3>5
  <2> QED
    BY <2>2, <2>3
<1>8. ASSUME NEW t \in Threads, Timeout(t) PROVE StreamInv' /\ OwnAnswer'
  <2>1. /\ stream = <<>> /\ stream' = <<>> /\ out' = out /\ pc[t] = "read"
        /\ response = response \o <<>> /\ <<>> \in Seq(Byte)
    BY <1>0, <1>8, NothingBefore DEF Timeout
  <2>2. Finish(t, response, op[t].name = "get_block" /\ response # <<>> /\ Succeeds(t, response))
    BY <1>8 DEF Timeout
  <2> QED
    BY <1>0, <1>6, <2>1, <2>2
<1>12. ASSUME NEW t \in Threads, ReadFails(t) PROVE StreamInv' /\ OwnAnswer'
  <2>1. \A u \in Threads : pc'[u] # "read"
    BY <1>0, <1>12 DEF Exclusive, ReadFails, Finish, Return, Inside, TypeOK
  <2>2. StreamInv'
    BY <1>12, <2>1 DEF StreamInv, ReadFails, Finish
  <2>3. OwnAnswer'
    BY <1>12 DEF AnswerInv, OwnAnswer, ReadFails, Finish
  <2> QED
    BY <2>2, <2>3
<1>9. CASE Emit
  <2>1. /\ pc' = pc /\ op' = op /\ answer' = answer /\ dirty' = dirty /\ response' = response
        /\ out # <<>> /\ stream' = Append(stream, Head(out)) /\ out' = Tail(out)
    BY <1>9 DEF Emit
  <2>2. (response' \o stream') \o out' = (response \o stream) \o out
    BY <1>0, <2>1, Arrives
  <2>3. OwnAnswer'
    BY <2>1 DEF AnswerInv, OwnAnswer
  <2>4. \A u \in Threads : Expected(u)' = Expected(u)
    BY <2>1 DEF Expected
  <2>5. StreamInv'
    BY <2>1, <2>2, <2>4 DEF AnswerInv, StreamInv
  <2> QED
    BY <2>3, <2>5
<1>10. CASE Reopen
  <2>1. StreamInv'
    BY <1>10 DEF StreamInv, Reopen
  <2> QED
    BY <1>10, <2>1 DEF AnswerInv, OwnAnswer, Reopen
<1>11. CASE UNCHANGED vars
  BY <1>11 DEF AnswerInv, StreamInv, OwnAnswer, Expected, vars
<1> QED
  BY <1>2, <1>3, <1>4, <1>5, <1>7, <1>8, <1>9, <1>10, <1>11, <1>12 DEF Next, Step

\* "Send a SCPI command, receive the reply and store the reply": for any number of
\* threads and calls, a query that succeeds on a stream nothing was left in has got
\* its own answer.
THEOREM AnswersOwn == Spec => []OwnAnswer
<1>1. Init => StreamInv /\ OwnAnswer
  BY DEF Init, StreamInv, OwnAnswer, NoAnswer
<1>2. AnswerInv /\ [Next]_vars => AnswerInv'
  BY ChannelStep, AnswerStep DEF AnswerInv
<1>3. Spec => []AnswerInv
  BY <1>1, <1>2, ChannelInit, PTL DEF Spec, AnswerInv
<1>4. AnswerInv => OwnAnswer
  BY DEF AnswerInv
<1> QED
  BY <1>3, <1>4, PTL
=============================================================================
