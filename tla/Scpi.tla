-------------------------------- MODULE Scpi ---------------------------------
(***************************************************************************)
(* Commands and queries to a SCPI instrument (scpi/scpi.c) over the serial   *)
(* transport (scpi/scpi_serial.c), from several threads: the mutex of the    *)
(* instrument, the channel it is believed to be on, and the answers that are *)
(* read from one stream, in chunks, until a line ends or time is up.         *)
(*                                                                         *)
(* The instrument is the environment.  It executes what it receives and      *)
(* answers queries in order, byte by byte: a line is some text and a newline, *)
(* a block is a header with its length, data, and a newline.                 *)
(*                                                                         *)
(* A definition named Mut_... is the next definition with a mistake in it;  *)
(* the specification does not use it.                                      *)
(***************************************************************************)
EXTENDS Integers, Sequences

CONSTANTS
  Threads, Channels, NULL,
  MaxCalls,    \* bound: calls
  MaxFaults    \* bound: failed writes and reads, and timeouts

ASSUME ScpiAssumption ==
  /\ NULL \notin Threads \cup Channels /\ MaxCalls \in Nat /\ MaxFaults \in Nat

VARIABLES
  pc,         \* per thread: "idle", "lock", "select", "send" or "read"
  op,         \* per thread: the call, its channel and the number of its query
  owner,      \* owner of scpi_mutex
  actual,     \* scpi->actual_channel_name
  response,   \* what has been read of the answer
  answer,     \* what the last query that succeeded has returned
  selected,   \* the instrument's channel
  out,        \* bytes the instrument will send
  stream,     \* bytes that have arrived
  queries,    \* queries sent so far
  dirty,      \* bytes were left unread by a call
  calls, faults

vars == <<pc, op, owner, actual, response, answer, selected, out, stream, queries, dirty,
          calls, faults>>

Names == {"cmd", "cmd_resp", "get_string", "get_block"}
NoOp == [name |-> "none", channel |-> NULL, query |-> 0]
NoAnswer == [query |-> 0, clean |-> TRUE, got |-> <<>>]

Part == {"text", "header", "data", "newline"}
Byte == [query : Nat, part : Part]
Bytes(q, parts) == [k \in 1 .. Len(parts) |-> [query |-> q, part |-> parts[k]]]
Parts(name) == IF name = "get_block" THEN <<"header", "data", "newline">>
                                     ELSE <<"text", "newline">>

TypeOK ==
  /\ pc \in [Threads -> {"idle", "lock", "select", "send", "read"}]
  /\ op \in [Threads -> [name : Names \cup {"none"}, channel : Channels \cup {NULL}, query : Nat]]
  /\ owner \in Threads \cup {NULL} /\ actual \in Channels \cup {NULL}
  /\ selected \in Channels /\ dirty \in BOOLEAN
  /\ out \in Seq(Byte) /\ stream \in Seq(Byte) /\ response \in Seq(Byte)
  /\ queries \in Nat /\ calls \in 0 .. MaxCalls /\ faults \in 0 .. MaxFaults

Init ==
  /\ pc = [t \in Threads |-> "idle"] /\ op = [t \in Threads |-> NoOp] /\ owner = NULL
  /\ actual = NULL /\ selected \in Channels
  /\ response = <<>> /\ answer = NoAnswer /\ out = <<>> /\ stream = <<>>
  /\ queries = 0 /\ dirty = FALSE /\ calls = 0 /\ faults = 0

Fault == faults < MaxFaults /\ faults' = faults + 1

-----------------------------------------------------------------------------
(* The instrument.                                                         *)

Emit ==
  /\ out # <<>> /\ stream' = Append(stream, Head(out)) /\ out' = Tail(out)
  /\ UNCHANGED <<pc, op, owner, actual, response, answer, selected, queries, dirty, calls,
                 faults>>

-----------------------------------------------------------------------------
(* Calls: sr_scpi_cmd(), sr_scpi_cmd_resp(), sr_scpi_get_string() and the     *)
(* conversions of its result, and sr_scpi_get_block().                       *)

Call(t, name, channel) ==
  /\ pc[t] = "idle" /\ calls < MaxCalls
  /\ calls' = calls + 1 /\ pc' = [pc EXCEPT ![t] = "lock"]
  /\ op' = [op EXCEPT ![t] = [name |-> name, channel |-> channel, query |-> 0]]
  /\ UNCHANGED <<owner, actual, response, answer, selected, out, stream, queries, dirty,
                 faults>>

\* g_mutex_lock().  The channel is selected if it is not the one that is known.
NeedsSelect(c) == c # NULL /\ c # actual

Lock(t) ==
  /\ pc[t] = "lock" /\ owner = NULL /\ owner' = t
  /\ pc' = [pc EXCEPT ![t] = IF NeedsSelect(op[t].channel) THEN "select" ELSE "send"]
  /\ UNCHANGED <<op, actual, response, answer, selected, out, stream, queries, dirty, calls,
                 faults>>

\* The return of a call: the mutex is unlocked, and the stream may still hold or
\* get something.
Return(t) ==
  pc' = [pc EXCEPT ![t] = "idle"] /\ op' = [op EXCEPT ![t] = NoOp] /\ owner' = NULL

\* When the selection cannot be sent, the call returns and the mutex stays locked.
Mut_UnlockOnError(t) == NULL
OwnerAfterError(t) == t

Select(t) ==
  /\ pc[t] = "select" /\ actual' = op[t].channel
  /\ \/ /\ selected' = op[t].channel /\ pc' = [pc EXCEPT ![t] = "send"]
        /\ UNCHANGED <<owner, faults>>
     \/ /\ Fault /\ pc' = [pc EXCEPT ![t] = "idle"] /\ owner' = OwnerAfterError(t)
        /\ UNCHANGED selected
  /\ UNCHANGED <<op, response, answer, out, stream, queries, dirty, calls>>

\* scpi_send_variadic(), and read_begin() for a query.
SendFails(t) ==
  /\ pc[t] = "send" /\ Fault /\ Return(t)
  /\ UNCHANGED <<actual, response, answer, selected, out, stream, queries, dirty, calls>>

SendCmd(t) ==
  /\ pc[t] = "send" /\ op[t].name = "cmd" /\ Return(t)
  /\ UNCHANGED <<actual, response, answer, selected, out, stream, queries, dirty, calls,
                 faults>>

Mut_UnlockToRead(t) == NULL
OwnerWhileReading(t) == t

SendQuery(t) ==
  /\ pc[t] = "send" /\ op[t].name # "cmd"
  /\ queries' = queries + 1 /\ op' = [op EXCEPT ![t].query = queries']
  /\ out' = out \o Bytes(queries', Parts(op[t].name))
  /\ response' = <<>> /\ owner' = OwnerWhileReading(t)
  /\ pc' = [pc EXCEPT ![t] = "read"]
  /\ UNCHANGED <<actual, answer, selected, stream, dirty, calls, faults>>

-----------------------------------------------------------------------------
(* The answer: scpi_get_data() with scpi_serial_read_data(), and              *)
(* sr_scpi_get_block().                                                      *)

\* A line is complete when a chunk ends with a newline, a block when its data is
\* there, as far as the length in the header says.
Mut_NewlineFirst(r) == r # <<>> /\ r[1].part = "newline"
LineComplete(r) == r # <<>> /\ r[Len(r)].part = "newline"

BlockLength == 2
Complete(t, r) ==
  IF op[t].name = "get_block" THEN Len(r) >= BlockLength ELSE LineComplete(r)

\* A block must begin with a header.  Blocks of length zero, which succeed without data,
\* and of indefinite length, which fail, are left out.
Succeeds(t, r) == op[t].name = "get_block" => r[1].part = "header"

Finish(t, r, ok) ==
  /\ Return(t) /\ response' = <<>> /\ dirty' = (dirty \/ out # <<>> \/ stream' # <<>>)
  /\ answer' = IF ok THEN [query |-> op[t].query, clean |-> ~dirty, got |-> r] ELSE answer

Read(t) ==
  /\ pc[t] = "read" /\ stream # <<>> /\ stream' = <<>>
  /\ LET r == response \o stream
     IN  IF Complete(t, r)
         THEN Finish(t, r, Succeeds(t, r))
         ELSE response' = r /\ UNCHANGED <<pc, op, owner, answer, dirty>>
  /\ UNCHANGED <<actual, selected, out, queries, calls, faults>>

\* Nothing more comes in time: part of a block counts as all of it.
Timeout(t) ==
  /\ pc[t] = "read" /\ stream = <<>> /\ Fault
  /\ UNCHANGED <<actual, selected, out, stream, queries, calls>>
  /\ Finish(t, response, op[t].name = "get_block" /\ response # <<>> /\ Succeeds(t, response))

\* The transport reports an error: so does the call, with part of a block or without.
ReadFails(t) ==
  /\ pc[t] = "read" /\ Fault
  /\ UNCHANGED <<actual, selected, out, stream, queries, calls>>
  /\ Finish(t, response, FALSE)

\* sr_scpi_close() and sr_scpi_open(), between calls: what has arrived is flushed.
Reopen ==
  /\ \A t \in Threads : pc[t] = "idle"
  /\ owner = NULL /\ dirty
  /\ stream' = <<>> /\ dirty' = (out # <<>>)
  /\ UNCHANGED <<pc, op, owner, actual, response, answer, selected, out, queries, calls, faults>>

-----------------------------------------------------------------------------
Step(t) ==
  \/ Lock(t) \/ Select(t) \/ SendFails(t) \/ SendCmd(t) \/ SendQuery(t)
  \/ Read(t) \/ Timeout(t) \/ ReadFails(t)

Next ==
  \/ \E t \in Threads, name \in {"cmd", "cmd_resp"}, c \in Channels : Call(t, name, c)
  \/ \E t \in Threads, name \in {"get_string", "get_block"} : Call(t, name, NULL)
  \/ \E t \in Threads : Step(t)
  \/ Emit \/ Reopen

Spec == Init /\ [][Next]_vars

\* Threads run, and the instrument answers.
FairSpec == Spec /\ WF_vars(Emit) /\ \A t \in Threads : WF_vars(Step(t))

-----------------------------------------------------------------------------
(* Properties.                                                             *)

\* A command is sent when the instrument is on the channel it is meant for, whatever
\* the other threads have selected in between.
RightChannel ==
  \A t \in Threads : pc[t] = "send" /\ op[t].channel # NULL => selected = op[t].channel

\* "Send a SCPI command, receive the reply and store the reply in scpi_response": on
\* a stream that nothing was left in, a call that succeeds returns its own answer
\* from its beginning, all of a line, and of a block what came in time.
Own(a) ==
  \/ a.got = Bytes(a.query, Parts("get_string"))
  \/ a.got = SubSeq(Bytes(a.query, Parts("get_block")), 1, Len(a.got))
OwnAnswer == answer.query # 0 /\ answer.clean => Own(answer)

\* Every call returns, unless the mutex was left locked by one that has returned.
Orphaned == owner # NULL /\ pc[owner] \in {"idle", "lock"}
CallsReturn == \A t \in Threads : pc[t] # "idle" ~> (pc[t] = "idle" \/ Orphaned)
=============================================================================
