----------------------------- MODULE TorControl -----------------------------
(***************************************************************************)
(* The Tor control connection (TorControlConnection): send_command writes  *)
(* one command line and reads the reply line by line.  Tor (external)      *)
(* answers commands in order, may send asynchronous events between         *)
(* replies, and may close the connection at any point, cutting a reply or  *)
(* a line short.                                                           *)
(*                                                                         *)
(* The client tells replies apart by position only: it takes the next      *)
(* lines of the stream for the reply to the command it has just sent, be   *)
(* they an event or what it has left of an earlier reply.  A 6xx line      *)
(* without a second word ends the program.                                 *)
(***************************************************************************)
EXTENDS Integers, Sequences, FiniteSets, Functions

CONSTANTS
  MaxCommands, \* bound: commands sent on the connection
  MaxEvents    \* bound: asynchronous events (0 unless a caller subscribed)

ASSUME CommandAssumption == MaxCommands \in Nat
ASSUME EventAssumption == MaxEvents \in Nat

VARIABLES
  commands, \* number of commands sent so far
  toTor,    \* commands Tor has not answered
  said,     \* all the lines that arrive from Tor, in order
  read,     \* how many of them the client has read
  closed,   \* has Tor closed the connection
  events,   \* number of events sent so far
  reader,   \* what read_control_response is waiting for, or "panicked"
  begun,    \* how many lines came before the reply being read
  results   \* one record per command that has returned

vars == <<commands, toTor, said, read, closed, events, reader, begun, results>>

Ids == 1 .. MaxCommands
Event == 0  \* what the lines of an event are an answer to

(* code: 250/251, another synchronous code, 6xx.  form: the character after
   the code, "bare" for a 6xx line without a second word, or what a line
   without a code is.                                                      *)
Codes == {"ok", "error", "async"}
Forms == {"end", "mid", "data", "text", "dot", "garbled", "bare"}
Shape == [code : Codes, form : Forms]
(* A line of the stream; last: the last of a reply or of an event. *)
Line == [to : Ids \cup {Event}, code : Codes, form : Forms, last : BOOLEAN]

Sh(code, form) == [code |-> code, form |-> form]
OkEnd == Sh("ok", "end")    \* 250 OK
Mid == Sh("ok", "mid")      \* 250-key=value
Data == Sh("ok", "data")    \* 250+key=
Text == Sh("ok", "text")    \* a line of data
Dot == Sh("ok", "dot")      \* .
Error == Sh("error", "end") \* 551 Sorry
Garbled == Sh("ok", "garbled")
Bare == Sh("async", "bare") \* 650 OK

(* Taken whole by the client: a line, several, with an error for the last,
   data up to the dot, a line no expression matches.  Not taken whole: what
   follows the dot, and what follows a line that has no place after 250-.  *)
ReplyShapes ==
  { <<OkEnd>>, <<Error>>, <<Garbled>>, <<Mid, Mid, OkEnd>>, <<Mid, Error>>,
    <<Data, Text, Dot>>, <<Data, Text, Dot, OkEnd>>,
    <<Mid, Garbled, OkEnd>>, <<Mid, Data, Text, Dot, OkEnd>> }

(* One line, with or without a second word; several, closed by 650 OK. *)
EventShapes ==
  { <<Sh("async", "end")>>, <<Bare>>, <<Sh("async", "mid"), Bare>>,
    <<Sh("async", "data"), Text, Dot, Bare>> }

Lines(to, shape) ==
  [k \in DOMAIN shape |->
     [to |-> to, code |-> shape[k].code, form |-> shape[k].form,
      last |-> k = Len(shape)]]

Init ==
  /\ commands = 0
  /\ toTor = << >>
  /\ said = << >>
  /\ read = 0
  /\ closed = FALSE
  /\ events = 0
  /\ reader = "idle"
  /\ begun = 0
  /\ results = << >>

-----------------------------------------------------------------------------
(* Faulty variant: the lines of a finished reply stay in the buffer. *)
ReturnKeepsLines(ok, upto) ==
  /\ results' = Append(results, [ok |-> ok, first |-> begun + 1, upto |-> upto])
  /\ reader' = "idle"
  /\ UNCHANGED begun

(* The client.  A result is said[first] .. said[upto], no line at all if
   upto < first; its ok says whether send_command returned Ok.             *)
Return(ok, upto) ==
  /\ results' = Append(results, [ok |-> ok, first |-> begun + 1, upto |-> upto])
  /\ reader' = "idle"
  /\ begun' = upto

Continue(next) == reader' = next /\ UNCHANGED <<begun, results>>

(* The conversion of a captured line looks for its second word. *)
Panic == reader' = "panicked" /\ UNCHANGED <<begun, results>>

(* 250 | 251 => Ok(control_response); the code is the first line's. *)
Accepted == said[begun + 1].code = "ok"

(* send_command up to the first read.  The write fails, or not, when Tor has
   closed the connection: the engine keeps the connection it has.          *)
SendCommand ==
  /\ reader = "idle"
  /\ commands < MaxCommands
  /\ commands' = commands + 1
  /\ \/ /\ toTor' = IF closed THEN toTor ELSE Append(toTor, commands + 1)
        /\ Continue("first")
     \/ closed /\ Return(FALSE, begun) /\ UNCHANGED toTor
  /\ UNCHANGED <<said, read, closed, events>>

(* Faulty variant: a closing line of any code is gone past. *)
OnMidPastError(line) ==
  CASE line.form = "end" /\ line.code = "ok" -> Return(Accepted, read + 1)
    [] line.form \in {"mid", "end"} -> Continue("mid")
    [] line.form = "bare" -> Panic
    [] OTHER -> Return(FALSE, read + 1)

(* The first line decides the shape. *)
OnFirst(line) ==
  CASE line.form = "end" -> Return(Accepted, read + 1)
    [] line.form \in {"mid", "data"} -> Continue(line.form)
    [] line.form = "bare" -> Panic
    [] OTHER -> Return(FALSE, read + 1)

(* Faulty variant: the code of the closing line is not looked at. *)
OnMidAnyCode(line) ==
  CASE line.form = "end" -> Return(TRUE, read + 1)
    [] line.form = "mid" -> Continue("mid")
    [] line.form = "bare" -> Panic
    [] OTHER -> Return(FALSE, read + 1)

(* More 250- lines until a line with 250 and a space. *)
OnMid(line) ==
  CASE line.form = "end" /\ line.code = "ok" -> Return(Accepted, read + 1)
    [] line.form = "mid" -> Continue("mid")
    [] line.form = "bare" -> Panic
    [] OTHER -> Return(FALSE, read + 1)

(* Faulty variant: the dot is taken for another data line. *)
OnDataNoDot(line) == Continue("data")

(* Raw lines until a single dot. *)
OnData(line) ==
  IF line.form = "dot" THEN Return(Accepted, read + 1) ELSE Continue("data")

Waiting == reader \in {"first", "mid", "data"}

(* read_line returns a line and the parser takes it. *)
ReadLine ==
  /\ read < Len(said)
  /\ LET line == said[read + 1]
     IN  \/ reader = "first" /\ OnFirst(line)
         \/ reader = "mid" /\ OnMid(line)
         \/ reader = "data" /\ OnData(line)
  /\ read' = read + 1
  /\ UNCHANGED <<commands, toTor, said, closed, events>>

(* Faulty variant: what was read so far counts when the stream ends. *)
EofKeepsPartial == Return(begun < read /\ Accepted, read)
(* "Unexpected EOF on stream" *)
EofFails == Return(FALSE, read)

ReadEof ==
  /\ Waiting
  /\ read = Len(said)
  /\ closed
  /\ EofFails
  /\ UNCHANGED <<commands, toTor, said, read, closed, events>>

-----------------------------------------------------------------------------
(* Tor (external). *)
TorRepliesWith(shape) ==
  /\ ~closed
  /\ toTor # << >>
  /\ said' = said \o Lines(Head(toTor), shape)
  /\ toTor' = Tail(toTor)
  /\ UNCHANGED <<commands, read, closed, events, reader, begun, results>>

TorReplies == \E shape \in ReplyShapes : TorRepliesWith(shape)

TorSendsEvent ==
  /\ ~closed
  /\ events < MaxEvents
  /\ events' = events + 1
  /\ \E shape \in EventShapes : said' = said \o Lines(Event, shape)
  /\ UNCHANGED <<commands, toTor, read, closed, reader, begun, results>>

(* What is left of a line may match no expression, or have lost its second
   word; the decoder returns it all the same.                              *)
Stumps(line) ==
  {line} \cup
  {[line EXCEPT !.form = f] : f \in
     (IF line.form \in {"text", "dot"} THEN {} ELSE {"garbled"}) \cup
     (IF line.code = "async" THEN {"bare"} ELSE {})}

(* Tor goes away; what it sent last may be lost. *)
TorCloses ==
  /\ ~closed
  /\ closed' = TRUE
  /\ toTor' = << >>
  /\ \/ said' = SubSeq(said, 1, read)
     \/ \E k \in read + 1 .. Len(said) : \E line \in Stumps(said[k]) :
          said' = Append(SubSeq(said, 1, k - 1), line)
  /\ UNCHANGED <<commands, read, events, reader, begun, results>>

Next ==
  \/ SendCommand \/ ReadLine \/ ReadEof
  \/ TorReplies \/ TorSendsEvent \/ TorCloses

(* The reading task is woken for every line and by the stream's end. *)
ReaderIsWoken == WF_vars(ReadLine) /\ WF_vars(ReadEof)

(* Assumed of Tor: it answers what it gets, unless it ends the connection. *)
TorIsAlive == WF_vars(TorReplies)

Spec == Init /\ [][Next]_vars /\ ReaderIsWoken /\ TorIsAlive

-----------------------------------------------------------------------------
Result == [ok : BOOLEAN, first : Nat, upto : Nat]

(* Every variable stays in its range; what is being read begins with the line
   that announced its shape, and nothing is left of it after a return.     *)
TypeOK ==
  /\ commands \in 0 .. MaxCommands
  /\ toTor \in Seq(Ids)
  /\ said \in Seq(Line)
  /\ read \in 0 .. Len(said)
  /\ closed \in BOOLEAN
  /\ events \in 0 .. MaxEvents
  /\ reader \in {"idle", "first", "mid", "data", "panicked"}
  /\ begun \in 0 .. read
  /\ reader \in {"idle", "first"} => begun = read
  /\ reader \in {"mid", "data"} => begun < read /\ said[begun + 1].form = reader
  /\ results \in Seq(Result)

(* Line k is the first of a reply: the line before it ended what Tor was
   saying.                                                                 *)
BeginsReply(k) == said[k].to # Event /\ (k = 1 \/ said[k - 1].last)

(* Command i was told the reply to some command, from its first line on. *)
InStep(i) == results[i].first <= results[i].upto /\ BeginsReply(results[i].first)

(* Command i was told something else: an event, the rest of a reply that the
   client had refused, or what followed a dot.                             *)
Strays == {i \in DOMAIN results : ~InStep(i)}

(* The commands whose replies the client has neither read nor started on. *)
Unread == Range(toTor) \cup
          {said[k].to : k \in {j \in read + 1 .. Len(said) : BeginsReply(j)}}

(* On an open connection with no command in progress, the client is behind by
   exactly the commands that were told something else than a reply: nothing
   the client reads on one command's behalf, whatever shape it has and
   however it is refused, takes away the beginning of another's reply.     *)
LagIsStrays ==
  ~closed /\ reader = "idle" => Cardinality(Unread) = Cardinality(Strays)

(* A command that succeeded was told lines of one reply, to a command not
   later than itself, all of the code 250 and up to the reply's end or to a
   dot: never the beginning of one cut off by Tor's end, never lines of two. *)
SuccessIsWhole ==
  \A i \in DOMAIN results : LET r == results[i] IN
    r.ok =>
      /\ r.first <= r.upto
      /\ \A k \in r.first .. r.upto :
           /\ said[k].code = "ok"
           /\ said[k].to = said[r.first].to
           /\ k < r.upto => ~said[k].last /\ said[k].form # "dot"
      /\ said[r.first].to \in 1 .. i
      /\ said[r.upto].last \/ said[r.upto].form = "dot"

(* Of the replies that are told from their first line on, none is left out
   and none told out of order: the n-th belongs to the n-th command.  So a
   command is told its own reply until the first stray.                    *)
RepliesInOrder ==
  \A i \in DOMAIN results :
    InStep(i) => said[results[i].first].to = Cardinality({j \in 1 .. i : InStep(j)})

(* The event loop is blocked while a command waits; it is released whenever
   Tor answers or goes away, if only by a panic.                           *)
CommandReturns == Waiting ~> reader \in {"idle", "panicked"}

=============================================================================
