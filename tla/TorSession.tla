----------------------------- MODULE TorSession -----------------------------
(***************************************************************************)
(* The engine's conversation with Tor: one control connection, kept for    *)
(* all creations, on which each creation sends AUTHENTICATE and, if that   *)
(* was accepted, ADD_ONION, and takes the service from the first line of   *)
(* its reply; the program ends if what the line says is no service's id.   *)
(* The connection is TorControl's, line by line; the composed system       *)
(* implements OnionCreation.                                               *)
(*                                                                         *)
(* The client subscribes to no events, so that Tor sends none here, and    *)
(* asks for no data.                                                       *)
(***************************************************************************)
EXTENDS TorControl

VARIABLES
  count, \* creations begun
  step,  \* the command the current creation waits for, "idle" or "panicked"
  kinds, \* history: what each command was, and of which creation
  granted, \* history: what Tor has granted, as a member of kinds
  handed \* services returned to the engine, by the creation they are of

sessionVars == <<commands, toTor, said, read, closed, events, reader, begun,
                 results, count, step, kinds, granted, handed>>

MaxCreations == MaxCommands \div 2

SessionInit ==
  Init /\ count = 0 /\ step = "idle" /\ kinds = << >> /\ granted = {} /\ handed = {}

-----------------------------------------------------------------------------
Send(what, n) ==
  /\ SendCommand
  /\ step' = what
  /\ kinds' = Append(kinds, [what |-> what, creation |-> n])

(* Engine::create_transient_onion_service authenticates every time, also on
   a connection that has been authenticated or is dead.                    *)
Begin ==
  /\ step = "idle"
  /\ count < MaxCreations
  /\ count' = count + 1
  /\ Send("auth", count + 1)
  /\ UNCHANGED <<granted, handed>>

(* The reply of the command in progress, once send_command has returned. *)
Returned == step \in {"auth", "add"} /\ reader = "idle"
Reply == results[Len(results)]

(* Faulty variant: any reply will do. *)
AnyReply == TRUE
(* TorAuthentication::authenticate, without a credential: an error unless the
   reply is a 250.                                                         *)
AuthAccepted == Reply.ok

Authenticated ==
  /\ Returned
  /\ step = "auth"
  /\ AuthAccepted
  /\ Send("add", count)
  /\ UNCHANGED <<count, granted, handed>>

(* The first line has a value after '='. *)
HasValue == Reply.ok /\ said[Reply.first].form = "mid"

(* The value is the id of the service made by the command whose reply this is. *)
HandsOver ==
  /\ Returned
  /\ step = "add"
  /\ HasValue
  /\ handed' = handed \cup
       {[creation |-> count, service |-> kinds[said[Reply.first].to].creation]}
  /\ step' = "idle"
  /\ UNCHANGED vars /\ UNCHANGED <<count, kinds, granted>>

(* The value is not 35 bytes in base 32: the conversion's unwrap ends the
   program.                                                                *)
Panics ==
  /\ Returned
  /\ step = "add"
  /\ HasValue
  /\ step' = "panicked"
  /\ UNCHANGED vars /\ UNCHANGED <<count, kinds, granted, handed>>

(* Refused, unreadable or cut off; or, once authenticated, the listen address
   cannot be written the way Tor wants it and nothing more is sent.        *)
Fails ==
  /\ Returned
  /\ step = "auth" \/ ~HasValue
  /\ step' = "idle"
  /\ UNCHANGED vars /\ UNCHANGED <<count, kinds, granted, handed>>

-----------------------------------------------------------------------------
(* External: Tor answers AUTHENTICATE with one line; ADD_ONION with one, or
   with the lines that describe the service.                               *)
Answers(what) ==
  {<<OkEnd>>, <<Error>>, <<Garbled>>} \cup
  (IF what = "add" THEN {<<Mid, Mid, OkEnd>>, <<Mid, Error>>} ELSE {})

(* Tor grants what it answers with 250 lines that can be read. *)
Grants(shape) ==
  \A k \in DOMAIN shape : shape[k].code = "ok" /\ shape[k].form # "garbled"

TorAnswers ==
  \E shape \in Answers(step) :
    /\ TorRepliesWith(shape)
    /\ granted' = IF Grants(shape) THEN granted \cup {kinds[Head(toTor)]} ELSE granted

Connection ==
  \/ TorAnswers
  \/ (ReadLine \/ ReadEof \/ TorCloses) /\ UNCHANGED granted

SessionNext ==
  \/ Begin \/ Authenticated \/ HandsOver \/ Panics \/ Fails
  \/ Connection /\ UNCHANGED <<count, step, kinds, handed>>

(* The task goes on when a command has returned, and the reader is woken by
   every line and by the stream's end.                                     *)
TaskGoesOn ==
  /\ WF_sessionVars(Authenticated \/ HandsOver \/ Panics \/ Fails)
  /\ WF_sessionVars(/\ (ReadLine \/ ReadEof) /\ UNCHANGED granted
                    /\ UNCHANGED <<count, step, kinds, handed>>)

(* Assumed of Tor: it answers what it gets, unless it ends the connection. *)
TorAnswersInTime == WF_sessionVars(TorAnswers /\ UNCHANGED <<count, step, kinds, handed>>)

SessionSpec == SessionInit /\ [][SessionNext]_sessionVars /\ TaskGoesOn /\ TorAnswersInTime

-----------------------------------------------------------------------------
(* Every variable stays in its range; a creation is waiting for the command
   sent last, and every other command has returned.                        *)
SessionTypeOK ==
  /\ TypeOK
  /\ count \in 0 .. MaxCreations
  /\ step \in {"idle", "auth", "add", "panicked"}
  /\ kinds \in Seq([what : {"auth", "add"}, creation : 1 .. MaxCreations])
  /\ granted \subseteq Range(kinds)
  /\ handed \subseteq [creation : 1 .. MaxCreations, service : 1 .. MaxCreations]
  /\ Len(kinds) = commands
  /\ Len(results) = commands - (IF reader = "idle" THEN 0 ELSE 1)
  /\ step \in {"auth", "add"} =>
       commands > 0 /\ kinds[commands] = [what |-> step, creation |-> count]
  /\ step \in {"idle", "panicked"} => reader = "idle"

(* For a creation, the end of the program is one more failure. *)
Stage == IF step = "panicked" THEN "idle" ELSE step
Creation == INSTANCE OnionCreation WITH stage <- Stage

(* The conversation implements the abstract creation: whatever shape the
   replies have and wherever the stream ends, no creation goes on with what
   was said to an earlier command, and each of them ends.                  *)
ImplementsOnionCreation == Creation!Spec

=============================================================================
