--------------------------- MODULE CommandServer ---------------------------
(***************************************************************************)
(* The remote command server of day_01/demo_01/tcp_server_execute and its  *)
(* clients: a thread per connection reads, runs what it has read with      *)
(* popen() and writes the output, with nothing that separates one command  *)
(* or output from the next; a client sends a line and receives once.       *)
(*                                                                         *)
(* A command is a sequence of parts, read() may return a part of it, and   *)
(* CheckCommand looks for forbidden parts in what it returned.  An output  *)
(* is a sequence of parts too: it may be longer than the buffer of the     *)
(* client, or arrive in two segments.                                      *)
(*                                                                         *)
(* The child of popen() inherits every descriptor of the server: none of   *)
(* its sockets is close-on-exec.  When the server ends, the connections a  *)
(* child holds stay open, and it listens on, though nobody accepts.        *)
(***************************************************************************)
EXTENDS Naturals, Sequences, SequencesExt, FiniteSets

CONSTANTS
  Users,      (* the clients, with one connection each                      *)
  Commands,   (* the lines they type, <<>> among them                       *)
  Forbidden,  (* cmd of CheckCommand                                        *)
  Silent,     (* commands without output                                    *)
  Endless,    (* commands that do not end                                   *)
  Sockets,    (* descriptors the server may have for connections            *)
  MaxTyped    (* bound: lines the clients type                              *)

(* What lines are made of.                                                 *)
Parts == UNION {ToSet(line) : line \in Commands}

ASSUME CommandAssumption == Commands \subseteq Seq(Parts) /\ MaxTyped \in Nat

VARIABLES
  service,    (* "up", or how the process has ended                         *)
  pending,    (* users whose connection accept() has not returned yet       *)
  worker,     (* worker[u]: what the thread of user u is about to do        *)
  heard,      (* heard[u]: buff of Service, what was read                   *)
  response,   (* response[u]: response of Service                           *)
  child,      (* child[u]: the connections the child of the command of u    *)
              (* holds, its own among them; {} when there is no child       *)
  inbox,      (* inbox[u]: parts on their way to the server                 *)
  outbox,     (* outbox[u]: parts on their way to the client                *)
  gone,       (* gone[u]: how the client has ended, as the server sees it   *)
  closed,     (* closed[u]: how the server has ended, as the client sees it *)
  user,       (* user[u]: "new", "enter", "wait", or how it has ended:      *)
              (* "quit" with all its lines answered, "left" otherwise       *)
  message,    (* message[u]: its last line                                  *)
  display,    (* display[u]: what it showed for it                          *)
  cut,        (* cut[u]: a line or an output was read in two                *)
  typed       (* lines typed so far                                         *)

threadVars == <<service, pending, worker, heard, response, child>>
userVars == <<user, message, display, typed>>
commandVars == <<threadVars, inbox, outbox, gone, closed, cut, userVars>>

(* socket(), bind() and listen() succeed, or there is no server.           *)
InitServer ==
  /\ service = "up" /\ pending = <<>>
  /\ worker = [u \in Users |-> "none"]
  /\ heard = [u \in Users |-> <<>>]
  /\ response = [u \in Users |-> <<>>]
  /\ child = [u \in Users |-> {}]

CommandInit ==
  /\ InitServer
  /\ inbox = [u \in Users |-> <<>>] /\ outbox = [u \in Users |-> <<>>]
  /\ gone = [u \in Users |-> "no"] /\ closed = [u \in Users |-> "no"]
  /\ cut = [u \in Users |-> FALSE]
  /\ user = [u \in Users |-> "new"] /\ message = [u \in Users |-> <<>>]
  /\ display = [u \in Users |-> <<>>] /\ typed = 0

-----------------------------------------------------------------------------
(* command.find(e) for every e.                                            *)
CheckCommand(command) ==
  \A e \in Forbidden : \A i \in 1..Len(command) :
    ~IsPrefix(e, SubSeq(command, i, Len(command)))

Says(text, command) == <<[text |-> text, of |-> command, part |-> 1]>>

(* The output, in two parts.                                               *)
Output(command) ==
  [i \in 1..2 |-> [text |-> "output", of |-> command, part |-> i]]

(* A command that is not run.                                              *)
Refusal(command) ==
  IF CheckCommand(command) THEN Says("popen error!", command)
                           ELSE Says("bad man!", command)

(* Variant of Outcome: no output is an empty response.                     *)
OutcomeEmpty(command) == IF command \in Silent THEN <<>> ELSE Output(command)

(* What fgets() has read when a command has ended.                         *)
Outcome(command) ==
  IF command \in Silent THEN Says("not command", command) ELSE Output(command)

(* The responses a command may get.                                        *)
OnCommand(command) ==
  {Refusal(command)} \cup
  (IF CheckCommand(command) /\ command \notin Endless THEN {Outcome(command)}
                                                      ELSE {})

-----------------------------------------------------------------------------
(* Some process closes its descriptors: the connections in had were open,  *)
(* and those in has still are, elsewhere.  Those nobody has accepted live  *)
(* as long as somebody has the listening socket, and are reset with it.    *)
Ending(had, has) ==
  [u \in Users |->
     IF closed[u] # "no" \/ u \in has \/ (u \notin had /\ has # {}) THEN closed[u]
     ELSE IF u \in had /\ inbox[u] = <<>> THEN "fin" ELSE "rst"]

Inherited == UNION {child[u] : u \in Users}

(* exit(), or a signal; what children hold does not end with the process.  *)
End(how) ==
  /\ service' = how
  /\ pending' = IF Inherited = {} THEN <<>> ELSE pending
  /\ worker' = [u \in Users |-> "closed"]
  /\ closed' = Ending({u \in Users : worker[u] # "none"}, Inherited)

(* A child that has outlived the server ends, too.                         *)
ChildEnds(u) ==
  /\ service # "up" /\ child[u] # {}
  /\ child' = [child EXCEPT ![u] = {}]
  /\ pending' = IF Inherited' = {} THEN <<>> ELSE pending
  /\ closed' = Ending(Inherited, Inherited')
  /\ UNCHANGED <<service, worker, heard, response, inbox, outbox, gone, cut,
                 userVars>>

Open == {u \in Users : worker[u] \notin {"none", "closed"}}

(* accept(), and pthread_create(), whose failure nobody notices.  When     *)
(* there is no descriptor left, accept() fails and Start tries again.      *)
Start ==
  /\ service = "up" /\ pending # <<>> /\ Cardinality(Open) < Sockets
  /\ pending' = Tail(pending)
  /\ \E next \in {"read", "not created"} :
       worker' = [worker EXCEPT ![Head(pending)] = next]
  /\ UNCHANGED <<service, heard, response, child, inbox, outbox, gone, closed,
                 cut, userVars>>

(* Variant of Terminate: without buff[n] = 0.                              *)
NotTerminated(old, parts) == parts \o SubSeq(old, Len(parts) + 1, Len(old))

Terminate(old, parts) == parts

Take(u) ==
  /\ worker[u] = "read"
  /\ \E n \in 1..Len(inbox[u]) :
       /\ heard' = [heard EXCEPT ![u] = Terminate(@, SubSeq(inbox[u], 1, n))]
       /\ inbox' = [inbox EXCEPT ![u] = SubSeq(@, n + 1, Len(@))]
       /\ cut' = [cut EXCEPT ![u] = @ \/ n < Len(inbox[u])]
  /\ worker' = [worker EXCEPT ![u] = "run"]
  /\ UNCHANGED <<service, pending, response, child, outbox, gone, closed,
                 userVars>>

(* Variant of EndOfFile: read() = 0 is an error, too.                      *)
EndOfFileIsError == {}

EndOfFile == {"fin", "finrst"}

(* The client has ended: close(), and the thread ends.                     *)
TakeEnd(u) ==
  /\ worker[u] = "read" /\ inbox[u] = <<>>
  /\ gone[u] \in EndOfFile
  /\ worker' = [worker EXCEPT ![u] = "closed"]
  /\ heard' = [heard EXCEPT ![u] = <<>>]
  /\ UNCHANGED <<service, pending, response, child, inbox, outbox, gone,
                 closed, cut, userVars>>

(* Its reset is an error, and any error ends the process.                  *)
TakeError(u) ==
  /\ worker[u] = "read" /\ inbox[u] = <<>>
  /\ gone[u] \notin EndOfFile \cup {"no"}
  /\ End("recv error")
  /\ UNCHANGED <<heard, response, child, inbox, outbox, gone, cut, userVars>>

(* _cb: OnCommand refuses the command, or popen() fails, or a child runs   *)
(* it ...                                                                  *)
Run(u) ==
  /\ worker[u] = "run"
  /\ \/ /\ response' = [response EXCEPT ![u] = Refusal(heard[u])]
        /\ worker' = [worker EXCEPT ![u] = "write"]
        /\ UNCHANGED child
     \/ /\ CheckCommand(heard[u])
        /\ child' = [child EXCEPT ![u] = Open]
        /\ worker' = [worker EXCEPT ![u] = "popen"]
        /\ UNCHANGED response
  /\ UNCHANGED <<service, pending, heard, inbox, outbox, gone, closed, cut,
                 userVars>>

(* ... to its end, if it has one.                                          *)
Ran(u) ==
  /\ worker[u] = "popen" /\ heard[u] \notin Endless
  /\ response' = [response EXCEPT ![u] = Outcome(heard[u])]
  /\ child' = [child EXCEPT ![u] = {}]
  /\ worker' = [worker EXCEPT ![u] = "write"]
  /\ UNCHANGED <<service, pending, heard, inbox, outbox, gone, closed, cut,
                 userVars>>

(* What is written to a client that has ended is answered with a reset.    *)
Respond(u) ==
  /\ worker[u] = "write" /\ gone[u] \in {"no", "fin"}
  /\ IF gone[u] = "no"
     THEN outbox' = [outbox EXCEPT ![u] = @ \o response[u]] /\ UNCHANGED gone
     ELSE gone' = [gone EXCEPT ![u] = "finrst"] /\ UNCHANGED outbox
  /\ worker' = [worker EXCEPT ![u] = "read"]
  /\ response' = [response EXCEPT ![u] = <<>>]
  /\ UNCHANGED <<service, pending, heard, child, inbox, closed, cut, userVars>>

(* After a reset write() fails, after an end and a reset it raises SIGPIPE.*)
RespondError(u) ==
  /\ worker[u] = "write" /\ gone[u] \in {"rst", "finrst"}
  /\ End(IF gone[u] = "rst" THEN "send error" ELSE "pipe")
  /\ UNCHANGED <<heard, response, child, inbox, outbox, gone, cut, userVars>>

HandlerService(u) ==
  \/ Take(u) \/ TakeEnd(u) \/ TakeError(u)
  \/ Run(u) \/ Ran(u) \/ Respond(u) \/ RespondError(u)

-----------------------------------------------------------------------------
(* main of the client: connect(), which succeeds when somebody has the     *)
(* listening socket, ...                                                   *)
Dial(u) ==
  /\ user[u] = "new"
  /\ IF service = "up" \/ Inherited # {}
     THEN pending' = Append(pending, u) /\ user' = [user EXCEPT ![u] = "enter"]
     ELSE user' = [user EXCEPT ![u] = "quit"] /\ UNCHANGED pending
  /\ UNCHANGED <<service, worker, heard, response, child, inbox, outbox, gone,
                 closed, cut, message, display, typed>>

(* ... getline() and send(), which ends the client after a reset, ...      *)
Enter(u) ==
  /\ user[u] = "enter" /\ typed < MaxTyped
  /\ typed' = typed + 1
  /\ \E line \in Commands : message' = [message EXCEPT ![u] = line]
  /\ display' = [display EXCEPT ![u] = <<>>]
  /\ user' = [user EXCEPT ![u] = IF closed[u] \in {"no", "fin"} THEN "wait"
                                                                ELSE "left"]
  /\ inbox' = IF closed[u] # "no" THEN inbox
              ELSE [inbox EXCEPT ![u] = @ \o message'[u]]
  /\ closed' = IF closed[u] # "fin" \/ message'[u] = <<>> THEN closed
               ELSE [closed EXCEPT ![u] = "finrst"]
  /\ UNCHANGED <<threadVars, outbox, gone, cut>>

(* ... and recv(), of any part of what has arrived ...                     *)
Show(u) ==
  /\ user[u] = "wait"
  /\ \E m \in 1..Len(outbox[u]) :
       /\ display' = [display EXCEPT ![u] = SubSeq(outbox[u], 1, m)]
       /\ outbox' = [outbox EXCEPT ![u] = SubSeq(@, m + 1, Len(@))]
       /\ cut' = [cut EXCEPT ![u] = @ \/ m < Len(outbox[u])]
  /\ user' = [user EXCEPT ![u] = "enter"]
  /\ UNCHANGED <<threadVars, inbox, gone, closed, message, typed>>

(* ... or of the end of the server, which it does not notice.              *)
ShowNothing(u) ==
  /\ user[u] = "wait" /\ outbox[u] = <<>> /\ closed[u] # "no"
  /\ user' = [user EXCEPT ![u] = "enter"]
  /\ closed' = IF closed[u] = "fin" THEN closed
               ELSE [closed EXCEPT ![u] = "finrst"]
  /\ UNCHANGED <<threadVars, inbox, outbox, gone, cut, message, display,
                 typed>>

(* Somebody stops it.                                                      *)
Interrupt(u) ==
  LET unread == outbox[u] # <<>>
      owed == inbox[u] # <<>> \/ worker[u] \in {"run", "popen", "write"}
  IN  /\ user[u] \in {"enter", "wait"}
      /\ user' = [user EXCEPT ![u] = IF unread \/ owed THEN "left" ELSE "quit"]
      /\ gone' = [gone EXCEPT ![u] = IF unread THEN "rst" ELSE "fin"]
      /\ UNCHANGED <<threadVars, inbox, outbox, closed, cut, message, display,
                     typed>>

CommandClient(u) ==
  Dial(u) \/ Enter(u) \/ Show(u) \/ ShowNothing(u) \/ Interrupt(u)

CommandNext ==
  \/ Start
  \/ \E u \in Users : HandlerService(u) \/ ChildEnds(u) \/ CommandClient(u)

(* Threads and clients that can take a step are scheduled, and commands    *)
(* end that do so; nobody has to type or to stop anything.                 *)
CommandFairness ==
  /\ WF_commandVars(Start)
  /\ \A u \in Users :
       /\ WF_commandVars(HandlerService(u))
       /\ WF_commandVars(heard[u] \notin Endless /\ ChildEnds(u))
       /\ WF_commandVars(Show(u) \/ ShowNothing(u))

CommandSpec == CommandInit /\ [][CommandNext]_commandVars /\ CommandFairness

-----------------------------------------------------------------------------
(* A client is in step with its thread: as long as neither a line nor an   *)
(* output of its connection is read in two, what it shows is the whole     *)
(* response to the line it has typed last, whatever other clients run.     *)
ClientInStep ==
  \A u \in Users :
    ~cut[u] /\ display[u] # <<>> => display[u] \in OnCommand(message[u])

(* One client can end the server for all, but only a client that ends with *)
(* a line unanswered or an answer unread: those that have read everything  *)
(* may end at any moment.                                                  *)
EndedByClients == service # "up" => \E u \in Users : user[u] = "left"

(* The child of an endless command has the connection of u: that of its    *)
(* own command, or, when the server has ended, that of any.                *)
Orphaned(u) ==
  \E v \in Users :
    u \in child[v] /\ heard[v] \in Endless /\ (v = u \/ service # "up")

(* A line that is not empty is answered, or its client sees the server     *)
(* end: it does not wait for ever unless its thread was not created or has *)
(* not been started for want of descriptors, it runs a command that does   *)
(* not end, or the server has ended and the child of such a command has    *)
(* its connection.  As long as the server lives, commands of others do not *)
(* keep it waiting, and parts that were cut do not.                        *)
CommandAnswered ==
  \A u \in Users :
    user[u] = "wait" /\ message[u] # <<>> ~>
      \/ user[u] # "wait"
      \/ worker[u] = "not created" \/ u \in ToSet(pending) \/ Orphaned(u)
=============================================================================
