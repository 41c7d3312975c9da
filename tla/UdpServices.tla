---------------------------- MODULE UdpServices ----------------------------
(***************************************************************************)
(* The three datagram services of day_01/demo_01 that answer one question  *)
(* with one datagram, and their common client: udp_server_echo,            *)
(* udp_server_dict and udp_server_execute.  One thread receives, answers   *)
(* and receives again; a client sends a line and blocks in recvfrom()      *)
(* without a timeout.  Nothing in a datagram says which question it        *)
(* belongs to, and the network loses, repeats and reorders them.           *)
(***************************************************************************)
EXTENDS Naturals, Sequences, SequencesExt, FiniteSets

CONSTANTS
  Peers,      (* the clients                                                *)
  Questions,  (* the lines they may send to each server, <<>> among them    *)
  Banned,     (* cmd of CheckCommand                                        *)
  Quiet,      (* commands without output                                    *)
  Unending,   (* commands that do not end                                   *)
  Bulky,      (* commands with more output than a datagram may have         *)
  Files,      (* what dict.txt may become: lines <<english, chinese>>, or   *)
              (* <<>> for one without ": "                                  *)
  FirstFile,  (* what it is when the server starts                          *)
  MaxAsked,   (* bound: questions of one client                             *)
  MaxLost,    (* bound: datagrams the network loses                         *)
  MaxTwice    (* bound: datagrams the network repeats                       *)

ASSUME ServicesAssumption ==
  /\ MaxAsked \in Nat
  /\ \A lines \in Files \cup {FirstFile} :
       /\ lines \in Seq(ToSet(lines))
       /\ \A l \in ToSet(lines) : l \in Seq(ToSet(l))

VARIABLES
  kind,       (* the server that runs                                       *)
  busy,       (* it runs a command that does not end                        *)
  file,       (* dict.txt                                                   *)
  toServer,   (* datagrams on their way: the client, its question and which *)
              (* of its questions it is                                     *)
  toPeer,     (* answers on their way                                       *)
  asking,     (* asking[p]: client p waits in recvfrom()                    *)
  asks,       (* asks[p]: how many questions it has sent                    *)
  question,   (* question[p]: the last one                                  *)
  reading,    (* reading[p]: what dict.txt has been since it was asked      *)
  screen,     (* screen[p]: the answer shown for it, if any                 *)
  lost,       (* the clients that have lost a datagram                      *)
  twice       (* the clients of whose datagrams one was repeated            *)

peerVars == <<asking, asks, question, screen>>
servicesVars ==
  <<kind, busy, file, toServer, toPeer, peerVars, reading, lost, twice>>

EchoInitServer == kind = "echo" /\ file = <<>>
DictInitServer == kind = "dict" /\ file = FirstFile
ExecuteInitServer == kind = "execute" /\ file = <<>>

ServicesInit ==
  /\ EchoInitServer \/ DictInitServer \/ ExecuteInitServer
  /\ busy = FALSE
  /\ toServer = {} /\ toPeer = {}
  /\ asking = [p \in Peers |-> FALSE] /\ asks = [p \in Peers |-> 0]
  /\ question = [p \in Peers |-> <<>>]
  /\ reading = [p \in Peers |-> {}]
  /\ screen = [p \in Peers |-> <<>>]
  /\ lost = {} /\ twice = {}

-----------------------------------------------------------------------------
(* Variant of Load: the file as it was when the server started.            *)
LoadOnce == FirstFile

(* Dict reads the file for every question.                                 *)
Load == file

(* The last line of a word counts.                                         *)
Translate(lines, word) ==
  LET last == SelectLastInSeq(lines, LAMBDA l : l # <<>> /\ Head(l) = word)
  IN  IF last = 0 THEN <<"not found", word>> ELSE <<"translation", lines[last]>>

(* command.find(e) for every e.                                            *)
CheckCommand(command) ==
  \A e \in Banned : \A i \in 1..Len(command) :
    ~IsPrefix(e, SubSeq(command, i, Len(command)))

(* What a command may be answered with.                                    *)
OnCommand(command) ==
  IF ~CheckCommand(command) THEN {<<"bad man!", command>>}
  ELSE {<<"popen error!", command>>} \cup
       (IF command \in Unending \cup Bulky THEN {}
        ELSE {<<IF command \in Quiet THEN "not command" ELSE "output",
                command>>})

(* recvfrom() of a question, and sendto() of its answer.                   *)
Answer(datagram, text) ==
  /\ toServer' = toServer \ {datagram}
  /\ toPeer' = toPeer \cup {[datagram EXCEPT !.text = text]}
  /\ UNCHANGED <<kind, busy, file, peerVars, reading, lost, twice>>

EchoStart(datagram) ==
  /\ kind = "echo" /\ datagram.text # <<>>
  /\ Answer(datagram, <<"echo", datagram.text>>)

(* Variant of DictStart: a word that is not found is not answered.         *)
DictStartFound(datagram) ==
  /\ kind = "dict" /\ datagram.text # <<>>
  /\ Translate(Load, datagram.text)[1] = "translation"
  /\ Answer(datagram, Translate(Load, datagram.text))

DictStart(datagram) ==
  /\ kind = "dict" /\ datagram.text # <<>>
  /\ Answer(datagram, Translate(Load, datagram.text))

ExecuteStart(datagram) ==
  /\ kind = "execute" /\ datagram.text # <<>> /\ ~busy
  /\ \E text \in OnCommand(datagram.text) : Answer(datagram, text)

(* sendto() fails for an output that is too long, and nobody notices.      *)
ExecuteTooLong(datagram) ==
  /\ kind = "execute" /\ ~busy
  /\ datagram.text \in Bulky /\ CheckCommand(datagram.text)
  /\ toServer' = toServer \ {datagram}
  /\ UNCHANGED <<kind, busy, file, toPeer, peerVars, reading, lost, twice>>

(* popen() and fgets() never come to an end.                               *)
ExecuteForEver(datagram) ==
  /\ kind = "execute" /\ ~busy
  /\ datagram.text \in Unending /\ CheckCommand(datagram.text)
  /\ busy' = TRUE
  /\ toServer' = toServer \ {datagram}
  /\ UNCHANGED <<kind, file, toPeer, peerVars, reading, lost, twice>>

(* recvfrom() returns 0 for an empty line, and nobody is answered.         *)
Ignore(datagram) ==
  /\ datagram.text = <<>> /\ ~busy
  /\ toServer' = toServer \ {datagram}
  /\ UNCHANGED <<kind, busy, file, toPeer, peerVars, reading, lost, twice>>

Start(datagram) ==
  \/ EchoStart(datagram) \/ DictStart(datagram)
  \/ ExecuteStart(datagram) \/ ExecuteTooLong(datagram)
  \/ ExecuteForEver(datagram) \/ Ignore(datagram)

-----------------------------------------------------------------------------
(* main of UdpClient.cc: sendto() ...                                      *)
Ask(p, line) ==
  /\ ~asking[p] /\ asks[p] < MaxAsked
  /\ asks' = [asks EXCEPT ![p] = @ + 1]
  /\ question' = [question EXCEPT ![p] = line]
  /\ toServer' = toServer \cup
                   {[peer |-> p, text |-> line, copy |-> 1, number |-> asks'[p]]}
  /\ reading' = [reading EXCEPT ![p] = {file}]
  /\ screen' = [screen EXCEPT ![p] = <<>>]
  /\ asking' = [asking EXCEPT ![p] = TRUE]
  /\ UNCHANGED <<kind, busy, file, toPeer, lost, twice>>

(* ... and recvfrom() of whatever has arrived.                             *)
Show(p) ==
  /\ asking[p]
  /\ \E datagram \in toPeer :
       /\ datagram.peer = p
       /\ toPeer' = toPeer \ {datagram}
       /\ screen' = [screen EXCEPT ![p] = <<datagram.text>>]
  /\ asking' = [asking EXCEPT ![p] = FALSE]
  /\ UNCHANGED <<kind, busy, file, toServer, asks, question, reading, lost,
                 twice>>

-----------------------------------------------------------------------------
(* The network loses a datagram: on its way, or because the buffer of the  *)
(* socket is full while the server is busy ...                             *)
Lose(datagram) ==
  /\ Cardinality(lost) < MaxLost
  /\ toServer' = toServer \ {datagram} /\ toPeer' = toPeer \ {datagram}
  /\ lost' = lost \cup {datagram.peer}
  /\ UNCHANGED <<kind, busy, file, peerVars, reading, twice>>

(* ... or delivers it twice.                                               *)
Repeat(datagram) ==
  LET again == [datagram EXCEPT !.copy = 2]
  IN  /\ Cardinality(twice) < MaxTwice
      /\ twice' = twice \cup {datagram.peer}
      /\ toServer' = IF datagram \in toServer THEN toServer \cup {again}
                                              ELSE toServer
      /\ toPeer' = IF datagram \in toPeer THEN toPeer \cup {again} ELSE toPeer
      /\ UNCHANGED <<kind, busy, file, peerVars, reading, lost>>

(* Somebody replaces dict.txt.                                             *)
Edit ==
  /\ kind = "dict"
  /\ file' \in Files \ {file}
  /\ reading' = [p \in Peers |-> IF asking[p] THEN reading[p] \cup {file'}
                                              ELSE reading[p]]
  /\ UNCHANGED <<kind, busy, toServer, toPeer, peerVars, lost, twice>>

ServicesNext ==
  \/ \E datagram \in toServer : Start(datagram)
  \/ \E p \in Peers : Show(p) \/ \E line \in Questions[kind] : Ask(p, line)
  \/ \E datagram \in toServer \cup toPeer : Lose(datagram) \/ Repeat(datagram)
  \/ Edit

(* A datagram that is not lost arrives and is taken in its turn.           *)
ServicesFairness ==
  \A p \in Peers :
    /\ WF_servicesVars(Show(p))
    /\ WF_servicesVars(\E datagram \in toServer :
                         datagram.peer = p /\ Start(datagram))

ServicesSpec ==
  ServicesInit /\ [][ServicesNext]_servicesVars /\ ServicesFairness

-----------------------------------------------------------------------------
(* What a line may be answered with, given the lines of dict.txt.          *)
Right(lines, line) ==
  CASE kind = "echo" -> {<<"echo", line>>}
    [] kind = "dict" ->
         LET entries == {i \in DOMAIN lines : lines[i] # <<>> /\ lines[i][1] = line}
         IN  IF entries = {} THEN {<<"not found", line>>}
             ELSE {<<"translation", lines[i]>> :
                     i \in {j \in entries : \A k \in entries : k <= j}}
    [] kind = "execute" -> OnCommand(line)

(* What a client shows answers its last line, and a translation is the one *)
(* of a dict.txt there has been since the line was sent: neither the order *)
(* in which datagrams arrive nor their loss can put a client out of step.  *)
(* Only a datagram that was delivered twice can.                           *)
InStep ==
  \A p \in Peers :
    p \notin twice /\ screen[p] # <<>> =>
      \E lines \in reading[p] : screen[p][1] \in Right(lines, question[p])

(* A client that has sent a line that is not empty is answered unless the  *)
(* network has lost a datagram of it, its command has too much output, or  *)
(* a command that does not end keeps the only thread.                      *)
DatagramAnswered ==
  \A p \in Peers :
    asking[p] /\ question[p] # <<>> ~>
      \/ ~asking[p] \/ p \in lost \/ busy
      \/ kind = "execute" /\ question[p] \in Bulky
=============================================================================
