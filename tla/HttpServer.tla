----------------------------- MODULE HttpServer -----------------------------
(***************************************************************************)
(* The server of day_01/demo_02/http: the main thread accepts, a detached  *)
(* thread per connection receives once, answers once and closes.  Http     *)
(* says what the answer is.                                                *)
(*                                                                         *)
(* The clients are browsers: they connect, send a request or keep silent,  *)
(* and read until the connection ends, or leave before, with FIN, RST, or  *)
(* FIN and then RST.  After the last send() raises SIGPIPE, which nothing  *)
(* ignores.                                                                *)
(***************************************************************************)
EXTENDS Http

CONSTANTS
  MaxLinks,   (* bound: connections                                         *)
  FdLimit,    (* descriptors the server may have for connections            *)
  MaxStarts,  (* bound: times the server is started                         *)
  Requests    (* what browsers send                                         *)

ASSUME HttpServerAssumption ==
  {MaxLinks, FdLimit, MaxStarts} \subseteq Nat

(* A request is a line, headers, the empty line and a text, if any.        *)
WellFormed(pieces) ==
  /\ pieces \in Seq(ToSet(pieces)) /\ pieces # <<>>
  /\ \E b \in 2..Len(pieces) :
       /\ pieces[1].piece = "line"
       /\ \A i \in 2..(b - 1) : pieces[i].piece = "header"
       /\ pieces[b] = Blank
       /\ \A i \in (b + 1)..Len(pieces) : pieces[i] = Text

ASSUME RequestsAssumption == \A pieces \in Requests : WellFormed(pieces)

Links == 1..MaxLinks

VARIABLES
  server,     (* "up", or how the process has ended                         *)
  starts,     (* times it has been started                                  *)
  backlog,    (* links accept() has not returned yet                        *)
  doomed,     (* a thread works on a connection accept() did not give       *)
  thread,     (* thread[k]: what the thread of link k is about to do        *)
  types,      (* the suffixes in _mime_type                                 *)
  raced,      (* raced[k]: it used a table while another thread changed it, *)
              (* or changed one another thread used                         *)
  asked,      (* asked[k]: the request of link k, <<>> for a silent client  *)
  received,   (* received[k]: what recv() returned of it                    *)
  answer,     (* answer[k]: at most one response on its way to the client   *)
  shown,      (* shown[k]: what the client has read of it                   *)
  client,     (* client[k]: "new", "waiting", "done", or "left" before      *)
  clientEnd,  (* how the client has ended the link, as the server sees it   *)
  serverEnd   (* how the server has ended it, as the client sees it         *)

tables == <<types, raced>>
linkVars == <<asked, received, answer, shown, client, clientEnd, serverEnd>>
httpVars == <<server, starts, backlog, doomed, thread, tables, linkVars>>

(* BuildListenSocket; the tables are loaded.                               *)
HttpInit ==
  /\ server = "up" /\ starts = 1
  /\ backlog = <<>> /\ doomed = FALSE
  /\ thread = [k \in Links |-> "none"]
  /\ types = DOMAIN LoadMimeType
  /\ raced = [k \in Links |-> FALSE]
  /\ asked = [k \in Links |-> <<>>]
  /\ received = [k \in Links |-> <<>>]
  /\ answer = [k \in Links |-> <<>>]
  /\ shown = [k \in Links |-> <<>>]
  /\ client = [k \in Links |-> "new"]
  /\ clientEnd = [k \in Links |-> "open"]
  /\ serverEnd = [k \in Links |-> "open"]

-----------------------------------------------------------------------------
(* The end of the process.                                                 *)
Die(how) ==
  /\ server' = how
  /\ doomed' = FALSE /\ backlog' = <<>>
  /\ thread' = [k \in Links |-> IF thread[k] = "none" THEN "none" ELSE "gone"]
  /\ serverEnd' =
       [k \in Links |->
          IF client[k] = "new" \/ serverEnd[k] # "open" THEN serverEnd[k]
          ELSE IF received[k] = asked[k] THEN "fin" ELSE "rst"]
  /\ UNCHANGED <<starts, tables, asked, received, answer, shown, client,
                 clientEnd>>

Used == {k \in Links : thread[k] \notin {"none", "gone"}}

(* accept() and pthread_create(), whose failure nobody notices.            *)
Accept ==
  /\ server = "up" /\ backlog # <<>>
  /\ Cardinality(Used) < FdLimit
  /\ backlog' = Tail(backlog)
  /\ \E next \in {"recv", "not created"} :
       thread' = [thread EXCEPT ![Head(backlog)] = next]
  /\ UNCHANGED <<server, starts, doomed, tables, linkVars>>

(* accept() fails for want of a descriptor, whether a connection waits or  *)
(* not; Accepter returns nullptr, a thread is given it ...                 *)
AcceptFails ==
  /\ server = "up"
  /\ Cardinality(Used) >= FdLimit
  /\ ~doomed /\ doomed' = TRUE
  /\ UNCHANGED <<server, starts, backlog, thread, tables, linkVars>>

(* ... and calls Recv on it.                                               *)
Crash == doomed /\ Die("segv")

Start == Accept \/ AcceptFails

(* One recv() returns any part of a request; 0 pieces are a piece of its   *)
(* request line.                                                           *)
MayReceive(k) == 0..Len(asked[k])

(* The threads in the handler whose use of _mime_type clashes with that of *)
(* a request: one of the two inserts a suffix, and there is no lock.       *)
MimeRivals(req) ==
  {j \in Links :
     /\ thread[j] = "handle"
     /\ LET other == Lookups(DeSerialize(received[j]))
        IN  /\ other # {} /\ Lookups(req) # {}
            /\ ~((other \cup Lookups(req)) \subseteq types)}

Race(k, rivals) ==
  raced' = [j \in Links |-> raced[j] \/ j \in rivals \/ (j = k /\ rivals # {})]

(* What arrived before a reset can still be read.                          *)
Recv(k) ==
  /\ thread[k] = "recv"
  /\ asked[k] # <<>>
  /\ \E n \in MayReceive(k) :
       received' = [received EXCEPT ![k] = SubSeq(asked[k], 1, n)]
  /\ thread' = [thread EXCEPT ![k] = "handle"]
  /\ UNCHANGED <<server, starts, backlog, doomed, types, asked, answer, shown,
                 client, clientEnd, serverEnd>>

RecvStep(k) == Recv(k) /\ Race(k, MimeRivals(DeSerialize(received'[k])))

(* Variant of Finish: the thread returns without close().                  *)
FinishOpen == "not closed"

Finish == "close"

(* recv() returns 0, or -1 after a reset.                                  *)
RecvEnd(k) ==
  /\ thread[k] = "recv"
  /\ clientEnd[k] = "rst" \/ (asked[k] = <<>> /\ clientEnd[k] # "open")
  /\ thread' = [thread EXCEPT ![k] = Finish]
  /\ UNCHANGED <<server, starts, backlog, doomed, tables, linkVars>>

(* _http_service and Send, whose result is not looked at.                  *)
Serve(k) ==
  LET req == DeSerialize(received[k])
  IN  /\ thread[k] = "handle" /\ clientEnd[k] # "finrst"
      /\ \E response \in HandlerHttpService(req) :
           /\ answer' = IF clientEnd[k] # "open" THEN answer
                        ELSE [answer EXCEPT ![k] = <<response>>]
           /\ types' = types \cup LookedUp(req, response)
      /\ thread' = [thread EXCEPT ![k] = Finish]
      /\ UNCHANGED <<server, starts, backlog, doomed, raced, asked, received,
                     shown, client, clientEnd, serverEnd>>

(* An exception ends the process; so may a table changed by two threads,   *)
(* and so does the Send of a response after FIN and RST.                   *)
ServeEnds(k) ==
  LET req == DeSerialize(received[k])
  IN  /\ thread[k] = "handle"
      /\ \/ \E how \in Ends(req) : Die(how)
         \/ raced[k] /\ Die("segv")
         \/ clientEnd[k] = "finrst" /\ HandlerHttpService(req) # {} /\ Die("pipe")

(* A request that has not been read to its end turns the FIN into a reset. *)
Close(k) ==
  /\ thread[k] = "close"
  /\ thread' = [thread EXCEPT ![k] = "gone"]
  /\ serverEnd' = [serverEnd EXCEPT
                     ![k] = IF received[k] = asked[k] THEN "fin" ELSE "rst"]
  /\ UNCHANGED <<server, starts, backlog, doomed, tables, asked, received,
                 answer, shown, client, clientEnd>>

-----------------------------------------------------------------------------
(* The browsers, and what happens to the server.                           *)
Connect(k, pieces) ==
  /\ server = "up" /\ client[k] = "new"
  /\ \A j \in 1..(k - 1) : client[j] # "new"
  /\ client' = [client EXCEPT ![k] = "waiting"]
  /\ asked' = [asked EXCEPT ![k] = pieces]
  /\ backlog' = Append(backlog, k)
  /\ UNCHANGED <<server, starts, doomed, thread, tables, received, answer,
                 shown, clientEnd, serverEnd>>

(* A reset may overtake the answer.                                        *)
Read(k) ==
  /\ client[k] = "waiting" /\ serverEnd[k] # "open"
  /\ client' = [client EXCEPT ![k] = "done"]
  /\ \E text \in {answer[k]} \cup
                 (IF serverEnd[k] = "rst" THEN {<<>>} ELSE {}) :
       shown' = [shown EXCEPT ![k] = text]
  /\ UNCHANGED <<server, starts, backlog, doomed, thread, tables, asked,
                 received, answer, clientEnd, serverEnd>>

Leave(k) ==
  /\ client[k] = "waiting" /\ serverEnd[k] = "open"
  /\ client' = [client EXCEPT ![k] = "left"]
  /\ \E how \in {"fin", "rst"} : clientEnd' = [clientEnd EXCEPT ![k] = how]
  /\ UNCHANGED <<server, starts, backlog, doomed, thread, tables, asked,
                 received, answer, shown, serverEnd>>

(* It is reset after its FIN: its process ends, or somebody writes to it.  *)
Abort(k) ==
  /\ clientEnd[k] = "fin" /\ serverEnd[k] = "open"
  /\ clientEnd' = [clientEnd EXCEPT ![k] = "finrst"]
  /\ UNCHANGED <<server, starts, backlog, doomed, thread, tables, asked,
                 received, answer, shown, client, serverEnd>>

Restart ==
  /\ server # "up" /\ starts < MaxStarts
  /\ server' = "up" /\ starts' = starts + 1
  /\ types' = DOMAIN LoadMimeType
  /\ raced' = [k \in Links |-> FALSE]
  /\ UNCHANGED <<backlog, doomed, thread, linkVars>>

HandlerService(k) ==
  RecvStep(k) \/ RecvEnd(k) \/ Serve(k) \/ ServeEnds(k) \/ Close(k)

HttpNext ==
  \/ Start \/ Crash \/ Restart
  \/ \E k \in Links :
       \/ HandlerService(k)
       \/ \E pieces \in Requests \cup {<<>>} : Connect(k, pieces)
       \/ Read(k) \/ Leave(k) \/ Abort(k)

HttpSpec == HttpInit /\ [][HttpNext]_httpVars

-----------------------------------------------------------------------------
(* Type invariant.                                                         *)
HttpTypeOK ==
  /\ server \in {"up", "segv", "bad_function_call", "length_error", "pipe"}
  /\ starts \in 1..MaxStarts /\ doomed \in BOOLEAN
  /\ backlog \in Seq(Links)
  /\ thread \in [Links -> {"none", "recv", "handle", "close", "gone",
                           "not created", "not closed"}]
  /\ raced \in [Links -> BOOLEAN]
  /\ client \in [Links -> {"new", "waiting", "done", "left"}]
  /\ clientEnd \in [Links -> {"open", "fin", "rst", "finrst"}]
  /\ serverEnd \in [Links -> {"open", "fin", "rst"}]
  /\ \A k \in Links :
       /\ IsPrefix(received[k], asked[k]) /\ IsPrefix(shown[k], answer[k])
       /\ Len(answer[k]) <= 1

(* What the author of a request, or of the part of it that has arrived,    *)
(* expects: the answer to its parameters, which are in the URI of a GET or *)
(* in a text, or else the page it names.                                   *)
Named(pieces) ==
  LET line == pieces[1]
      page == WithHomepage(line.resource)
  IN  IF line.method = "GET" THEN page ELSE [page EXCEPT !.query = line.query]

HasText(pieces) == pieces[Len(pieces)] = Text

HasParameters(pieces) ==
  HasText(pieces) \/ (pieces[1].method = "GET" /\ pieces[1].query # "")

Expected(pieces) ==
  IF HasParameters(pieces) THEN LoginText
  ELSE IF Named(pieces) \in Pages THEN Named(pieces) ELSE ErrorPage

(* A redirect has no text, nobody sets the status of the error page when   *)
(* it is asked for by name, and directories end the process.               *)
Exempt == {ErrorPage, Redir} \cup Directories

(* Wherever recv() cuts a request behind its line, its client never reads  *)
(* anything but what the part that arrived asks for: the answer of the     *)
(* handler once parameters have arrived, whether they are complete or not, *)
(* and before that, as for a POST whose text comes later, the page it      *)
(* names or the error page, and never another one.                         *)
AnswersFit ==
  \A k \in Links :
    shown[k] # <<>> /\ received[k] # <<>> =>
      \/ Named(asked[k]) \in Exempt
      \/ shown[k][1].text = <<Expected(received[k])>>

(* A request that must not end the process: its line arrives, parameters   *)
(* go to a handler, and what has none is not a directory.                  *)
Harmless(k) ==
  /\ received[k] # <<>>
  /\ HasParameters(asked[k]) => Named(asked[k]) \in Funcs
  /\ Named(asked[k]) \notin Directories

(* Every end of the process is due to a request that is not harmless, to a *)
(* table two threads were in, to as many connections as descriptors, or to *)
(* a browser that was reset after its FIN and before its answer: browsers  *)
(* that leave with one of FIN and RST, and requests that are cut behind    *)
(* their line, do not end it.                                              *)
SurvivesRequests ==
  [][server = "up" /\ server' # "up" =>
       \/ \E k \in Links :
            /\ thread[k] = "handle"
            /\ \/ raced[k] \/ ~Harmless(k)
               \/ server' = "pipe" /\ clientEnd[k] = "finrst"
       \/ /\ server' = "segv"
          /\ Cardinality({k \in Links : client[k] # "new"}) >= FdLimit]_httpVars
=============================================================================
