---------------------------- MODULE HttpSession ----------------------------
(***************************************************************************)
(* The sessions of day_01/demo_02/cookie_session on top of its HTTP        *)
(* server: a login without a cookie makes a Session, AddSession draws its  *)
(* id and the answer sets it as a cookie, which the browser sends with     *)
(* every later request; GetSession finds the session again.  The map of    *)
(* sessions and the static counter of users have no lock, and a restart    *)
(* forgets them.                                                           *)
(***************************************************************************)
EXTENDS HttpServer

CONSTANTS
  Browsers,
  Ids,        (* the ids rand() + time() may give                           *)
  Visits      (* what browsers ask for, without their cookies               *)

ASSUME VisitsAssumption ==
  \A pieces \in Visits :
    /\ WellFormed(pieces)
    /\ \A i \in DOMAIN pieces :
         pieces[i].piece = "header" => pieces[i].name # "Cookie"

VARIABLES
  sessions,   (* _sessions: the user of every id                            *)
  number,     (* the static number of HandlerHttpService                    *)
  logins,     (* the ids and users of AddSession since the server started   *)
  overlapped, (* a login overlapped another use of the map since then       *)
  found,      (* found[k]: what GetSession found for link k since then, and *)
              (* after how many logins                                      *)
  handed,     (* handed[k]: the cookie the answer of link k sets, if any    *)
  browser,    (* browser[k]: whose link k is                                *)
  cookie,     (* cookie[b]: the cookie browser b keeps, if any              *)
  presented   (* presented[k]: the cookie it sent on link k, if any         *)

(* A cookie is an id; where it comes from is history: which login of which *)
(* start of the server.                                                    *)
Cookie(id, login, start) == [id |-> id, login |-> login, start |-> start]

mapVars == <<sessions, number, logins>>
browserVars == <<browser, cookie, presented>>
sessionVars == <<mapVars, overlapped, found, handed, browserVars>>

(* SessionManager is empty when the server starts.                         *)
SessionInit ==
  /\ HttpInit
  /\ sessions = <<>> /\ number = 0 /\ logins = <<>> /\ overlapped = FALSE
  /\ found = [k \in Links |-> <<>>]
  /\ handed = [k \in Links |-> <<>>]
  /\ browser = [k \in Links |-> {}]
  /\ cookie = [b \in Browsers |-> <<>>]
  /\ presented = [k \in Links |-> <<>>]

-----------------------------------------------------------------------------
(* ParseReqHeader: _sessionid is the value of the last Cookie.             *)
SessionId(req) ==
  LET last == SelectLastInSeq(req.headers, LAMBDA h : h.name = "Cookie")
  IN  IF last = 0 THEN <<>> ELSE <<req.headers[last].value>>

LogsIn(req) == IsExec(req) /\ req.line.resource \in Funcs /\ SessionId(req) = <<>>

LooksUp(req) == ~IsExec(req) /\ SessionId(req) # <<>>

(* Variant of Insert: operator[] instead of insert().                      *)
Overwrite(map, id, user) ==
  [i \in DOMAIN map \cup {id} |-> IF i = id THEN user ELSE map[i]]

(* unordered_map::insert leaves an entry that is there alone.              *)
Insert(map, id, user) ==
  IF id \in DOMAIN map THEN map
  ELSE [i \in DOMAIN map \cup {id} |-> IF i = id THEN user ELSE map[i]]

Increment(n) == n + 1

(* A login and another use of the map were in the handler together.        *)
Clashes(k) == raced[k] /\ overlapped

(* number++, the Session and its id.  Two threads may get the same number; *)
(* what is inserted into a map that another thread is in may be lost.      *)
AddSession(k) ==
  \E id \in Ids, user \in {number} \cup (IF Clashes(k) THEN {number - 1} ELSE {}) :
    /\ user >= 0
    /\ number' = Increment(user)
    /\ logins' = Append(logins, [id |-> id, user |-> user])
    /\ \/ sessions' = Insert(sessions, id, user)
       \/ Clashes(k) /\ sessions' = sessions
    /\ handed' = IF clientEnd[k] # "open" THEN handed
                 ELSE [handed EXCEPT
                         ![k] = <<Cookie(id, Len(logins) + 1, starts)>>]
    /\ UNCHANGED found

(* The entry of a map that another thread is in may not be found.          *)
GetSession(k, id) ==
  /\ \E users \in {IF id \in DOMAIN sessions THEN {sessions[id]} ELSE {}}
                   \cup (IF Clashes(k) THEN {{}} ELSE {}) :
       found' = [found EXCEPT ![k] = <<[users |-> users,
                                        after |-> Len(logins)]>>]
  /\ UNCHANGED <<mapVars, handed>>

(* HandlerHttpService, around what Serve says of it.                       *)
ServeSession(k) ==
  LET req == DeSerialize(received[k])
  IN  /\ Serve(k)
      /\ CASE LogsIn(req) -> AddSession(k)
           [] LooksUp(req) -> GetSession(k, SessionId(req)[1])
           [] OTHER -> UNCHANGED <<mapVars, found, handed>>
      /\ UNCHANGED <<overlapped, browserVars>>

(* The threads in the handler whose use of the map clashes with a login.   *)
SessionRivals(req) ==
  {j \in Links :
     /\ thread[j] = "handle"
     /\ LET other == DeSerialize(received[j])
        IN  \/ LogsIn(req) /\ (LogsIn(other) \/ LooksUp(other))
            \/ LooksUp(req) /\ LogsIn(other)}

RecvSession(k) ==
  LET req == DeSerialize(received'[k])
  IN  /\ Recv(k)
      /\ Race(k, MimeRivals(req) \cup SessionRivals(req))
      /\ overlapped' = (overlapped \/ SessionRivals(req) # {})
      /\ UNCHANGED <<mapVars, found, handed, browserVars>>

(* A browser sends its cookie as the last header.                          *)
WithCookie(kept, pieces) ==
  IF kept = <<>> THEN pieces
  ELSE InsertAt(pieces, Len(GetLines(pieces)) + 1,
                Header("Cookie", kept[1].id))

(* It has one connection at a time.                                        *)
Visit(k) ==
  \E b \in Browsers, pieces \in Visits :
    /\ \A j \in Links : client[j] = "waiting" => browser[j] # {b}
    /\ Connect(k, WithCookie(cookie[b], pieces))
    /\ browser' = [browser EXCEPT ![k] = {b}]
    /\ presented' = [presented EXCEPT ![k] = cookie[b]]
    /\ UNCHANGED <<mapVars, overlapped, found, handed, cookie>>

(* It keeps the cookie of an answer it has read.                           *)
ReadSession(k) ==
  /\ Read(k)
  /\ cookie' = IF shown'[k] = <<>> \/ handed[k] = <<>> THEN cookie
               ELSE [b \in Browsers |-> IF b \in browser[k] THEN handed[k]
                                                            ELSE cookie[b]]
  /\ UNCHANGED <<mapVars, overlapped, found, handed, browser, presented>>

RestartSession ==
  /\ Restart
  /\ sessions' = <<>> /\ number' = 0 /\ logins' = <<>> /\ overlapped' = FALSE
  /\ found' = [k \in Links |-> <<>>]
  /\ UNCHANGED <<handed, browserVars>>

SessionNext ==
  \/ RestartSession
  \/ \E k \in Links :
       RecvSession(k) \/ ServeSession(k) \/ Visit(k) \/ ReadSession(k)
  \/ /\ \/ Start \/ Crash
        \/ \E k \in Links : RecvEnd(k) \/ ServeEnds(k) \/ Close(k) \/ Leave(k)
                         \/ Abort(k)
     /\ UNCHANGED sessionVars

SessionSpec == SessionInit /\ [][SessionNext]_<<httpVars, sessionVars>>

-----------------------------------------------------------------------------
(* The logins of this start that drew an id, up to the n-th.               *)
Drawn(id, n) == {i \in 1..n : logins[i].id = id}

(* A cookie leads to the session of the login that handed it out, also     *)
(* when its id is drawn again later.  If its id had been drawn before, the *)
(* session of that login was not inserted, and nothing is claimed: the     *)
(* cookie leads to the earlier user.  One that outlived the server leads   *)
(* to none as long as its id is not drawn again.  Every login makes        *)
(* another user, numbered in their order.  Requests may lose their cookies *)
(* to recv(); only logins that overlapped another use of the map are       *)
(* exempt.                                                                 *)
SessionsKept ==
  overlapped \/
    /\ \A k \in Links : \A entry \in ToSet(found[k]), mine \in ToSet(presented[k]) :
         /\ mine.start = starts /\ Drawn(mine.id, mine.login - 1) = {} =>
              entry.users = {logins[mine.login].user}
         /\ mine.start # starts /\ Drawn(mine.id, entry.after) = {} =>
              entry.users = {}
    /\ \A i \in 1..Len(logins) : logins[i].user = i - 1
=============================================================================
