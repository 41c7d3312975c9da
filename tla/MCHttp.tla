------------------------------- MODULE MCHttp --------------------------------
(***************************************************************************)
(* The HTTP servers for TLC.  In every behaviour either the server of http *)
(* runs, with two links ("pages"), or that of cookie_session, with three   *)
(* ("sessions").                                                           *)
(***************************************************************************)
EXTENDS HttpSession

CONSTANTS b1, i1

VARIABLE part

Image == Resource("Image", "2", ".png")
Get(resource, query) == <<Line("GET", resource, query), Blank>>
Post(name, text) == <<Line("POST", Resource("", name, ""), ""), Blank>> \o text

MCPages == {Homepage, ErrorPage, Image}
MCDirectories == {Wwwroot, Resource("", "Image", "")}
MCMimeFile == <<<<".html", "text/plain">>, <<".html", "text/html">>, <<>>,
                <<".png", "image/png">>>>
MCRequests ==
  {<<Line("GET", Wwwroot, ""), Header("Host", "h"), Blank>>,
   Get(Image, ""), Get(Resource("", "Image", ""), ""),
   Get(Resource("", "none", ".png"), ""), Get(Redir, ""), Get(ErrorPage, ""),
   Get(Homepage, "x=1"), Post("login", <<Text, Text>>)}
MCVisits == {Get(Wwwroot, ""), Post("login", <<Text>>)}

-----------------------------------------------------------------------------
MCInit == part \in {"pages", "sessions"} /\ SessionInit

(* The second link asks for the image or is silent, and stays.             *)
Pages2 ==
  /\ part = "pages" /\ HttpNext
  /\ asked'[2] \in {<<>>, Get(Image, "")} /\ client'[2] # "left"
  /\ client'[3] = "new"
  /\ UNCHANGED <<part, sessionVars>>

(* Threads are created and nobody leaves, the first two requests are not   *)
(* cut, the first browser is b1 and the first id i1.                       *)
Sessions3 ==
  /\ part = "sessions" /\ SessionNext
  /\ \A k \in Links : thread'[k] # "not created" /\ client'[k] # "left"
  /\ \A k \in 1..2 : received'[k] \in {<<>>, asked[k]}
  /\ browser'[1] \subseteq {b1}
  /\ (\A k \in Links : handed[k] = <<>>) =>
       \A k \in Links : \A given \in ToSet(handed'[k]) : given.id = i1
  /\ UNCHANGED part

(* Threads and browsers that can take a step are scheduled.                *)
PagesFairness ==
  /\ WF_httpVars(part = "pages" /\ Start)
  /\ WF_httpVars(part = "pages" /\ Crash)
  /\ \A k \in 1..2 : /\ WF_httpVars(part = "pages" /\ HandlerService(k))
                     /\ WF_httpVars(part = "pages" /\ Read(k))

MCSpec ==
  /\ MCInit /\ [][Pages2 \/ Sessions3]_<<part, httpVars, sessionVars>>
  /\ PagesFairness

(* A browser that has sent a request does not wait for ever: it reads an   *)
(* answer or the end of the connection, also when its request is cut, has  *)
(* no handler, or ends the process; unless its thread was not created.     *)
Attended ==
  \A k \in 1..2 :
    part = "pages" /\ client[k] = "waiting" /\ asked[k] # <<>> ~>
      client[k] # "waiting" \/ thread[k] = "not created"
=============================================================================
