----------------------------- MODULE HttpProofs -----------------------------
(***************************************************************************)
(* Theorems about HttpServer and HttpSession, for any number of links,     *)
(* descriptors, browsers and ids, any requests and any contents of the     *)
(* server: SurvivesRequests, AnswersFit and SessionsKept.                  *)
(***************************************************************************)
EXTENDS HttpSession, FiniteSetTheorems, SequenceTheorems, NaturalsInduction,
        WellFoundedInduction, TLAPS

(* ------------------------------ the parser ----------------------------- *)

(* Lines end at the empty one, or where the pieces end.                    *)
LEMMA LinesEnd ==
  ASSUME NEW s, Len(s) \in Nat, NEW b \in Nat \ {0},
         \A i \in 1..Len(s) : s[i].piece = "blank" <=> i = b
  PROVE  GetLines(s) = SubSeq(s, 1, IF Len(s) < b THEN Len(s) ELSE b - 1)
<1> DEFINE Blanks == {i \in 1..Len(s) : s[i].piece = "blank"}
<1>1. CASE Len(s) < b
  <2>1. Blanks = {}
    BY <1>1
  <2> QED
    BY <1>1, <2>1 DEF GetLines, SelectInSeq
<1>2. CASE ~(Len(s) < b)
  <2>1. Blanks = {b}
    BY <1>2
  <2>2. Min({b}) = b
    BY DEF Min
  <2>3. Min({i \in 1..Len(s) : s[i].piece = "blank"}) = b
    BY <2>1, <2>2
  <2>4. SelectInSeq(s, LAMBDA p : p.piece = "blank") = b
    BY <2>1, <2>3 DEF SelectInSeq
  <2> QED
    BY <1>2, <2>4 DEF GetLines
<1> QED
  BY <1>1, <1>2

(* The lines of a part of a request that came with its line, and its text: *)
(* there is one if some of the text of the request came.                   *)
LEMMA LinesOfPrefix ==
  ASSUME NEW pieces, WellFormed(pieces), NEW n \in 1..Len(pieces)
  PROVE  LET cut == SubSeq(pieces, 1, n)
             lines == GetLines(cut)
         IN  /\ cut[1] = pieces[1]
             /\ lines # <<>> /\ lines[1] = pieces[1]
             /\ SubSeq(cut, Len(lines) + 2, n) # <<>> <=> HasText(cut)
             /\ HasText(cut) => HasText(pieces)
<1> DEFINE cut == SubSeq(pieces, 1, n)
<1>1. PICK b \in 2..Len(pieces) :
        /\ pieces[1].piece = "line"
        /\ \A i \in 2..(b - 1) : pieces[i].piece = "header"
        /\ pieces[b] = Blank
        /\ \A i \in (b + 1)..Len(pieces) : pieces[i] = Text
  BY DEF WellFormed
<1>2. /\ Len(cut) = n /\ \A i \in 1..n : cut[i] = pieces[i]
      /\ Len(pieces) \in Nat /\ b \in Nat \ {0}
  BY <1>1 DEF WellFormed
<1>3. \A i \in 1..Len(pieces) : pieces[i].piece = "blank" <=> i = b
  BY <1>1, <1>2 DEF Blank, Text
<1> DEFINE m == IF n < b THEN n ELSE b - 1
<1> HIDE DEF cut
<1>4. GetLines(cut) = SubSeq(cut, 1, m)
  <2>1. \A i \in 1..Len(cut) : cut[i].piece = "blank" <=> i = b
    BY <1>2, <1>3
  <2>2. GetLines(cut) = SubSeq(cut, 1, IF Len(cut) < b THEN Len(cut) ELSE b - 1)
    <3>1. Len(cut) \in Nat
      BY <1>2
    <3> QED
      BY <1>2, <2>1, <3>1, LinesEnd, Zenon
  <2> QED
    BY <1>2, <2>2
<1>5. m \in 1..n
  BY <1>2
<1>6. cut \in Seq(ToSet(pieces)) /\ pieces \in Seq(ToSet(pieces))
  BY DEF cut, WellFormed
<1> HIDE DEF m
<1>8. /\ Len(SubSeq(cut, 1, m)) = m
      /\ SubSeq(cut, 1, m) # <<>>
      /\ SubSeq(cut, 1, m)[1] = pieces[1]
  BY <1>2, <1>5, <1>6
<1>9. SubSeq(cut, m + 2, n) # <<>> <=> m + 2 <= n
  BY <1>2, <1>5, <1>6
<1>10. HasText(cut) <=> b + 1 <= n
  <2>1. HasText(cut) <=> pieces[n] = Text
    BY <1>2 DEF HasText
  <2>2. n > b => pieces[n] = Text
    BY <1>1, <1>2
  <2>3. n <= b => pieces[n].piece # "text"
    BY <1>1, <1>2 DEF Blank
  <2>4. Text.piece = "text"
    BY DEF Text
  <2> QED
    BY <1>2, <2>1, <2>2, <2>3, <2>4
<1>11. SubSeq(cut, m + 2, n) # <<>> <=> HasText(cut)
  BY <1>2, <1>9, <1>10 DEF m
<1>12. HasText(cut) => HasText(pieces)
  <2>1. b + 1 <= n => pieces[Len(pieces)] = Text
    BY <1>1, <1>2
  <2> QED
    BY <1>10, <2>1 DEF HasText
<1>13. GetLines(cut) # <<>> /\ GetLines(cut)[1] = pieces[1]
  BY <1>4, <1>8
<1>14. SubSeq(cut, Len(GetLines(cut)) + 2, n) # <<>> <=> HasText(cut)
  BY <1>4, <1>8, <1>11
<1>15. cut[1] = pieces[1]
  BY <1>2
<1> QED
  BY <1>12, <1>13, <1>14, <1>15, Zenon DEF cut

(* What the parser makes of a part of a request that came with its line:   *)
(* the path is the one it names, and there are parameters if some came.    *)
LEMMA PartsParsed ==
  ASSUME NEW pieces, WellFormed(pieces), NEW n \in 1..Len(pieces)
  PROVE  LET cut == SubSeq(pieces, 1, n)
             req == DeSerialize(cut)
         IN  /\ req.line.resource = Named(pieces)
             /\ Named(cut) = Named(pieces)
             /\ IsExec(req) <=> HasParameters(cut)
             /\ HasParameters(cut) => HasParameters(pieces)
<1> DEFINE cut == SubSeq(pieces, 1, n)
           lines == GetLines(cut)
           req == DeSerialize(cut)
<1>1. /\ cut[1] = pieces[1]
      /\ lines # <<>> /\ lines[1] = pieces[1]
      /\ SubSeq(cut, Len(lines) + 2, n) # <<>> <=> HasText(cut)
      /\ HasText(cut) => HasText(pieces)
  BY LinesOfPrefix
<1>2. Len(cut) = n
  BY DEF WellFormed
<1> HIDE DEF cut, lines
<1>3. /\ req.line = ParseReqLine(lines)
      /\ req.text = SubSeq(cut, Len(lines) + 2, n)
  BY <1>2 DEF DeSerialize, lines
<1> HIDE DEF req
<1>4. /\ req.line.resource = Named(pieces)
      /\ req.line.args # "" <=> pieces[1].method = "GET" /\ pieces[1].query # ""
  <2> DEFINE line == pieces[1]
             path == WithHomepage(line.resource)
  <2>1. CASE line.method = "GET"
    <3>1. req.line = [method |-> "GET", resource |-> path, args |-> line.query]
      BY <1>1, <1>3, <2>1 DEF ParseReqLine
    <3>2. req.line.resource = path /\ req.line.args = line.query
      BY <3>1
    <3>3. Named(pieces) = path
      BY <2>1 DEF Named
    <3> QED
      BY <2>1, <3>2, <3>3
  <2>2. CASE line.method # "GET"
    <3> DEFINE page == [path EXCEPT !.query = line.query]
    <3>1. req.line = [method |-> line.method, args |-> "",
                      resource |-> page]
      BY <1>1, <1>3, <2>2 DEF ParseReqLine
    <3> HIDE DEF page
    <3>2. req.line.resource = page /\ req.line.args = ""
      <4> DEFINE made == req.line
      <4>1. made = [method |-> line.method, args |-> "", resource |-> page]
        BY <3>1
      <4> HIDE DEF made, line
      <4>2. made.resource = page /\ made.args = ""
        BY <4>1
      <4> QED
        BY <4>2 DEF made
    <3>3. Named(pieces) = page
      BY <2>2 DEF Named, page
    <3> QED
      BY <2>2, <3>2, <3>3
  <2> QED
    BY <2>1, <2>2
<1>5. IsExec(req) <=> HasParameters(cut)
  BY <1>1, <1>3, <1>4 DEF IsExec, HasParameters
<1>6. HasParameters(cut) => HasParameters(pieces)
  BY <1>1 DEF HasParameters
<1>7. Named(cut) = Named(pieces)
  BY <1>1 DEF Named
<1> QED
  BY <1>4, <1>5, <1>6, <1>7 DEF req, cut

(* ------------------------------ the server ----------------------------- *)

NonNew == {k \in Links : client[k] # "new"}

Types ==
  /\ backlog \in Seq(Links)
  /\ DOMAIN thread = Links /\ DOMAIN client = Links
  /\ DOMAIN asked = Links /\ DOMAIN received = Links
  /\ \A k \in Links : asked[k] \in Requests \cup {<<>>}

(* A link is new, then waits once in the backlog, and only then has a      *)
(* thread, which has received a part of what was sent.                     *)
Progress ==
  /\ \A i \in 1..Len(backlog) :
       client[backlog[i]] # "new" /\ thread[backlog[i]] = "none"
  /\ \A i, j \in 1..Len(backlog) : backlog[i] = backlog[j] => i = j
  /\ \A k \in Links : client[k] = "new" => thread[k] = "none"
  /\ \A k \in Links : thread[k] = "none" => received[k] = <<>>
  /\ \A k \in Links : \E n \in 0..Len(asked[k]) :
       received[k] = SubSeq(asked[k], 1, n)

(* accept() fails only when there are as many links as descriptors.        *)
Crowded == doomed => Cardinality(NonNew) >= FdLimit

(* The inductive invariant.                                                *)
HttpInv == Types /\ Progress /\ Crowded

(* No link has been made.                                                  *)
LEMMA InitHolds == HttpInit => HttpInv
<1> SUFFICES ASSUME HttpInit
             PROVE  HttpInv
  OBVIOUS
<1>1. Types
  BY DEF HttpInit, Types
<1>2. Progress
  BY DEF HttpInit, Progress
<1> QED
  BY <1>1, <1>2 DEF HttpInit, HttpInv, Crowded

(* There are finitely many links.                                          *)
LEMMA LinksFinite ==
  /\ IsFiniteSet(Links)
  /\ \A S \in SUBSET Links : IsFiniteSet(S) /\ Cardinality(S) \in Nat
<1>1. MaxLinks \in Nat
  BY HttpServerAssumption
<1>2. IsFiniteSet(Links)
  BY <1>1, FS_Interval DEF Links
<1> QED
  BY <1>2, FS_Subset, FS_CardinalityType

(* Links never become new again.                                           *)
LEMMA CrowdedKept ==
  ASSUME HttpInv, NonNew \subseteq NonNew', doomed' => doomed
  PROVE  Crowded'
<1>1. NonNew \subseteq Links /\ NonNew' \subseteq Links
  BY DEF NonNew
<1>2. Cardinality(NonNew) <= Cardinality(NonNew')
  BY <1>1, LinksFinite, FS_Subset
<1>3. Cardinality(NonNew) \in Nat /\ Cardinality(NonNew') \in Nat
  BY <1>1, LinksFinite
<1> QED
  BY <1>2, <1>3, HttpServerAssumption DEF HttpInv, Crowded

(* Threads that exist are gone with the process, and nothing is doomed.    *)
LEMMA DieKeeps ==
  ASSUME HttpInv, NEW how, Die(how)
  PROVE  HttpInv'
<1>1. Types'
  BY DEF HttpInv, Types, Die
<1>2. Progress'
  BY DEF HttpInv, Types, Progress, Die
<1>3. Crowded'
  BY DEF Crowded, Die
<1> QED
  BY <1>1, <1>2, <1>3 DEF HttpInv

(* The first link of the backlog gets a thread, or is lost with one.       *)
LEMMA AcceptKeeps == HttpInv /\ Accept => HttpInv'
<1> SUFFICES ASSUME HttpInv, Accept
             PROVE  HttpInv'
  OBVIOUS
<1>0. Types /\ Progress
  BY DEF HttpInv
<1>1. /\ backlog # <<>> /\ backlog' = Tail(backlog)
      /\ asked' = asked /\ received' = received /\ client' = client
      /\ doomed' = doomed
  BY DEF Accept, linkVars
<1>2. /\ backlog \in Seq(Links) /\ backlog' \in Seq(Links)
      /\ Head(backlog) = backlog[1] /\ backlog[1] \in Links
      /\ Len(backlog') = Len(backlog) - 1 /\ Len(backlog) \in Nat \ {0}
      /\ \A i \in 1..Len(backlog') : backlog'[i] = backlog[i + 1]
  <2>1. backlog \in Seq(Links)
    BY <1>0 DEF Types
  <2> QED
    BY <1>1, <2>1, HeadTailProperties
<1>3. /\ DOMAIN thread' = Links /\ thread'[backlog[1]] # "none"
      /\ \A k \in Links \ {backlog[1]} : thread'[k] = thread[k]
  BY <1>0, <1>2 DEF Accept, Types
<1>4. Types'
  BY <1>0, <1>1, <1>2, <1>3 DEF Types
<1>5. Progress'
  <2>1. ASSUME NEW i \in 1..Len(backlog')
        PROVE  client'[backlog'[i]] # "new" /\ thread'[backlog'[i]] = "none"
    <3>1. i + 1 \in 1..Len(backlog) /\ backlog'[i] = backlog[i + 1]
      BY <1>2
    <3>2. backlog[i + 1] # backlog[1]
      BY <1>0, <1>2, <3>1 DEF Progress
    <3>3. /\ backlog[i + 1] \in Links
          /\ client[backlog[i + 1]] # "new" /\ thread[backlog[i + 1]] = "none"
      BY <1>0, <1>2, <3>1 DEF Progress
    <3> QED
      BY <1>1, <1>3, <3>1, <3>2, <3>3
  <2>2. ASSUME NEW i \in 1..Len(backlog'), NEW j \in 1..Len(backlog'),
               backlog'[i] = backlog'[j]
        PROVE  i = j
    <3>1. /\ i + 1 \in 1..Len(backlog) /\ j + 1 \in 1..Len(backlog)
          /\ backlog[i + 1] = backlog[j + 1]
      BY <1>2, <2>2
    <3>2. i + 1 = j + 1
      BY <1>0, <3>1 DEF Progress
    <3> QED
      BY <3>2
  <2>3. ASSUME NEW k \in Links
        PROVE  /\ client'[k] = "new" => thread'[k] = "none"
               /\ thread'[k] = "none" => received'[k] = <<>>
    <3>1. client[backlog[1]] # "new" /\ thread[backlog[1]] = "none"
      BY <1>0, <1>2 DEF Progress
    <3> QED
      BY <1>0, <1>1, <1>2, <1>3, <3>1 DEF Progress
  <2> QED
    BY <1>0, <1>1, <2>1, <2>2, <2>3 DEF Progress
<1>6. Crowded'
  BY <1>1, CrowdedKept DEF NonNew
<1> QED
  BY <1>4, <1>5, <1>6 DEF HttpInv

(* accept() fails: the links that use the descriptors are not new.         *)
LEMMA AcceptFailsKeeps == HttpInv /\ AcceptFails => HttpInv'
<1> SUFFICES ASSUME HttpInv, AcceptFails
             PROVE  HttpInv'
  OBVIOUS
<1>1. Types /\ Progress
  BY DEF HttpInv
<1>2. /\ Cardinality(Used) >= FdLimit
      /\ backlog' = backlog /\ thread' = thread /\ asked' = asked
      /\ received' = received /\ client' = client
  BY DEF AcceptFails, linkVars
<1>3. Types' /\ Progress'
  <2>1. Types'
    BY <1>1, <1>2 DEF Types
  <2>2. Progress'
    BY <1>1, <1>2 DEF Progress
  <2> QED
    BY <2>1, <2>2
<1>4. Cardinality(NonNew) >= FdLimit
  <2>1. Used \subseteq NonNew /\ NonNew \subseteq Links
    BY <1>1 DEF Progress, NonNew, Used
  <2>2. /\ Cardinality(Used) <= Cardinality(NonNew)
        /\ Cardinality(Used) \in Nat /\ Cardinality(NonNew) \in Nat
    BY <2>1, LinksFinite, FS_Subset
  <2> QED
    BY <1>2, <2>2, HttpServerAssumption
<1>5. Crowded'
  BY <1>2, <1>4 DEF Crowded, NonNew
<1> QED
  BY <1>3, <1>5 DEF HttpInv

(* A step of a thread that neither begins nor receives.                    *)
LEMMA ThreadKeeps ==
  ASSUME HttpInv, NEW k \in Links, thread[k] # "none",
         thread' = [thread EXCEPT ![k] = thread'[k]], thread'[k] # "none",
         UNCHANGED <<backlog, asked, received, client, doomed>>
  PROVE  HttpInv'
<1>1. Types /\ Progress
  BY DEF HttpInv
<1>2. Types'
  BY <1>1 DEF Types
<1>3. Progress'
  BY <1>1 DEF Progress, Types
<1>4. Crowded'
  BY CrowdedKept DEF NonNew
<1> QED
  BY <1>2, <1>3, <1>4 DEF HttpInv

(* A part of what was sent is received.                                    *)
LEMMA RecvKeeps ==
  ASSUME HttpInv, NEW k \in Links, Recv(k)
  PROVE  HttpInv'
<1>1. Types /\ Progress
  BY DEF HttpInv
<1>2. PICK n \in 0..Len(asked[k]) :
        received' = [received EXCEPT ![k] = SubSeq(asked[k], 1, n)]
  BY DEF Recv, MayReceive
<1>3. /\ thread[k] = "recv" /\ thread' = [thread EXCEPT ![k] = "handle"]
      /\ backlog' = backlog /\ asked' = asked /\ client' = client
      /\ doomed' = doomed
  BY DEF Recv
<1>4. Types'
  BY <1>1, <1>2, <1>3 DEF Types
<1>5. Progress'
  <2>1. \A j \in Links : thread'[j] = "none" => thread[j] = "none" /\ j # k
    BY <1>1, <1>3 DEF Types
  <2>2. \A j \in Links \ {k} : received'[j] = received[j] /\ thread'[j] = thread[j]
    BY <1>1, <1>2, <1>3 DEF Types
  <2>3. received'[k] = SubSeq(asked[k], 1, n) /\ client[k] # "new"
    BY <1>1, <1>2, <1>3 DEF Types, Progress
  <2>4. \A i \in 1..Len(backlog) : backlog[i] \in Links
    BY <1>1 DEF Types
  <2>5. \A i \in 1..Len(backlog') :
          client'[backlog'[i]] # "new" /\ thread'[backlog'[i]] = "none"
    <3>1. \A i \in 1..Len(backlog) :
            client[backlog[i]] # "new" /\ thread[backlog[i]] = "none"
      BY <1>1 DEF Progress
    <3>2. \A i \in 1..Len(backlog) : backlog[i] \in Links \ {k}
      BY <1>3, <2>4, <3>1
    <3> QED
      BY <1>3, <2>2, <3>1, <3>2
  <2>6. \A i, j \in 1..Len(backlog') : backlog'[i] = backlog'[j] => i = j
    BY <1>1, <1>3 DEF Progress
  <2>7. \A j \in Links :
          /\ client'[j] = "new" => thread'[j] = "none"
          /\ thread'[j] = "none" => received'[j] = <<>>
    BY <1>1, <1>3, <2>1, <2>2, <2>3 DEF Progress
  <2>8. \A j \in Links : \E m \in 0..Len(asked'[j]) :
          received'[j] = SubSeq(asked'[j], 1, m)
    BY <1>1, <1>3, <2>2, <2>3 DEF Progress
  <2> QED
    BY <2>5, <2>6, <2>7, <2>8 DEF Progress
<1>6. Crowded'
  BY <1>3, CrowdedKept DEF NonNew
<1> QED
  BY <1>4, <1>5, <1>6 DEF HttpInv

(* A browser reads, leaves or is reset.                                    *)
LEMMA BrowserKeeps ==
  ASSUME HttpInv, NEW k \in Links, Read(k) \/ Leave(k)
  PROVE  HttpInv'
<1>1. Types /\ Progress
  BY DEF HttpInv
<1>2. /\ client' = [client EXCEPT ![k] = client'[k]] /\ client'[k] # "new"
      /\ backlog' = backlog /\ asked' = asked /\ received' = received
      /\ thread' = thread /\ doomed' = doomed
  BY <1>1 DEF Read, Leave, Types
<1>3. Types'
  BY <1>1, <1>2 DEF Types
<1>4. Progress'
  BY <1>1, <1>2 DEF Progress, Types
<1>5. NonNew \subseteq NonNew'
  BY <1>1, <1>2 DEF NonNew, Types
<1>6. Crowded'
  BY <1>2, <1>5, CrowdedKept
<1> QED
  BY <1>3, <1>4, <1>6 DEF HttpInv

LEMMA AbortKeeps ==
  ASSUME HttpInv, NEW k \in Links, Abort(k)
  PROVE  HttpInv'
<1>1. /\ backlog' = backlog /\ thread' = thread /\ asked' = asked
      /\ received' = received /\ client' = client /\ doomed' = doomed
  BY DEF Abort
<1>2. Types' /\ Progress' /\ Crowded'
  BY <1>1 DEF HttpInv, Types, Progress, Crowded, NonNew
<1> QED
  BY <1>2 DEF HttpInv

(* A new link joins the backlog.                                           *)
LEMMA ConnectKeeps ==
  ASSUME HttpInv, NEW k \in Links, NEW pieces \in Requests \cup {<<>>},
         Connect(k, pieces)
  PROVE  HttpInv'
<1>1. Types /\ Progress
  BY DEF HttpInv
<1>2. /\ client[k] = "new" /\ client' = [client EXCEPT ![k] = "waiting"]
      /\ asked' = [asked EXCEPT ![k] = pieces]
      /\ backlog' = Append(backlog, k)
      /\ thread' = thread /\ received' = received /\ doomed' = doomed
  BY DEF Connect
<1>3. /\ thread[k] = "none" /\ received[k] = <<>>
  BY <1>1, <1>2 DEF Progress
<1>4. /\ backlog' \in Seq(Links) /\ Len(backlog) \in Nat
      /\ Len(backlog') = Len(backlog) + 1 /\ backlog'[Len(backlog) + 1] = k
      /\ \A i \in 1..Len(backlog) : backlog'[i] = backlog[i] /\ backlog[i] \in Links
  BY <1>1, <1>2 DEF Types
<1>5. Types'
  BY <1>1, <1>2, <1>4 DEF Types
<1>6. \A i \in 1..Len(backlog) : backlog[i] # k
  BY <1>1, <1>2, <1>4 DEF Progress
<1>7. Len(pieces) \in Nat /\ SubSeq(pieces, 1, 0) = <<>>
  BY RequestsAssumption DEF WellFormed
<1>8. Progress'
  <2>1. \A i \in 1..Len(backlog') :
          client'[backlog'[i]] # "new" /\ thread'[backlog'[i]] = "none"
    <3> SUFFICES ASSUME NEW i \in 1..Len(backlog')
                 PROVE  client'[backlog'[i]] # "new" /\ thread'[backlog'[i]] = "none"
      OBVIOUS
    <3>1. CASE i = Len(backlog) + 1
      <4>1. client'[k] = "waiting"
        BY <1>1, <1>2 DEF Types
      <4> QED
        BY <1>2, <1>3, <1>4, <3>1, <4>1
    <3>2. CASE i # Len(backlog) + 1
      <4>1. i \in 1..Len(backlog)
        BY <1>4, <3>2
      <4>2. client[backlog[i]] # "new" /\ thread[backlog[i]] = "none"
        BY <1>1, <4>1 DEF Progress
      <4>3. backlog'[i] = backlog[i] /\ backlog[i] \in Links /\ backlog[i] # k
        BY <1>4, <1>6, <4>1
      <4>4. client'[backlog[i]] = client[backlog[i]]
        BY <1>1, <1>2, <4>3 DEF Types
      <4> QED
        BY <1>2, <4>2, <4>3, <4>4
    <3> QED
      BY <3>1, <3>2
  <2>2. ASSUME NEW i \in 1..Len(backlog'), NEW j \in 1..Len(backlog'),
               backlog'[i] = backlog'[j]
        PROVE  i = j
    <3>1. CASE i \in 1..Len(backlog) /\ j \in 1..Len(backlog)
      <4>1. backlog[i] = backlog[j]
        BY <1>4, <2>2, <3>1
      <4> QED
        BY <1>1, <3>1, <4>1 DEF Progress
    <3>2. CASE i \in 1..Len(backlog) /\ j = Len(backlog) + 1
      BY <1>4, <1>6, <2>2, <3>2
    <3>3. CASE i = Len(backlog) + 1 /\ j \in 1..Len(backlog)
      BY <1>4, <1>6, <2>2, <3>3
    <3>4. CASE i = Len(backlog) + 1 /\ j = Len(backlog) + 1
      BY <3>4
    <3> QED
      BY <1>4, <3>1, <3>2, <3>3, <3>4
  <2>3. \A j \in Links :
          /\ client'[j] = "new" => thread'[j] = "none"
          /\ thread'[j] = "none" => received'[j] = <<>>
    BY <1>1, <1>2 DEF Progress, Types
  <2>4. ASSUME NEW j \in Links
        PROVE  \E n \in 0..Len(asked'[j]) : received'[j] = SubSeq(asked'[j], 1, n)
    <3>1. CASE j = k
      <4>1. asked'[j] = pieces /\ received'[j] = <<>>
        BY <1>1, <1>2, <1>3, <3>1 DEF Types
      <4> QED
        BY <1>7, <4>1
    <3>2. CASE j # k
      BY <1>1, <1>2, <3>2 DEF Progress, Types
    <3> QED
      BY <3>1, <3>2
  <2> QED
    BY <2>1, <2>2, <2>3, <2>4 DEF Progress
<1>9. NonNew \subseteq NonNew'
  BY <1>1, <1>2 DEF NonNew, Types
<1>10. Crowded'
  BY <1>2, <1>9, CrowdedKept
<1> QED
  BY <1>5, <1>8, <1>10 DEF HttpInv

(* One case for each action.                                               *)
LEMMA StepKeeps == HttpInv /\ [HttpNext]_httpVars => HttpInv'
<1> SUFFICES ASSUME HttpInv, [HttpNext]_httpVars
             PROVE  HttpInv'
  OBVIOUS
<1>1. CASE Start
  BY <1>1, AcceptKeeps, AcceptFailsKeeps DEF Start
<1>2. CASE Crash
  BY <1>2, DieKeeps DEF Crash
<1>3. CASE Restart
  <2>1. /\ backlog' = backlog /\ thread' = thread /\ asked' = asked
        /\ received' = received /\ client' = client /\ doomed' = doomed
    BY <1>3 DEF Restart, linkVars
  <2>2. Types' /\ Progress' /\ Crowded'
    BY <2>1 DEF HttpInv, Types, Progress, Crowded, NonNew
  <2> QED
    BY <2>2 DEF HttpInv
<1>4. ASSUME NEW k \in Links, HandlerService(k)
      PROVE  HttpInv'
  <2> DOMAIN thread = Links
    BY DEF HttpInv, Types
  <2>1. CASE RecvStep(k)
    BY <2>1, RecvKeeps DEF RecvStep
  <2>2. CASE RecvEnd(k)
    <3>1. /\ thread[k] # "none" /\ thread'[k] = "close"
          /\ thread' = [thread EXCEPT ![k] = thread'[k]]
          /\ UNCHANGED <<backlog, asked, received, client, doomed>>
      BY <2>2 DEF RecvEnd, linkVars, Finish
    <3> QED
      BY <3>1, ThreadKeeps
  <2>3. CASE Serve(k)
    <3>1. /\ thread[k] # "none" /\ thread'[k] = "close"
          /\ thread' = [thread EXCEPT ![k] = thread'[k]]
          /\ UNCHANGED <<backlog, asked, received, client, doomed>>
      BY <2>3 DEF Serve, Finish
    <3> QED
      BY <3>1, ThreadKeeps
  <2>4. CASE ServeEnds(k)
    <3>1. \E how : Die(how)
      BY <2>4 DEF ServeEnds
    <3> QED
      BY <3>1, DieKeeps
  <2>5. CASE Close(k)
    <3>1. /\ thread[k] # "none" /\ thread'[k] = "gone"
          /\ thread' = [thread EXCEPT ![k] = thread'[k]]
          /\ UNCHANGED <<backlog, asked, received, client, doomed>>
      BY <2>5 DEF Close
    <3> QED
      BY <3>1, ThreadKeeps
  <2> QED
    BY <1>4, <2>1, <2>2, <2>3, <2>4, <2>5 DEF HandlerService
<1>5. CASE UNCHANGED httpVars
  <2>1. /\ backlog' = backlog /\ thread' = thread /\ asked' = asked
        /\ received' = received /\ client' = client /\ doomed' = doomed
    BY <1>5 DEF httpVars, linkVars
  <2>2. Types' /\ Progress' /\ Crowded'
    BY <2>1 DEF HttpInv, Types, Progress, Crowded, NonNew
  <2> QED
    BY <2>2 DEF HttpInv
<1> QED
  BY <1>1, <1>2, <1>3, <1>4, <1>5, ConnectKeeps, BrowserKeeps, AbortKeeps
  DEF HttpNext

(* What was received, if anything, is a part of a request.                 *)
LEMMA ReceivedPart ==
  ASSUME HttpInv, NEW k \in Links, received[k] # <<>>
  PROVE  \E n \in 1..Len(asked[k]) :
           asked[k] \in Requests /\ received[k] = SubSeq(asked[k], 1, n)
<1>1. PICK n \in 0..Len(asked[k]) : received[k] = SubSeq(asked[k], 1, n)
  BY DEF HttpInv, Progress
<1>2. asked[k] \in Requests \cup {<<>>}
  BY DEF HttpInv, Types
<1>3. n # 0
  <2>1. SubSeq(asked[k], 1, 0) = <<>>
    BY <1>2, RequestsAssumption DEF WellFormed
  <2> QED
    BY <1>1, <2>1
<1>4. CASE asked[k] \in Requests
  BY <1>1, <1>3, <1>4, RequestsAssumption DEF WellFormed
<1>5. CASE asked[k] = <<>>
  <2>1. Len(asked[k]) = 0
    BY <1>5
  <2> QED
    BY <1>3, <2>1
<1> QED
  BY <1>2, <1>4, <1>5

(* A request the parser ends the process with is not harmless.             *)
LEMMA EndsAreHarmful ==
  ASSUME HttpInv, NEW k \in Links, Ends(DeSerialize(received[k])) # {}
  PROVE  ~Harmless(k)
<1> SUFFICES ASSUME received[k] # <<>>
             PROVE  ~Harmless(k)
  BY DEF Harmless
<1>1. PICK n \in 1..Len(asked[k]) :
        asked[k] \in Requests /\ received[k] = SubSeq(asked[k], 1, n)
  BY ReceivedPart
<1> DEFINE req == DeSerialize(received[k])
<1>5. /\ req.line.resource = Named(asked[k])
      /\ IsExec(req) => HasParameters(asked[k])
  BY <1>1, PartsParsed, RequestsAssumption
<1>6. Ends(req) # {}
  OBVIOUS
<1> HIDE DEF req
<1>7. \/ IsExec(req) /\ req.line.resource \notin Funcs
      \/ req.line.resource \in Directories
  <2>1. CASE IsExec(req) /\ req.line.resource \notin Funcs
    BY <2>1
  <2>2. CASE ~IsExec(req) /\ req.line.resource \in Directories
    BY <2>2
  <2>3. ASSUME ~(IsExec(req) /\ req.line.resource \notin Funcs),
               ~(~IsExec(req) /\ req.line.resource \in Directories)
        PROVE  Ends(req) = {}
    BY <2>3, Zenon DEF Ends
  <2> QED
    BY <1>6, <2>1, <2>2, <2>3
<1> QED
  BY <1>5, <1>7 DEF Harmless

(* The process ends for one of the reasons the property allows.            *)
Excused ==
  \/ \E k \in Links :
       /\ thread[k] = "handle"
       /\ \/ raced[k] \/ ~Harmless(k)
          \/ server' = "pipe" /\ clientEnd[k] = "finrst"
  \/ /\ server' = "segv"
     /\ Cardinality({k \in Links : client[k] # "new"}) >= FdLimit

LEMMA EndsExplained ==
  ASSUME HttpInv, HttpNext, server = "up", server' # "up"
  PROVE  Excused
<1>1. CASE Crash
  BY <1>1 DEF Crash, Die, HttpInv, Crowded, NonNew, Excused
<1>2. ASSUME NEW k \in Links, ServeEnds(k)
      PROVE  Excused
  <2> DEFINE req == DeSerialize(received[k])
  <2>1. /\ thread[k] = "handle"
        /\ \/ Ends(req) # {}
           \/ raced[k]
           \/ clientEnd[k] = "finrst" /\ Die("pipe")
    BY <1>2 DEF ServeEnds
  <2>2. CASE Ends(req) # {}
    BY <2>1, <2>2, EndsAreHarmful DEF Excused
  <2>3. CASE raced[k]
    BY <2>1, <2>3 DEF Excused
  <2>4. CASE clientEnd[k] = "finrst" /\ Die("pipe")
    BY <2>1, <2>4 DEF Excused, Die
  <2> QED
    BY <2>1, <2>2, <2>3, <2>4
<1>3. \/ Crash
      \/ \E k \in Links : ServeEnds(k)
  BY DEF HttpNext, Start, Accept, AcceptFails, Restart, HandlerService,
         RecvStep, Recv, RecvEnd, Serve, Close, Connect, Read, Leave, Abort
<1> QED
  BY <1>1, <1>2, <1>3

(* What ends the server is a request the code cannot serve (of a           *)
(* directory, with parameters for a path without a handler, or one whose   *)
(* line did not arrive), a table two threads were in, as many connections  *)
(* as descriptors, or a browser reset after its FIN and before its answer: *)
(* not browsers that leave with one of FIN and RST, nor requests that      *)
(* recv() cuts behind their line.                                          *)
THEOREM RequestsSurvived == HttpSpec => SurvivesRequests
<1>1. HttpInv /\ [HttpNext]_httpVars =>
        [server = "up" /\ server' # "up" => Excused]_httpVars
  BY EndsExplained
<1> QED
  BY InitHolds, StepKeeps, <1>1, PTL DEF HttpSpec, SurvivesRequests, Excused

(* What answers a part of a request, when nothing is exempt: what the part *)
(* asks for.                                                               *)
LEMMA PartsAnswered ==
  ASSUME NEW pieces, WellFormed(pieces), NEW n \in 1..Len(pieces),
         Named(pieces) \notin Exempt, NEW cut, cut = SubSeq(pieces, 1, n),
         NEW response \in HandlerHttpService(DeSerialize(cut))
  PROVE  response.text = <<Expected(cut)>>
<1> DEFINE req == DeSerialize(cut)
           resource == req.line.resource
<1>1. /\ resource = Named(cut) /\ Named(cut) = Named(pieces)
      /\ IsExec(req) <=> HasParameters(cut)
  BY PartsParsed
<1>2. response \in HandlerHttpService(req)
  OBVIOUS
<1> HIDE DEF req
<1>3. CASE IsExec(req)
  <2>1. HandlerHttpService(req) = {Login(req) : f \in Funcs \cap {resource}}
    BY <1>3, Zenon DEF HandlerHttpService
  <2>2. response = Login(req)
    BY <1>2, <2>1
  <2>3. response.text = <<LoginText>>
    BY <2>2 DEF Login, Response
  <2> QED
    BY <1>1, <1>3, <2>3 DEF Expected
<1>4. CASE ~IsExec(req)
  <2>1. resource \notin {Redir, ErrorPage} /\ resource \notin Directories
    BY <1>1 DEF Exempt
  <2>2. HandlerHttpService(req) =
          UNION {Page(resource, text) : text \in ReadFileRequest(resource)}
    BY <1>4, <2>1, Zenon DEF HandlerHttpService
  <2>3. PICK text \in ReadFileRequest(resource) : response \in Page(resource, text)
    BY <1>2, <2>2
  <2>4. CASE resource \in Pages
    <3>1. text = <<resource>>
      BY <2>1, <2>3, <2>4 DEF ReadFileRequest
    <3>2. text # <<>>
      BY <3>1
    <3>3. response.text = <<resource>>
      BY <2>3, <3>1, <3>2 DEF Page, Response
    <3> QED
      BY <1>1, <1>4, <2>4, <3>3 DEF Expected
  <2>5. CASE resource \notin Pages
    <3>1. text = <<>>
      BY <2>1, <2>3, <2>5 DEF ReadFileRequest
    <3>2. ReadFileRequest(ErrorPage) = {<<ErrorPage>>}
      BY PagesAssumption DEF ReadFileRequest
    <3>3. response = Response(404, MimeType(".html"), <<ErrorPage>>)
      BY <2>3, <3>1, <3>2 DEF Page
    <3>4. response.text = <<ErrorPage>>
      BY <3>3 DEF Response
    <3> QED
      BY <1>1, <1>4, <2>5, <3>4 DEF Expected
  <2> QED
    BY <2>4, <2>5
<1> QED
  BY <1>3, <1>4

(* An answer is one the handler may give to what was received, and nothing *)
(* is received once it is there; a client reads it, or nothing.            *)
Answered ==
  /\ DOMAIN answer = Links /\ DOMAIN shown = Links
  /\ \A k \in Links :
       /\ thread[k] \in {"none", "recv", "handle"} => answer[k] = <<>>
       /\ answer[k] # <<>> =>
            \E response \in HandlerHttpService(DeSerialize(received[k])) :
              answer[k] = <<response>>
       /\ shown[k] \in {<<>>, answer[k]}

(* A step that receives and answers nothing.                               *)
LEMMA AnsweredKept ==
  ASSUME HttpInv, Answered, UNCHANGED <<answer, shown>>,
         \A k \in Links :
           \/ received'[k] = received[k]
           \/ thread[k] = "recv",
         \A k \in Links :
           thread'[k] \in {"none", "recv", "handle"} =>
             thread[k] \in {"none", "recv", "handle"}
  PROVE  Answered'
<1>1. \A k \in Links : answer[k] # <<>> => received'[k] = received[k]
  BY DEF Answered
<1> QED
  BY <1>1 DEF Answered

(* Serve is the only step that answers.                                    *)
LEMMA AnsweredStep == HttpInv /\ Answered /\ [HttpNext]_httpVars => Answered'
<1> SUFFICES ASSUME HttpInv, Answered, [HttpNext]_httpVars
             PROVE  Answered'
  OBVIOUS
<1>1. /\ DOMAIN thread = Links /\ DOMAIN received = Links
      /\ backlog \in Seq(Links)
  BY DEF HttpInv, Types
<1>2. CASE Start
  <2>1. CASE AcceptFails
    BY <2>1, AnsweredKept DEF AcceptFails, linkVars
  <2>2. CASE Accept
    <3>1. /\ backlog # <<>> /\ UNCHANGED linkVars
          /\ \E next \in {"recv", "not created"} :
               thread' = [thread EXCEPT ![Head(backlog)] = next]
      BY <2>2 DEF Accept
    <3>2. thread[Head(backlog)] = "none"
      <4>1. 1 \in 1..Len(backlog) /\ Head(backlog) = backlog[1]
        <5>1. backlog \in Seq(Links) /\ backlog # <<>>
          BY <1>1, <3>1
        <5> QED
          BY <5>1
      <4> QED
        BY <4>1 DEF HttpInv, Progress
    <3> QED
      BY <1>1, <3>1, <3>2, AnsweredKept DEF linkVars
  <2> QED
    BY <1>2, <2>1, <2>2 DEF Start
<1>3. ASSUME NEW how, Die(how)
      PROVE  Answered'
  <2>1. \A k \in Links : thread'[k] = "none" => thread[k] = "none"
    BY <1>3 DEF Die
  <2>2. \A k \in Links : thread'[k] \in {"none", "gone"}
    BY <1>3 DEF Die
  <2> QED
    BY <1>3, <2>1, <2>2, AnsweredKept DEF Die
<1>4. CASE Restart \/ UNCHANGED httpVars
  BY <1>4, AnsweredKept DEF Restart, httpVars, linkVars
<1>5. ASSUME NEW k \in Links, HandlerService(k)
      PROVE  Answered'
  <2>1. CASE RecvStep(k)
    BY <1>1, <2>1, AnsweredKept DEF RecvStep, Recv
  <2>2. CASE RecvEnd(k) \/ Close(k)
    BY <1>1, <2>2, AnsweredKept DEF RecvEnd, Close, Finish, linkVars
  <2>3. CASE Serve(k)
    <3>1. /\ thread[k] = "handle" /\ thread' = [thread EXCEPT ![k] = "close"]
          /\ received' = received /\ shown' = shown
          /\ \E response \in HandlerHttpService(DeSerialize(received[k])) :
               answer' = IF clientEnd[k] # "open" THEN answer
                         ELSE [answer EXCEPT ![k] = <<response>>]
      BY <2>3 DEF Serve, Finish
    <3>2. CASE clientEnd[k] # "open"
      BY <1>1, <3>1, <3>2, AnsweredKept
    <3>3. CASE clientEnd[k] = "open"
      <4>1. PICK response \in HandlerHttpService(DeSerialize(received[k])) :
              answer' = [answer EXCEPT ![k] = <<response>>]
        BY <3>1, <3>3
      <4>2. answer[k] = <<>> /\ shown[k] = <<>>
        BY <3>1 DEF Answered
      <4>3. /\ thread'[k] = "close" /\ shown'[k] = <<>>
            /\ answer'[k] = <<response>> /\ received'[k] = received[k]
        BY <1>1, <3>1, <4>1, <4>2 DEF Answered
      <4>4. \A j \in Links \ {k} :
              /\ thread'[j] = thread[j] /\ answer'[j] = answer[j]
              /\ shown'[j] = shown[j] /\ received'[j] = received[j]
        BY <1>1, <3>1, <4>1 DEF Answered
      <4>5. DOMAIN answer' = Links /\ DOMAIN shown' = Links
        BY <3>1, <4>1 DEF Answered
      <4> QED
        BY <4>3, <4>4, <4>5 DEF Answered
    <3> QED
      BY <3>2, <3>3
  <2>4. CASE ServeEnds(k)
    <3>1. \E how : Die(how)
      BY <2>4 DEF ServeEnds
    <3> QED
      BY <1>3, <3>1
  <2> QED
    BY <1>5, <2>1, <2>2, <2>3, <2>4 DEF HandlerService
<1>6. ASSUME NEW k \in Links, NEW pieces,
             Connect(k, pieces) \/ Leave(k) \/ Abort(k)
      PROVE  Answered'
  BY <1>6, AnsweredKept DEF Connect, Leave, Abort
<1>7. ASSUME NEW k \in Links, Read(k)
      PROVE  Answered'
  <2>1. PICK text \in {answer[k], <<>>} : shown' = [shown EXCEPT ![k] = text]
    BY <1>7 DEF Read
  <2>2. thread' = thread /\ received' = received /\ answer' = answer
    BY <1>7 DEF Read
  <2> QED
    BY <2>1, <2>2 DEF Answered
<1> QED
  BY <1>2, <1>3, <1>4, <1>5, <1>6, <1>7 DEF HttpNext, Crash

(* What a client has read answers what was received of its request.        *)
LEMMA AnsweredFits == HttpInv /\ Answered => AnswersFit
<1> SUFFICES ASSUME HttpInv, Answered, NEW k \in Links,
                    shown[k] # <<>>, received[k] # <<>>,
                    Named(asked[k]) \notin Exempt
             PROVE  shown[k][1].text = <<Expected(received[k])>>
  BY DEF AnswersFit
<1>1. PICK response \in HandlerHttpService(DeSerialize(received[k])) :
        shown[k] = <<response>>
  BY DEF Answered
<1>2. PICK n \in 1..Len(asked[k]) :
        asked[k] \in Requests /\ received[k] = SubSeq(asked[k], 1, n)
  BY ReceivedPart
<1>3. response.text = <<Expected(received[k])>>
  BY <1>1, <1>2, PartsAnswered, RequestsAssumption
<1> QED
  BY <1>1, <1>3

(* AnswersFit of HttpServer: wherever recv() cuts a request behind its     *)
(* line, its client reads nothing but the text that the part that arrived  *)
(* asks for, unless it named the error page, the redirect or a directory.  *)
THEOREM AnswersAlwaysFit == HttpSpec => []AnswersFit
<1>1. HttpInit => HttpInv /\ Answered
  BY InitHolds DEF HttpInit, Answered
<1>2. HttpInv /\ Answered /\ [HttpNext]_httpVars => HttpInv' /\ Answered'
  BY StepKeeps, AnsweredStep
<1> QED
  BY <1>1, <1>2, AnsweredFits, PTL DEF HttpSpec

(* ----------------------------- the sessions ---------------------------- *)

(* Natural numbers have a least one.                                       *)
LEMMA MinIn ==
  ASSUME NEW I \in SUBSET Nat, I # {}
  PROVE  Min(I) \in I
<1> DEFINE R == {p \in Nat \X Nat : p[1] < p[2]}
<1>1. IsWellFoundedOn(R, Nat)
  BY NatLessThanWellFounded DEF OpToRel
<1>2. \A x, y \in Nat : y < x => <<y, x>> \in R
  OBVIOUS
<1> HIDE DEF R
<1>3. PICK m \in I : \A i \in I : <<i, m>> \notin R
  BY <1>1, WFMin
<1>4. \A i \in I : ~(i < m)
  BY <1>2, <1>3
<1>5. \A i \in I : m <= i
  BY <1>4
<1> QED
  BY <1>5, Zenon DEF Min

(* The last Cookie of a request whose only header of that name, if any, is *)
(* the last one, has its value.                                            *)
LEMMA OnlyCookie ==
  ASSUME NEW S, NEW s \in Seq(S), NEW b \in Nat \ {0}, NEW V,
         \A i \in 1..Len(s) : s[i].piece = "blank" <=> i = b,
         \A i \in 2..Len(s) : i < b /\ s[i].name = "Cookie" =>
                                i = b - 1 /\ s[i].value \in V,
         SessionId(DeSerialize(s)) # <<>>
  PROVE  \E v \in V : SessionId(DeSerialize(s)) = <<v>>
<1> DEFINE m == IF Len(s) < b THEN Len(s) ELSE b - 1
           lines == GetLines(s)
           headers == Tail(lines)
           req == DeSerialize(s)
<1>1. Len(s) \in Nat /\ m \in 0..Len(s) /\ m < b
  OBVIOUS
<1>2. lines = SubSeq(s, 1, m)
  BY <1>1, LinesEnd
<1> HIDE DEF m
<1>3. /\ lines \in Seq(S) /\ Len(lines) = m
      /\ \A i \in 1..m : lines[i] = s[i]
  BY <1>1, <1>2
<1>4. req.headers = ParseReqHeader(lines)
  BY DEF DeSerialize
<1> HIDE DEF lines, req
<1>5. CASE lines = <<>>
  <2>1. req.headers = <<>>
    BY <1>4, <1>5 DEF ParseReqHeader
  <2>2. SessionId(req) = <<>>
    BY <2>1 DEF SessionId, SelectLastInSeq
  <2> QED
    BY <2>2 DEF req
<1>6. CASE lines # <<>>
  <2>1. /\ headers \in Seq(S) /\ Len(headers) = m - 1 /\ m \in Nat \ {0}
        /\ \A i \in 1..(m - 1) : headers[i] = s[i + 1]
    BY <1>1, <1>3, <1>6, HeadTailProperties
  <2> HIDE DEF headers
  <2> DEFINE bad == SelectInSeq(headers, LAMBDA h : h.name = "")
             e == IF bad = 0 THEN Len(headers) ELSE bad - 1
  <2>2. bad \in 0..(m - 1)
    <3> DEFINE Bad == {i \in 1..Len(headers) : headers[i].name = ""}
    <3>1. bad = IF Bad # {} THEN Min(Bad) ELSE 0
      BY DEF SelectInSeq
    <3>2. Bad \subseteq 1..Len(headers)
      OBVIOUS
    <3>3. Len(headers) = m - 1 /\ m \in Nat \ {0}
      BY <2>1
    <3> HIDE DEF Bad, bad
    <3>4. Bad \subseteq 0..(m - 1)
      BY <3>2, <3>3
    <3>5. Bad # {} => Min(Bad) \in Bad
      BY <3>3, <3>4, MinIn
    <3>6. CASE Bad = {}
      BY <3>1, <3>3, <3>6
    <3>7. CASE Bad # {}
      BY <3>1, <3>4, <3>5, <3>7
    <3> QED
      BY <3>6, <3>7
  <2>3. req.headers = SubSeq(headers, 1, e)
    BY <1>4, <1>6 DEF ParseReqHeader, headers
  <2>4. e \in 0..(m - 1)
    <3> HIDE DEF bad
    <3> QED
      BY <2>1, <2>2
  <2> HIDE DEF e
  <2> DEFINE parsed == req.headers
             Cookies == {i \in 1..Len(parsed) : parsed[i].name = "Cookie"}
             last == SelectLastInSeq(parsed, LAMBDA h : h.name = "Cookie")
  <2>5. /\ Len(parsed) = e
        /\ \A i \in 1..e : parsed[i] = s[i + 1]
    BY <2>1, <2>3, <2>4
  <2> HIDE DEF parsed
  <2>6. ASSUME NEW i \in Cookies
        PROVE  i = b - 2 /\ parsed[i].value \in V
    <3>1. i \in 1..e /\ i + 1 \in 2..m /\ i \in Nat
      BY <1>1, <2>4, <2>5
    <3>2. parsed[i] = s[i + 1] /\ s[i + 1].name = "Cookie"
      BY <2>5, <3>1
    <3>3. i + 1 \in 2..Len(s) /\ i + 1 < b
      BY <1>1, <3>1
    <3> QED
      BY <3>1, <3>2, <3>3
  <2>7. last = IF Cookies # {} THEN Max(Cookies) ELSE 0
    BY DEF SelectLastInSeq
  <2>8. SessionId(req) = IF last = 0 THEN <<>> ELSE <<parsed[last].value>>
    BY DEF SessionId, parsed
  <2>9. last # 0
    BY <2>8 DEF req
  <2>10. Cookies = {b - 2}
    BY <2>6, <2>7, <2>9
  <2>11. Max({b - 2}) = b - 2
    BY DEF Max
  <2>12. last = b - 2
    <3> HIDE DEF Cookies, last
    <3> QED
      BY <2>7, <2>10, <2>11
  <2> QED
    BY <2>6, <2>8, <2>9, <2>10, <2>12 DEF req
<1> QED
  BY <1>5, <1>6

(* A browser keeps one cookie, or none; what a request is found to have is *)
(* the id of one it sent.                                                  *)
One(kept) == kept = <<>> \/ \E c : kept = <<c>>

Carries(cut, kept) ==
  \E c : kept = <<c>> /\ SessionId(DeSerialize(cut)) = <<c.id>>

(* Wherever recv() cuts what a browser asks for, the cookie found in it is *)
(* the one the browser sent.                                               *)
LEMMA CookieParsed ==
  ASSUME NEW pieces \in Visits, NEW kept, One(kept),
         NEW n \in 0..Len(WithCookie(kept, pieces)),
         NEW cut, cut = SubSeq(WithCookie(kept, pieces), 1, n),
         SessionId(DeSerialize(cut)) # <<>>
  PROVE  Carries(cut, kept)
<1>1. WellFormed(pieces)
  BY VisitsAssumption
<1>2. PICK b \in 2..Len(pieces) :
        /\ pieces[1].piece = "line"
        /\ \A i \in 2..(b - 1) : pieces[i].piece = "header"
        /\ pieces[b] = Blank
        /\ \A i \in (b + 1)..Len(pieces) : pieces[i] = Text
  BY <1>1 DEF WellFormed
<1>3. PICK T : pieces \in Seq(T) /\ Len(pieces) \in Nat /\ b \in Nat \ {0, 1}
  BY <1>1, <1>2 DEF WellFormed
<1>4. \A i \in 1..Len(pieces) : pieces[i].piece = "blank" <=> i = b
  BY <1>2, <1>3 DEF Blank, Text
<1>5. \A i \in 2..(b - 1) : pieces[i].name # "Cookie"
  <2>1. \A i \in 2..(b - 1) : i \in DOMAIN pieces
    BY <1>2, <1>3
  <2> QED
    BY <1>2, <2>1, VisitsAssumption
<1>6. CASE kept = <<>>
  <2>1. cut = SubSeq(pieces, 1, n) /\ n \in 0..Len(pieces)
    BY <1>6 DEF WithCookie
  <2>2. /\ cut \in Seq(T) /\ Len(cut) = n
        /\ \A i \in 1..n : cut[i] = pieces[i]
    BY <1>3, <2>1
  <2>3. \A i \in 1..Len(cut) : cut[i].piece = "blank" <=> i = b
    BY <1>4, <2>1, <2>2
  <2>4. \A i \in 2..Len(cut) : i < b /\ cut[i].name = "Cookie" =>
                                 i = b - 1 /\ cut[i].value \in {}
    BY <1>3, <1>5, <2>1, <2>2
  <2>5. b \in Nat \ {0}
    BY <1>3
  <2>6. \E v \in {} : SessionId(DeSerialize(cut)) = <<v>>
    <3> DEFINE V == {}
    <3>1. \A i \in 2..Len(cut) : i < b /\ cut[i].name = "Cookie" =>
                                   i = b - 1 /\ cut[i].value \in V
      BY <2>4
    <3>2. cut \in Seq(T)
      BY <2>2
    <3> HIDE DEF V
    <3>3. \E v \in V : SessionId(DeSerialize(cut)) = <<v>>
      BY <2>3, <2>5, <3>1, <3>2, OnlyCookie
    <3> QED
      BY <3>3 DEF V
  <2> QED
    BY <2>6
<1>7. ASSUME NEW c, kept = <<c>>
      PROVE  SessionId(DeSerialize(cut)) = <<c.id>>
  <2> DEFINE h == Header("Cookie", c.id)
             whole == WithCookie(kept, pieces)
             S == T \cup {h}
             first == SubSeq(pieces, 1, b - 1)
             rest == SubSeq(pieces, b, Len(pieces))
  <2>1. Len(GetLines(pieces)) = b - 1
    <3>1. GetLines(pieces) = first
      BY <1>2, <1>3, <1>4, LinesEnd
    <3> QED
      BY <1>2, <1>3, <3>1
  <2>2. whole = first \o <<h>> \o rest
    <3>1. whole = InsertAt(pieces, b, h)
      <4>1. kept # <<>> /\ kept[1] = c
        BY <1>7
      <4>2. b - 1 + 1 = b
        BY <1>3
      <4> QED
        BY <2>1, <4>1, <4>2 DEF WithCookie
    <3> QED
      BY <3>1 DEF InsertAt
  <2>3. h.piece = "header" /\ h.value = c.id
    BY DEF Header
  <2>4. /\ first \in Seq(S) /\ Len(first) = b - 1
        /\ \A i \in 1..(b - 1) : first[i] = pieces[i]
    BY <1>2, <1>3
  <2>5. /\ rest \in Seq(S) /\ Len(rest) = Len(pieces) - b + 1
        /\ \A i \in 1..(Len(pieces) - b + 1) : rest[i] = pieces[b + i - 1]
    BY <1>2, <1>3
  <2> HIDE DEF h, first, rest, whole
  <2>6. <<h>> \in Seq(S) /\ Len(<<h>>) = 1 /\ <<h>>[1] = h
    OBVIOUS
  <2> HIDE DEF S
  <2>7. /\ whole \in Seq(S) /\ Len(whole) = Len(pieces) + 1
        /\ \A i \in 1..(b - 1) : whole[i] = pieces[i]
        /\ whole[b] = h
        /\ \A i \in (b + 1)..(Len(pieces) + 1) : whole[i] = pieces[i - 1]
    <3> DEFINE front == first \o <<h>>
    <3>1. /\ front \in Seq(S) /\ Len(front) = b /\ front[b] = h
          /\ \A i \in 1..(b - 1) : front[i] = pieces[i]
      <4>1. front \in Seq(S) /\ Len(front) = b
        BY <1>3, <2>4, <2>6, ConcatProperties
      <4>2. \A i \in 1..b : front[i] = IF i <= b - 1 THEN first[i]
                                       ELSE <<h>>[i - (b - 1)]
        BY <1>3, <2>4, <2>6, ConcatProperties
      <4> HIDE DEF front
      <4>3. \A i \in 1..(b - 1) : front[i] = first[i]
        BY <1>3, <4>2
      <4>4. front[b] = <<h>>[1]
        <5>1. b \in 1..b /\ ~(b <= b - 1) /\ b - (b - 1) = 1
          BY <1>3
        <5>2. front[b] = <<h>>[b - (b - 1)]
          BY <4>2, <5>1
        <5> QED
          BY <5>1, <5>2
      <4> QED
        BY <2>4, <2>6, <4>1, <4>3, <4>4
    <3> HIDE DEF front
    <3>2. whole = front \o rest
      BY <2>2 DEF front
    <3>3. /\ whole \in Seq(S) /\ Len(whole) = Len(front) + Len(rest)
          /\ \A i \in 1..(Len(front) + Len(rest)) :
               whole[i] = IF i <= Len(front) THEN front[i]
                          ELSE rest[i - Len(front)]
      BY <2>5, <3>1, <3>2, ConcatProperties
    <3>4. \A i \in 1..b : whole[i] = front[i]
      BY <1>2, <1>3, <2>5, <3>1, <3>3
    <3>5. \A i \in (b + 1)..(Len(pieces) + 1) : whole[i] = rest[i - b]
      BY <1>2, <1>3, <2>5, <3>1, <3>3
    <3> QED
      BY <1>2, <1>3, <2>5, <3>1, <3>3, <3>4, <3>5
  <2>8. cut = SubSeq(whole, 1, n) /\ n \in 0..Len(whole)
    BY DEF whole
  <2>9. /\ cut \in Seq(S) /\ Len(cut) = n
        /\ \A i \in 1..n : cut[i] = whole[i]
    BY <2>7, <2>8
  <2>10. \A i \in 1..Len(cut) : cut[i].piece = "blank" <=> i = b + 1
    <3> SUFFICES ASSUME NEW i \in 1..n
                 PROVE  whole[i].piece = "blank" <=> i = b + 1
      BY <2>9
    <3>1. CASE i < b
      BY <1>2, <1>3, <1>4, <2>7, <2>8, <3>1
    <3>2. CASE i = b
      BY <1>3, <2>3, <2>7, <3>2
    <3>3. CASE i > b
      <4>1. whole[i] = pieces[i - 1] /\ i - 1 \in 1..Len(pieces)
        BY <1>2, <1>3, <2>7, <2>8, <3>3
      <4> QED
        BY <1>3, <1>4, <4>1
    <3> QED
      BY <1>3, <3>1, <3>2, <3>3
  <2>11. ASSUME NEW i \in 2..Len(cut), i < b + 1, cut[i].name = "Cookie"
         PROVE  i = b /\ cut[i].value \in {c.id}
    <3>1. cut[i] = whole[i] /\ i \in Nat
      BY <2>8, <2>9, <2>11
    <3>2. CASE i < b
      <4>1. i \in 1..(b - 1) /\ i \in 2..(b - 1)
        BY <1>3, <2>11, <3>1, <3>2
      <4>2. cut[i] = pieces[i]
        BY <2>7, <3>1, <4>1
      <4> QED
        BY <1>5, <2>11, <4>1, <4>2
    <3>3. CASE i = b
      BY <2>3, <2>7, <3>1, <3>3
    <3> QED
      BY <1>3, <2>11, <3>1, <3>2, <3>3
  <2>12. PICK v \in {c.id} : SessionId(DeSerialize(cut)) = <<v>>
    <3> DEFINE e == b + 1
               V == {c.id}
    <3>1. e \in Nat \ {0} /\ e - 1 = b
      BY <1>3
    <3>2. \A i \in 1..Len(cut) : cut[i].piece = "blank" <=> i = e
      BY <2>10
    <3>3. \A i \in 2..Len(cut) : i < e /\ cut[i].name = "Cookie" =>
                                   i = e - 1 /\ cut[i].value \in V
      BY <2>11, <3>1
    <3>4. cut \in Seq(S) /\ e \in Nat \ {0}
      BY <2>9, <3>1
    <3> HIDE DEF e, V
    <3>5. \E v \in V : SessionId(DeSerialize(cut)) = <<v>>
      BY <3>2, <3>3, <3>4, OnlyCookie
    <3> QED
      BY <3>5 DEF V
  <2> QED
    BY <2>12
<1> QED
  BY <1>6, <1>7 DEF One, Carries

(* There is no cookie in nothing.                                          *)
LEMMA NothingParsed == SessionId(DeSerialize(<<>>)) = <<>>
<1> DEFINE none == <<>>
<1>1. Len(none) = 0
  OBVIOUS
<1>2. GetLines(none) = <<>>
  <2>1. SelectInSeq(none, LAMBDA p : p.piece = "blank") = 0
    BY <1>1 DEF SelectInSeq
  <2> QED
    BY <1>1, <2>1 DEF GetLines
<1> DEFINE req == DeSerialize(none)
<1>3. req.headers = <<>>
  BY <1>2 DEF DeSerialize, ParseReqHeader
<1> HIDE DEF req
<1>4. SessionId(req) = <<>>
  BY <1>3 DEF SessionId, SelectLastInSeq
<1> QED
  BY <1>4 DEF req

(* The cookie makes a request longer by a header.                          *)
LEMMA WithCookieLen ==
  ASSUME NEW pieces \in Visits, NEW kept, kept = <<>> \/ \E c : kept = <<c>>
  PROVE  /\ Len(WithCookie(kept, pieces)) \in Nat
         /\ SubSeq(WithCookie(kept, pieces), 1, 0) = <<>>
<1>1. PICK T : pieces \in Seq(T)
  BY VisitsAssumption DEF WellFormed
<1>2. PICK b \in 2..Len(pieces) :
        \A i \in 1..Len(pieces) : pieces[i].piece = "blank" <=> i = b
  BY <1>1, VisitsAssumption DEF WellFormed, Blank, Text
<1>3. Len(pieces) \in Nat /\ b \in Nat \ {0} /\ ~(Len(pieces) < b)
  BY <1>1, <1>2
<1>4. Len(GetLines(pieces)) + 1 = b
  <2>1. GetLines(pieces) = SubSeq(pieces, 1, b - 1)
    BY <1>2, <1>3, LinesEnd
  <2> QED
    BY <1>1, <1>3, <2>1
<1>5. CASE kept = <<>>
  BY <1>1, <1>5 DEF WithCookie
<1>6. ASSUME NEW c, kept = <<c>>
      PROVE  \E S : WithCookie(kept, pieces) \in Seq(S)
  <2> DEFINE h == Header("Cookie", c.id)
             S == T \cup {h}
             first == SubSeq(pieces, 1, b - 1)
             rest == SubSeq(pieces, b, Len(pieces))
  <2>1. kept # <<>> /\ kept[1] = c
    BY <1>6
  <2>2. WithCookie(kept, pieces) = first \o <<h>> \o rest
    BY <1>4, <2>1 DEF WithCookie, InsertAt
  <2>3. first \in Seq(S) /\ rest \in Seq(S)
    BY <1>1, <1>3
  <2> HIDE DEF first, rest, h
  <2>4. <<h>> \in Seq(S)
    OBVIOUS
  <2> HIDE DEF S
  <2> QED
    BY <2>2, <2>3, <2>4, ConcatProperties
<1> QED
  BY <1>5, <1>6

-----------------------------------------------------------------------------
(* What a history of one entry holds.                                      *)
LEMMA Singleton == \A e : ToSet(<<e>>) = {e}
<1> TAKE e
<1> DEFINE s == <<e>>
<1>1. DOMAIN s = {1} /\ s[1] = e
  OBVIOUS
<1> HIDE DEF s
<1>2. ToSet(s) = {e}
  BY <1>1 DEF ToSet
<1> QED
  BY <1>2 DEF s

(* users is what the first n logins make of id: the user of the first one  *)
(* that was given it, or nobody.                                           *)
Leads(users, id, n) ==
  \/ \E i \in 1..n :
       /\ logins[i].id = id /\ users = {logins[i].user}
       /\ \A j \in 1..n : logins[j].id = id => i <= j
  \/ users = {} /\ \A j \in 1..n : logins[j].id # id

SessionTypes ==
  /\ starts \in Nat /\ number \in Nat
  /\ logins \in Seq([id : Ids, user : Nat])
  /\ DOMAIN found = Links /\ DOMAIN handed = Links /\ DOMAIN presented = Links
  /\ DOMAIN asked = Links /\ DOMAIN received = Links /\ DOMAIN client = Links
  /\ DOMAIN cookie = Browsers

(* A cookie of this start was handed out by the login it says, ...         *)
Issued(c) ==
  /\ c.start \in Nat /\ c.start <= starts
  /\ c.start = starts =>
       c.login \in 1..Len(logins) /\ logins[c.login].id = c.id

Held(kept) == kept = <<>> \/ \E c : kept = <<c>> /\ Issued(c)

(* ... wherever it is; ...                                                 *)
Cookies ==
  /\ \A k \in Links : Held(handed[k]) /\ Held(presented[k])
  /\ \A b \in Browsers : Held(cookie[b])

(* ... a request is what a browser wanted, with the cookie it had then; a  *)
(* link that is new has sent, received and found nothing.                  *)
Sent ==
  \A k \in Links :
    /\ \/ asked[k] = <<>>
       \/ \E pieces \in Visits : asked[k] = WithCookie(presented[k], pieces)
    /\ \E n \in 0..Len(asked[k]) : received[k] = SubSeq(asked[k], 1, n)
    /\ client[k] = "new" =>
         asked[k] = <<>> /\ received[k] = <<>> /\ found[k] = <<>>

(* As long as no logins overlap: users are numbered in the order of their  *)
(* logins, ...                                                             *)
Numbered ==
  /\ number = Len(logins)
  /\ \A i \in 1..Len(logins) : logins[i].user = i - 1

(* ... the map holds what the logins so far make of every id, ...          *)
Mapped ==
  /\ \A i \in 1..Len(logins) : logins[i].id \in DOMAIN sessions
  /\ \A id \in DOMAIN sessions : Leads({sessions[id]}, id, Len(logins))

(* ... and what was found for a cookie was what the logins up to then had  *)
(* made of its id, the one that handed it out among them.                  *)
Finding(entry, mine) ==
  /\ entry.after \in 0..Len(logins)
  /\ Leads(entry.users, mine.id, entry.after)
  /\ mine.start = starts => mine.login <= entry.after

Found ==
  \A k \in Links : \A entry \in ToSet(found[k]), mine \in ToSet(presented[k]) :
    Finding(entry, mine)

(* The inductive invariant.                                                *)
SessionInv ==
  /\ SessionTypes /\ Cookies /\ Sent
  /\ ~overlapped => Numbered /\ Mapped /\ Found

-----------------------------------------------------------------------------
(* Nobody has logged in, nothing was found.                                *)
LEMMA SessionInitHolds == SessionInit => SessionInv
<1> SUFFICES ASSUME SessionInit
             PROVE  SessionInv
  OBVIOUS
<1>1. SessionTypes
  BY DEF SessionInit, HttpInit, SessionTypes
<1>2. Cookies
  BY DEF SessionInit, Cookies, Held
<1>3. Sent
  <2>1. Len(<<>>) = 0 /\ SubSeq(<<>>, 1, 0) = <<>>
    OBVIOUS
  <2> QED
    BY <2>1 DEF SessionInit, HttpInit, Sent
<1>4. Numbered /\ Mapped /\ Found
  BY DEF SessionInit, Numbered, Mapped, Found, ToSet
<1> QED
  BY <1>1, <1>2, <1>3, <1>4 DEF SessionInv

(* A step that leaves the histories alone, or makes logins overlap.        *)
LEMMA CookiesUntouched ==
  ASSUME Cookies, UNCHANGED <<starts, logins, handed, presented, cookie>>
  PROVE  Cookies'
BY DEF Cookies, Held, Issued

LEMMA MapUntouched ==
  ASSUME UNCHANGED mapVars
  PROVE  (Numbered => Numbered') /\ (Mapped => Mapped')
<1>1. sessions' = sessions /\ number' = number /\ logins' = logins
  BY DEF mapVars
<1>2. Numbered => Numbered'
  BY <1>1 DEF Numbered
<1>3. Mapped => Mapped'
  BY <1>1 DEF Mapped, Leads
<1> QED
  BY <1>2, <1>3

LEMMA FoundUntouched ==
  ASSUME Found, UNCHANGED <<starts, logins, found, presented>>
  PROVE  Found'
BY DEF Found, Finding, Leads

(* A step of the server or of a browser that sends, receives, finds and    *)
(* hands out nothing.                                                      *)
LEMMA Untouched ==
  ASSUME SessionInv, UNCHANGED <<sessionVars, starts, asked, received>>,
         DOMAIN client' = Links,
         \A k \in Links : client'[k] = "new" => client[k] = "new"
  PROVE  SessionInv'
<1>1. /\ UNCHANGED mapVars /\ found' = found /\ handed' = handed
      /\ presented' = presented /\ cookie' = cookie /\ overlapped' = overlapped
  BY DEF sessionVars, browserVars
<1>2. number' = number /\ logins' = logins
  BY <1>1 DEF mapVars
<1>3. SessionTypes'
  BY <1>1, <1>2 DEF SessionInv, SessionTypes
<1>4. Cookies'
  BY <1>1, <1>2, CookiesUntouched DEF SessionInv
<1>5. Sent'
  BY <1>1 DEF SessionInv, Sent
<1>6. ~overlapped' => Numbered' /\ Mapped' /\ Found'
  BY <1>1, <1>2, MapUntouched, FoundUntouched DEF SessionInv
<1> QED
  BY <1>3, <1>4, <1>5, <1>6 DEF SessionInv

(* A restart makes all cookies older, and forgets the rest.                *)
LEMMA RestartKeeps == SessionInv /\ RestartSession => SessionInv'
<1> SUFFICES ASSUME SessionInv, RestartSession
             PROVE  SessionInv'
  OBVIOUS
<1>1. /\ starts' = starts + 1 /\ sessions' = <<>> /\ number' = 0
      /\ logins' = <<>> /\ found' = [k \in Links |-> <<>>]
      /\ handed' = handed /\ presented' = presented /\ cookie' = cookie
      /\ asked' = asked /\ received' = received /\ client' = client
  BY DEF RestartSession, Restart, linkVars, browserVars
<1>2. SessionTypes'
  BY <1>1 DEF SessionInv, SessionTypes
<1>3. Cookies'
  <2>1. ASSUME NEW c, Issued(c)
        PROVE  c.start \in Nat /\ c.start <= starts' /\ c.start # starts'
    BY <1>1, <2>1 DEF Issued, SessionInv, SessionTypes
  <2> QED
    BY <1>1, <2>1 DEF SessionInv, Cookies, Held, Issued
<1>4. Sent'
  BY <1>1 DEF SessionInv, Sent
<1>5. Numbered' /\ Mapped' /\ Found'
  BY <1>1 DEF Numbered, Mapped, Found, ToSet
<1> QED
  BY <1>2, <1>3, <1>4, <1>5 DEF SessionInv

(* What is received is a part of what was sent, and nothing is received    *)
(* on a link that is new.                                                  *)
LEMMA RecvSessionKeeps ==
  ASSUME NEW k \in Links, SessionInv, RecvSession(k)
  PROVE  SessionInv'
<1>1. /\ asked[k] # <<>>
      /\ \E n \in 0..Len(asked[k]) :
           received' = [received EXCEPT ![k] = SubSeq(asked[k], 1, n)]
      /\ UNCHANGED <<starts, asked, client>>
  BY DEF RecvSession, Recv, MayReceive
<1>2. /\ UNCHANGED mapVars /\ found' = found /\ handed' = handed
      /\ presented' = presented /\ cookie' = cookie
      /\ ~overlapped' => ~overlapped
  BY DEF RecvSession, browserVars
<1>3. number' = number /\ logins' = logins
  BY <1>2 DEF mapVars
<1>4. SessionTypes'
  BY <1>1, <1>2, <1>3 DEF SessionInv, SessionTypes
<1>5. Cookies'
  BY <1>1, <1>2, <1>3, CookiesUntouched DEF SessionInv
<1>6. Sent'
  BY <1>1, <1>2 DEF SessionInv, SessionTypes, Sent
<1>7. ~overlapped' => Numbered' /\ Mapped' /\ Found'
  BY <1>1, <1>2, <1>3, MapUntouched, FoundUntouched DEF SessionInv
<1> QED
  BY <1>4, <1>5, <1>6, <1>7 DEF SessionInv

(* A browser sends its cookie on a link that is new.                       *)
LEMMA VisitKeeps ==
  ASSUME NEW k \in Links, SessionInv, Visit(k)
  PROVE  SessionInv'
<1>1. PICK b \in Browsers, pieces \in Visits :
        /\ Connect(k, WithCookie(cookie[b], pieces))
        /\ presented' = [presented EXCEPT ![k] = cookie[b]]
        /\ UNCHANGED <<mapVars, overlapped, found, handed, cookie>>
  BY DEF Visit
<1>2. /\ client[k] = "new" /\ client' = [client EXCEPT ![k] = "waiting"]
      /\ asked' = [asked EXCEPT ![k] = WithCookie(cookie[b], pieces)]
      /\ UNCHANGED <<starts, received>>
  BY <1>1 DEF Connect
<1>3. number' = number /\ logins' = logins
  BY <1>1 DEF mapVars
<1>4. /\ SessionTypes /\ Cookies /\ Sent
      /\ received[k] = <<>> /\ found[k] = <<>>
  BY <1>2 DEF SessionInv, Sent
<1>5. SessionTypes'
  BY <1>1, <1>2, <1>3, <1>4 DEF SessionTypes
<1>6. Cookies'
  BY <1>1, <1>2, <1>3, <1>4 DEF SessionTypes, Cookies, Held, Issued
<1>7. Sent'
  <2> DEFINE whole == WithCookie(cookie[b], pieces)
  <2>1. Len(whole) \in Nat /\ SubSeq(whole, 1, 0) = <<>>
    <3>1. cookie[b] = <<>> \/ \E c : cookie[b] = <<c>>
      BY <1>4 DEF Cookies, Held
    <3> QED
      BY <3>1, WithCookieLen
  <2>2. /\ asked'[k] = whole /\ received'[k] = <<>> /\ client'[k] = "waiting"
        /\ presented'[k] = cookie[b]
    BY <1>1, <1>2, <1>4 DEF SessionTypes
  <2> HIDE DEF whole
  <2>3. \A j \in Links \ {k} :
          /\ asked'[j] = asked[j] /\ received'[j] = received[j]
          /\ client'[j] = client[j] /\ presented'[j] = presented[j]
          /\ found'[j] = found[j]
    BY <1>1, <1>2, <1>4 DEF SessionTypes
  <2>4. ASSUME NEW j \in Links
        PROVE  /\ \/ asked'[j] = <<>>
                  \/ \E want \in Visits : asked'[j] = WithCookie(presented'[j], want)
               /\ \E n \in 0..Len(asked'[j]) : received'[j] = SubSeq(asked'[j], 1, n)
               /\ client'[j] = "new" =>
                    asked'[j] = <<>> /\ received'[j] = <<>> /\ found'[j] = <<>>
    <3>1. CASE j = k
      <4>1. 0 \in 0..Len(whole) /\ received'[k] = SubSeq(whole, 1, 0)
        BY <2>1, <2>2
      <4> QED
        BY <2>2, <3>1, <4>1 DEF whole
    <3>2. CASE j # k
      BY <1>4, <2>3, <3>2 DEF Sent
    <3> QED
      BY <3>1, <3>2
  <2> QED
    BY <2>4 DEF Sent, WithCookie
<1>8. ~overlapped' => Numbered' /\ Mapped' /\ Found'
  <2> SUFFICES ASSUME ~overlapped
               PROVE  Numbered' /\ Mapped' /\ Found'
    BY <1>1
  <2>1. Found'
    <3>1. ToSet(found'[k]) = {}
      BY <1>1, <1>4 DEF ToSet
    <3>2. \A j \in Links \ {k} :
            presented'[j] = presented[j] /\ found'[j] = found[j]
      BY <1>1, <1>4 DEF SessionTypes
    <3> QED
      BY <1>2, <1>3, <3>1, <3>2 DEF SessionInv, Found, Finding, Leads
  <2> QED
    BY <1>1, <2>1, MapUntouched DEF SessionInv
<1> QED
  BY <1>5, <1>6, <1>7, <1>8 DEF SessionInv

(* A browser keeps a cookie the server has handed out.                     *)
LEMMA ReadSessionKeeps ==
  ASSUME NEW k \in Links, SessionInv, ReadSession(k)
  PROVE  SessionInv'
<1>1. /\ client' = [client EXCEPT ![k] = "done"]
      /\ UNCHANGED <<starts, asked, received>>
      /\ UNCHANGED <<mapVars, overlapped, found, handed, presented>>
      /\ \/ cookie' = cookie
         \/ cookie' = [b \in Browsers |-> IF b \in browser[k] THEN handed[k]
                                                              ELSE cookie[b]]
  BY DEF ReadSession, Read
<1>2. number' = number /\ logins' = logins
  BY <1>1 DEF mapVars
<1>3. SessionTypes'
  BY <1>1, <1>2 DEF SessionInv, SessionTypes
<1>4. Cookies'
  BY <1>1, <1>2 DEF SessionInv, Cookies, Held, Issued
<1>5. Sent'
  BY <1>1 DEF SessionInv, SessionTypes, Sent
<1>6. ~overlapped' => Numbered' /\ Mapped' /\ Found'
  BY <1>1, <1>2, MapUntouched, FoundUntouched DEF SessionInv
<1> QED
  BY <1>3, <1>4, <1>5, <1>6 DEF SessionInv

(* A login that overlaps no other adds an entry to the map unless its id   *)
(* is there already, and a user in any case.                               *)
LEMMA MapExtended ==
  ASSUME Numbered, Mapped, NEW id, number \in Nat,
         logins \in Seq([id : Ids, user : Nat]),
         number' = number + 1,
         logins' = Append(logins, [id |-> id, user |-> number]),
         sessions' = Insert(sessions, id, number)
  PROVE  Numbered' /\ Mapped'
<1> DEFINE n == Len(logins)
<1>1. /\ n \in Nat /\ Len(logins') = n + 1
      /\ \A i \in 1..n : logins'[i] = logins[i]
      /\ logins'[n + 1] = [id |-> id, user |-> n]
  BY DEF Numbered
<1>2. Numbered'
  BY <1>1 DEF Numbered
<1>3. /\ DOMAIN sessions' = DOMAIN sessions \cup {id}
      /\ \A i \in DOMAIN sessions : sessions'[i] = sessions[i]
      /\ id \notin DOMAIN sessions => sessions'[id] = n
  BY DEF Insert, Numbered
<1>4. \A i \in 1..(n + 1) : logins'[i].id \in DOMAIN sessions'
  BY <1>1, <1>3 DEF Mapped
<1>5. ASSUME NEW one \in DOMAIN sessions'
      PROVE  Leads({sessions[one]}, one, Len(logins))'
  <2>1. CASE one \in DOMAIN sessions
    <3>1. PICK i \in 1..n :
            /\ logins[i].id = one /\ sessions[one] = logins[i].user
            /\ \A j \in 1..n : logins[j].id = one => i <= j
      BY <2>1 DEF Mapped, Leads
    <3> QED
      BY <1>1, <1>3, <2>1, <3>1 DEF Leads
  <2>2. CASE one \notin DOMAIN sessions
    <3>1. one = id /\ \A j \in 1..n : logins[j].id # id
      BY <1>3, <2>2 DEF Mapped
    <3> QED
      BY <1>1, <1>3, <2>2, <3>1 DEF Leads
  <2> QED
    BY <2>1, <2>2
<1> QED
  BY <1>1, <1>2, <1>4, <1>5 DEF Mapped

(* The cookie of a login is handed out by it.                              *)
LEMMA AddSessionKeeps ==
  ASSUME NEW k \in Links, SessionInv, AddSession(k),
         UNCHANGED <<starts, overlapped, browserVars, asked, received, client>>
  PROVE  SessionInv'
<1>1. PICK id \in Ids,
           user \in {number} \cup (IF Clashes(k) THEN {number - 1} ELSE {}) :
        /\ user >= 0
        /\ number' = user + 1
        /\ logins' = Append(logins, [id |-> id, user |-> user])
        /\ \/ sessions' = Insert(sessions, id, user)
           \/ Clashes(k) /\ sessions' = sessions
        /\ \/ handed' = handed
           \/ handed' = [handed EXCEPT
                           ![k] = <<Cookie(id, Len(logins) + 1, starts)>>]
        /\ UNCHANGED found
  BY DEF AddSession, Increment
<1>2. SessionTypes /\ Cookies /\ Sent
  BY DEF SessionInv
<1>3. presented' = presented /\ cookie' = cookie
  BY DEF browserVars
<1>4. user \in Nat
  BY <1>1, <1>2 DEF SessionTypes
<1> DEFINE n == Len(logins)
<1>5. /\ logins' \in Seq([id : Ids, user : Nat])
      /\ n \in Nat /\ Len(logins') = n + 1
      /\ \A i \in 1..n : logins'[i] = logins[i]
      /\ logins'[n + 1].id = id
  BY <1>1, <1>2, <1>4 DEF SessionTypes
<1>6. SessionTypes'
  BY <1>1, <1>2, <1>3, <1>4, <1>5 DEF SessionTypes
<1>7. Cookies'
  <2>1. ASSUME NEW c, Issued(c)
        PROVE  Issued(c)'
    BY <1>2, <1>5, <2>1 DEF Issued
  <2>2. ASSUME NEW c, c = Cookie(id, n + 1, starts)
        PROVE  Issued(c)'
    <3>1. c.id = id /\ c.login = n + 1 /\ c.start = starts
      BY <2>2 DEF Cookie
    <3>2. starts' = starts /\ starts \in Nat
      BY <1>2 DEF SessionTypes
    <3> QED
      BY <1>5, <3>1, <3>2 DEF Issued
  <2> HIDE DEF Issued
  <2>3. \A j \in Links : Held(handed[j]) /\ Held(presented[j])
    BY <1>2 DEF Cookies
  <2>4. \A j \in Links : Held(handed[j])'
    <3>1. CASE handed' = handed
      BY <2>1, <2>3, <3>1 DEF Held
    <3>2. CASE handed' = [handed EXCEPT ![k] = <<Cookie(id, n + 1, starts)>>]
      <4>1. handed'[k] = <<Cookie(id, n + 1, starts)>>
        BY <1>2, <3>2 DEF SessionTypes
      <4>2. \A j \in Links \ {k} : handed'[j] = handed[j]
        BY <1>2, <3>2 DEF SessionTypes
      <4>3. Held(handed[k])'
        <5>1. PICK c : c = Cookie(id, n + 1, starts)
          OBVIOUS
        <5>2. handed'[k] = <<c>> /\ Issued(c)'
          BY <2>2, <4>1, <5>1
        <5> QED
          BY <5>2 DEF Held
      <4>4. ASSUME NEW j \in Links \ {k}
            PROVE  Held(handed[j])'
        BY <2>1, <2>3, <4>2 DEF Held
      <4> QED
        BY <4>3, <4>4
    <3> QED
      BY <1>1, <3>1, <3>2
  <2> QED
    BY <1>2, <1>3, <2>1, <2>4 DEF Cookies, Held
<1>8. Sent'
  BY <1>1, <1>2, <1>3 DEF Sent
<1>9. ASSUME ~overlapped
      PROVE  Numbered' /\ Mapped' /\ Found'
  <2>1. Numbered /\ Mapped /\ Found
    BY <1>9 DEF SessionInv
  <2>2. user = number /\ sessions' = Insert(sessions, id, number)
    BY <1>1, <1>9 DEF Clashes
  <2>3. Numbered' /\ Mapped'
    BY <1>1, <1>2, <2>1, <2>2, MapExtended DEF SessionTypes
  <2>4. ASSUME NEW entry, NEW mine, Finding(entry, mine)
        PROVE  Finding(entry, mine)'
    <3>1. entry.after \in 0..n /\ Leads(entry.users, mine.id, entry.after)
      BY <2>4 DEF Finding
    <3>2. Leads(entry.users, mine.id, entry.after)'
      <4>1. \A i \in 1..entry.after : logins'[i] = logins[i]
        BY <1>5, <3>1
      <4> QED
        BY <3>1, <4>1 DEF Leads
    <3> QED
      BY <1>5, <2>4, <3>1, <3>2 DEF Finding
  <2>5. Found'
    BY <1>1, <1>3, <2>1, <2>4 DEF Found
  <2> QED
    BY <2>3, <2>5
<1> QED
  BY <1>6, <1>7, <1>8, <1>9 DEF SessionInv

(* A lookup finds what the map holds for the cookie that was sent.         *)
LEMMA GetSessionKeeps ==
  ASSUME NEW k \in Links, SessionInv, SessionId(DeSerialize(received[k])) # <<>>,
         GetSession(k, SessionId(DeSerialize(received[k]))[1]),
         UNCHANGED <<starts, overlapped, browserVars, asked, received, client>>
  PROVE  SessionInv'
<1> DEFINE id == SessionId(DeSerialize(received[k]))[1]
           Held1 == IF id \in DOMAIN sessions THEN {sessions[id]} ELSE {}
<1>1. PICK users \in {Held1} \cup (IF Clashes(k) THEN {{}} ELSE {}) :
        found' = [found EXCEPT ![k] = <<[users |-> users,
                                         after |-> Len(logins)]>>]
  BY DEF GetSession
<1>2. UNCHANGED mapVars /\ handed' = handed
  BY DEF GetSession
<1>3. /\ number' = number /\ logins' = logins
      /\ presented' = presented /\ cookie' = cookie
  BY <1>2 DEF mapVars, browserVars
<1>4. SessionTypes /\ Cookies /\ Sent
  BY DEF SessionInv
<1>5. PICK c : /\ presented[k] = <<c>> /\ id = c.id /\ Issued(c)
               /\ client[k] # "new"
  <2>1. \/ asked[k] = <<>>
        \/ \E pieces \in Visits : asked[k] = WithCookie(presented[k], pieces)
    BY <1>4 DEF Sent
  <2>2. PICK n \in 0..Len(asked[k]) : received[k] = SubSeq(asked[k], 1, n)
    BY <1>4 DEF Sent
  <2>3. received[k] # <<>>
    BY NothingParsed
  <2>4. asked[k] # <<>>
    <3>1. Len(<<>>) = 0 /\ SubSeq(<<>>, 1, 0) = <<>>
      OBVIOUS
    <3> QED
      BY <2>2, <2>3, <3>1
  <2>5. PICK pieces \in Visits : asked[k] = WithCookie(presented[k], pieces)
    BY <2>1, <2>4
  <2>6. presented[k] = <<>> \/ \E c : presented[k] = <<c>>
    BY <1>4 DEF Cookies, Held
  <2> DEFINE kept == presented[k]
             cut == received[k]
  <2>7. PICK c : kept = <<c>> /\ SessionId(DeSerialize(cut)) = <<c.id>>
    <3>1. n \in 0..Len(WithCookie(kept, pieces))
      BY <2>2, <2>5
    <3>2. cut = SubSeq(WithCookie(kept, pieces), 1, n)
      BY <2>2, <2>5
    <3>3. One(kept)
      BY <2>6 DEF One
    <3>4. SessionId(DeSerialize(cut)) # <<>>
      OBVIOUS
    <3> HIDE DEF kept, cut
    <3>5. Carries(cut, kept)
      BY <3>1, <3>2, <3>3, <3>4, CookieParsed
    <3> QED
      BY <3>5 DEF Carries
  <2>8. id = c.id
    BY <2>7
  <2>9. Issued(c)
    <3>1. kept # <<>> /\ Held(kept)
      BY <1>4, <2>7 DEF Cookies
    <3>2. PICK d : kept = <<d>> /\ Issued(d)
      BY <3>1 DEF Held
    <3>3. c = d
      <4>1. kept[1] = c /\ kept[1] = d
        BY <2>7, <3>2
      <4> QED
        BY <4>1
    <3> QED
      BY <3>2, <3>3
  <2> QED
    BY <1>4, <2>4, <2>7, <2>8, <2>9 DEF Sent
<1>6. SessionTypes'
  <2>1. DOMAIN found' = DOMAIN found
    BY <1>1
  <2>2. UNCHANGED <<starts, asked, received, client>>
    OBVIOUS
  <2> QED
    BY <1>2, <1>3, <1>4, <2>1, <2>2 DEF SessionTypes
<1>7. Cookies'
  BY <1>2, <1>3, <1>4, CookiesUntouched
<1>8. Sent'
  BY <1>1, <1>3, <1>4, <1>5 DEF Sent, SessionTypes
<1>9. ASSUME ~overlapped
      PROVE  Numbered' /\ Mapped' /\ Found'
  <2> DEFINE entry == [users |-> users, after |-> Len(logins)]
  <2>1. Numbered /\ Mapped /\ Found
    BY <1>9 DEF SessionInv
  <2>2. users = Held1
    BY <1>1, <1>9 DEF Clashes
  <2>3. Leads(users, c.id, Len(logins))
    BY <1>5, <2>1, <2>2 DEF Mapped, Leads
  <2>4. Finding(entry, c)
    <3>1. entry.users = users /\ entry.after = Len(logins)
      OBVIOUS
    <3>2. Len(logins) \in Nat /\ (c.start = starts => c.login <= Len(logins))
      BY <1>4, <1>5 DEF Issued, SessionTypes
    <3> HIDE DEF entry
    <3> QED
      BY <2>3, <3>1, <3>2 DEF Finding
  <2>5. ToSet(<<entry>>) = {entry} /\ ToSet(<<c>>) = {c}
    BY Singleton
  <2>6. /\ found'[k] = <<entry>> /\ presented[k] = <<c>>
        /\ \A j \in Links \ {k} : found'[j] = found[j]
    BY <1>1, <1>4, <1>5 DEF SessionTypes
  <2> HIDE DEF entry
  <2>7. ASSUME NEW j \in Links, NEW one \in ToSet(found'[j]),
               NEW mine \in ToSet(presented[j])
        PROVE  Finding(one, mine)
    BY <2>1, <2>4, <2>5, <2>6 DEF Found
  <2>8. Found'
    BY <1>3, <2>7 DEF Found, Finding, Leads
  <2> QED
    BY <1>2, <2>1, <2>8, MapUntouched
<1> QED
  BY <1>6, <1>7, <1>8, <1>9 DEF SessionInv

(* Logins and lookups, and answers that are neither.                       *)
LEMMA ServeSessionKeeps ==
  ASSUME NEW k \in Links, SessionInv, ServeSession(k)
  PROVE  SessionInv'
<1> DEFINE req == DeSerialize(received[k])
<1>1. UNCHANGED <<starts, overlapped, browserVars, asked, received, client>>
  BY DEF ServeSession, Serve
<1>2. ~(LogsIn(req) /\ LooksUp(req))
  BY DEF LogsIn, LooksUp
<1> HIDE DEF req
<1>3. CASE LogsIn(req)
  <2>1. AddSession(k)
    BY <1>2, <1>3 DEF ServeSession, req
  <2> QED
    BY <1>1, <2>1, AddSessionKeeps
<1>4. CASE LooksUp(req)
  <2>1. GetSession(k, SessionId(req)[1]) /\ SessionId(req) # <<>>
    BY <1>2, <1>4 DEF ServeSession, LooksUp, req
  <2> QED
    BY <1>1, <2>1, GetSessionKeeps DEF req
<1>5. CASE ~LogsIn(req) /\ ~LooksUp(req)
  <2>1. UNCHANGED <<mapVars, found, handed>>
    BY <1>5 DEF ServeSession, req
  <2>2. UNCHANGED <<sessionVars, starts, asked, received, client>>
    BY <1>1, <2>1 DEF sessionVars
  <2> QED
    BY <2>2, Untouched DEF SessionInv, SessionTypes
<1> QED
  BY <1>3, <1>4, <1>5

(* One case for each action.                                               *)
LEMMA SessionStepKeeps ==
  SessionInv /\ [SessionNext]_<<httpVars, sessionVars>> => SessionInv'
<1> SUFFICES ASSUME SessionInv, [SessionNext]_<<httpVars, sessionVars>>
             PROVE  SessionInv'
  OBVIOUS
<1>0. DOMAIN client = Links
  BY DEF SessionInv, SessionTypes
<1>1. CASE RestartSession
  BY <1>1, RestartKeeps
<1>2. ASSUME NEW k \in Links,
             RecvSession(k) \/ ServeSession(k) \/ Visit(k) \/ ReadSession(k)
      PROVE  SessionInv'
  BY <1>2, RecvSessionKeeps, ServeSessionKeeps, VisitKeeps, ReadSessionKeeps
<1>3. CASE UNCHANGED <<httpVars, sessionVars>>
  BY <1>0, <1>3, Untouched DEF httpVars, linkVars
<1>4. CASE (Start \/ Crash) /\ UNCHANGED sessionVars
  <2>1. UNCHANGED <<starts, asked, received, client>>
    BY <1>4 DEF Start, Accept, AcceptFails, Crash, Die, linkVars
  <2> QED
    BY <1>0, <1>4, <2>1, Untouched
<1>5. ASSUME NEW k \in Links, UNCHANGED sessionVars,
             \/ RecvEnd(k) \/ ServeEnds(k) \/ Close(k) \/ Leave(k) \/ Abort(k)
      PROVE  SessionInv'
  <2>1. UNCHANGED <<starts, asked, received>>
    BY <1>5 DEF RecvEnd, ServeEnds, Die, Close, Leave, Abort, linkVars
  <2>2. client' = client \/ client' = [client EXCEPT ![k] = "left"]
    BY <1>5 DEF RecvEnd, ServeEnds, Die, Close, Leave, Abort, linkVars
  <2> QED
    BY <1>0, <1>5, <2>1, <2>2, Untouched
<1> QED
  BY <1>1, <1>2, <1>3, <1>4, <1>5 DEF SessionNext

(* What Leads says is what SessionsKept asks for.                          *)
LEMMA SessionInvImplies == SessionInv => SessionsKept
<1> SUFFICES ASSUME SessionInv, ~overlapped
             PROVE  SessionsKept
  BY DEF SessionsKept
<1>1. Numbered /\ Found /\ Cookies /\ SessionTypes
  BY DEF SessionInv
<1>2. ASSUME NEW k \in Links, NEW entry \in ToSet(found[k]),
             NEW mine \in ToSet(presented[k])
      PROVE  /\ mine.start = starts /\ Drawn(mine.id, mine.login - 1) = {} =>
                  entry.users = {logins[mine.login].user}
             /\ mine.start # starts /\ Drawn(mine.id, entry.after) = {} =>
                  entry.users = {}
  <2>1. /\ entry.after \in 0..Len(logins) /\ Len(logins) \in Nat
        /\ Leads(entry.users, mine.id, entry.after)
        /\ mine.start = starts => mine.login <= entry.after
    BY <1>1 DEF Found, Finding, SessionTypes
  <2>2. Issued(mine)
    <3>1. PICK c : presented[k] = <<c>> /\ Issued(c)
      <4>1. ToSet(<<>>) = {}
        BY DEF ToSet
      <4> QED
        BY <1>1, <4>1 DEF Cookies, Held
    <3> QED
      BY <3>1, Singleton
  <2>3. ASSUME mine.start = starts, Drawn(mine.id, mine.login - 1) = {}
        PROVE  entry.users = {logins[mine.login].user}
    <3> DEFINE login == mine.login
    <3>1. /\ login \in 1..Len(logins) /\ login <= entry.after
          /\ logins[login].id = mine.id
          /\ \A i \in 1..(login - 1) : logins[i].id # mine.id
      BY <2>1, <2>2, <2>3 DEF Issued, Drawn
    <3>2. login \in 1..entry.after
      BY <2>1, <3>1
    <3>3. PICK i \in 1..entry.after :
            /\ logins[i].id = mine.id /\ entry.users = {logins[i].user}
            /\ \A j \in 1..entry.after : logins[j].id = mine.id => i <= j
      BY <2>1, <3>1, <3>2 DEF Leads
    <3>4. i = login
      BY <2>1, <3>1, <3>2, <3>3
    <3> QED
      BY <3>3, <3>4
  <2>4. ASSUME Drawn(mine.id, entry.after) = {}
        PROVE  entry.users = {}
    BY <2>1, <2>4 DEF Leads, Drawn
  <2> QED
    BY <2>3, <2>4
<1> QED
  BY <1>1, <1>2 DEF SessionsKept, Numbered

(* SessionsKept of HttpSession, for any number of browsers, links, ids and *)
(* restarts: as long as no logins overlap, users are numbered in the order *)
(* of their logins, a cookie leads to the user of the login that handed it *)
(* out unless its id had been drawn before, and one from before a restart  *)
(* to nobody unless its id has been drawn since.                           *)
THEOREM SessionsAreKept == SessionSpec => []SessionsKept
BY SessionInitHolds, SessionStepKeeps, SessionInvImplies, PTL DEF SessionSpec
=============================================================================
