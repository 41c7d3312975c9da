-------------------------- MODULE CalSessionProofs --------------------------
(***************************************************************************)
(* Theorems about the calculator of tcp_server_cal from end to end, for    *)
(* any number of clients, requests, descriptors, restarts and resets, and  *)
(* any width of int: what it keeps to, that clients do not end the server, *)
(* that answers are right and belong to what was asked, and that what a    *)
(* client waits for is on its way.                                         *)
(***************************************************************************)
EXTENDS CalSession, SequenceTheorems, TLAPS

(* Arithmetic of Calculate.  What wraps around stays an int, and an int    *)
(* does not wrap.                                                          *)
LEMMA WrapIsInt ==
  ASSUME NEW n \in Int
  PROVE  Wrap(n) \in Ints /\ (n \in Ints => Wrap(n) = n)
<1>1. PICK m \in Nat \ {0} : m = IntMax + 1
  BY CalculateAssumption
<1>2. /\ IntMin = -m /\ Ints = (-m)..(m - 1)
      /\ Wrap(n) = ((n + m) % (2 * m)) - m
  BY <1>1, CalculateAssumption DEF IntMin, Ints, Wrap
<1>3. (n + m) % (2 * m) \in 0..(2 * m - 1)
  OBVIOUS
<1>4. n \in (-m)..(m - 1) => (n + m) % (2 * m) = n + m
  OBVIOUS
<1>5. QED
  BY <1>2, <1>3, <1>4

(* Division of natural numbers with a remainder.                           *)
LEMMA Division ==
  ASSUME NEW a \in Nat, NEW b \in Nat \ {0}
  PROVE  /\ a \div b \in 0..a /\ a % b \in 0..(b - 1)
         /\ (a \div b) * b + (a % b) = a
         /\ b > 1 /\ a > 0 => a \div b < a
  BY SMTT(30)

(* Quotient and Remainder divide towards zero, whatever the signs, and the *)
(* quotient is an int but in the case that traps.                          *)
LEMMA DivisionOfInts ==
  ASSUME NEW x \in Ints, NEW y \in Ints, y # 0, ~(x = IntMin /\ y = -1)
  PROVE  /\ Quotient(x, y) \in Ints /\ Remainder(x, y) \in Ints
         /\ Quotient(x, y) * y = x - Remainder(x, y)
         /\ Towards(Quotient(x, y) * y, x) /\ Towards(Remainder(x, y), x)
         /\ Abs(Remainder(x, y)) < Abs(y)
<1>1. PICK m \in Nat \ {0} : m = IntMax + 1
  BY CalculateAssumption
<1>2. IntMin = -m /\ Ints = (-m)..(m - 1) /\ x \in Int /\ y \in Int
  BY <1>1, CalculateAssumption DEF IntMin, Ints
<1>3. PICK a \in Nat, b \in Nat \ {0} :
        /\ a = Abs(x) /\ b = Abs(y)
        /\ x = a \/ (x = -a /\ x < 0)
        /\ y = b \/ (y = -b /\ y < 0)
        /\ x < 0 => a > 0
  BY <1>2 DEF Abs
<1>4. PICK d \in 0..a, r \in 0..(b - 1) :
        /\ d = a \div b /\ r = a % b /\ d * b + r = a
        /\ b > 1 /\ a > 0 => d < a
  BY Division
<1>5. PICK p \in Nat : p = d * b /\ p + r = a
  BY <1>4
<1>6. /\ d * (-b) = -p /\ (-d) * b = -p /\ (-d) * (-b) = p
  BY <1>5
<1>7. /\ Quotient(x, y) = IF (x < 0) = (y < 0) THEN d ELSE -d
      /\ Remainder(x, y) = IF x < 0 THEN -r ELSE r
  BY <1>3, <1>4 DEF Quotient, Remainder
<1>8. Quotient(x, y) * y = IF x < 0 THEN -p ELSE p
  <2>1. CASE x < 0 /\ y < 0
    BY <1>3, <1>5, <1>6, <1>7, <2>1
  <2>2. CASE x < 0 /\ ~(y < 0)
    BY <1>3, <1>5, <1>6, <1>7, <2>2
  <2>3. CASE ~(x < 0) /\ y < 0
    BY <1>3, <1>5, <1>6, <1>7, <2>3
  <2>4. CASE ~(x < 0) /\ ~(y < 0)
    BY <1>3, <1>5, <1>6, <1>7, <2>4
  <2>5. QED
    BY <2>1, <2>2, <2>3, <2>4
<1>9. x = IF x < 0 THEN -a ELSE a
  BY <1>3
<1>10. a <= m /\ (a = m => x < 0 /\ x = -m) /\ (~(x < 0) => a <= m - 1)
  BY <1>2, <1>9
<1>11. Quotient(x, y) \in Ints
  <2>1. d <= m - 1 \/ (d = m /\ a = m /\ b = 1)
    <3>1. d <= a /\ (d = a /\ a > 0 => b = 1)
      BY <1>4
    <3>2. QED
      BY <1>10, <3>1
  <2>2. d = m => x < 0 /\ ~(y < 0)
    BY <1>2, <1>3, <1>10, <2>1
  <2>3. QED
    BY <1>2, <1>7, <2>1, <2>2
<1>12. Remainder(x, y) \in Ints
  <2>1. r <= a
    BY <1>5
  <2>2. QED
    BY <1>2, <1>7, <1>10, <2>1
<1>13. Quotient(x, y) * y = x - Remainder(x, y)
  BY <1>5, <1>7, <1>8, <1>9
<1>14. Towards(Quotient(x, y) * y, x) /\ Towards(Remainder(x, y), x)
  BY <1>2, <1>3, <1>5, <1>7, <1>8, <1>9 DEF Towards, Abs
<1>15. Abs(Remainder(x, y)) < Abs(y)
  BY <1>3, <1>7 DEF Abs
<1>16. QED
  BY <1>11, <1>12, <1>13, <1>14, <1>15

(* Execute answers every request it does not trap on, and answers it as    *)
(* Answers says, which knows nothing of wrapping and signs.                *)
THEOREM ExecuteAnswers ==
  ASSUME NEW req \in Requests, ~Traps(req)
  PROVE  Execute(req) \in Responses /\ Answers(Execute(req), req)
<1> DEFINE x == req.x
           y == req.y
<1>1. /\ x \in Ints /\ y \in Ints /\ req.oper \in Opers
      /\ x \in Int /\ y \in Int
      /\ 0 \in Ints
  BY CalculateAssumption DEF Requests, Ints, IntMin
<1>2. \A n \in Ints : Right(n) \in Responses
  BY DEF Right, Responses, Flags
<1>3. \A f \in 1..3 : Wrong(f) \in Responses
  BY <1>1 DEF Wrong, Responses, Flags
<1>4. ASSUME NEW n \in Int, NEW oper \in {"+", "-", "*"}, req.oper = oper,
             Execute(req) = Right(Wrap(n)),
             n = CASE oper = "+" -> x + y [] oper = "-" -> x - y
                   [] oper = "*" -> x * y
      PROVE  Execute(req) \in Responses /\ Answers(Execute(req), req)
  <2>1. Wrap(n) \in Ints /\ (n \in Ints => Wrap(n) = n)
    BY WrapIsInt
  <2>2. QED
    BY <1>2, <1>4, <2>1 DEF Right, Answers
<1>5. CASE req.oper = "+"
  BY <1>1, <1>4, <1>5 DEF Execute
<1>6. CASE req.oper = "-"
  BY <1>1, <1>4, <1>6 DEF Execute
<1>7. CASE req.oper = "*"
  BY <1>1, <1>4, <1>7 DEF Execute
<1>8. CASE req.oper \in {"/", "%"} /\ y = 0
  <2>1. Execute(req) = IF req.oper = "/" THEN Wrong(1) ELSE Wrong(2)
    BY <1>8 DEF Execute
  <2>2. QED
    BY <1>3, <1>8, <2>1 DEF Wrong, Answers
<1>9. CASE req.oper = "/" /\ y # 0
  <2>1. Execute(req) = Right(Quotient(x, y))
    BY <1>9 DEF Execute
  <2>2. ~(x = IntMin /\ y = -1)
    BY <1>9 DEF Traps
  <2>3. /\ Quotient(x, y) \in Ints /\ Remainder(x, y) \in Ints
        /\ Quotient(x, y) * y = x - Remainder(x, y)
        /\ Towards(Quotient(x, y) * y, x)
        /\ Abs(Remainder(x, y)) < Abs(y)
    BY <1>1, <1>9, <2>2, DivisionOfInts
  <2>4. x - Quotient(x, y) * y = Remainder(x, y)
    BY <1>1, <2>3 DEF Ints
  <2>5. QED
    BY <1>2, <1>9, <2>1, <2>3, <2>4 DEF Right, Answers
<1>10. CASE req.oper = "%" /\ y # 0
  <2>1. Execute(req) = Right(Remainder(x, y))
    BY <1>10 DEF Execute
  <2>2. ~(x = IntMin /\ y = -1)
    BY <1>10 DEF Traps
  <2>3. /\ Quotient(x, y) \in Ints /\ Remainder(x, y) \in Ints
        /\ Quotient(x, y) * y = x - Remainder(x, y)
        /\ Towards(Remainder(x, y), x)
        /\ Abs(Remainder(x, y)) < Abs(y)
    BY <1>1, <1>10, <2>2, DivisionOfInts
  <2>4. QED
    BY <1>2, <1>10, <2>1, <2>3 DEF Right, Answers
<1>11. CASE req.oper \in {"&", "^"}
  <2>1. Execute(req) = Wrong(3)
    BY <1>11 DEF Execute
  <2>2. QED
    BY <1>3, <1>11, <2>1 DEF Wrong, Answers
<1>12. QED
  BY <1>1, <1>5, <1>6, <1>7, <1>8, <1>9, <1>10, <1>11 DEF Opers

-----------------------------------------------------------------------------
(* Parts of one request.                                                   *)
AllOf(s, req) == \A i \in DOMAIN s : s[i].of = req

(* What is taken from the front of a sequence.                             *)
LEMMA FrontOf ==
  ASSUME NEW S, NEW s \in Seq(S), NEW n \in 0..Len(s)
  PROVE  /\ SubSeq(s, 1, n) \in Seq(S)
         /\ Len(SubSeq(s, 1, n)) = n
         /\ \A i \in 1..n : SubSeq(s, 1, n)[i] = s[i]
<1>1. /\ Len(s) \in Nat /\ n \in Int /\ 1 \in Int
      /\ \A i \in 1..n : i \in 1..Len(s) /\ s[i] \in S
  BY LenProperties, ElementOfSeq
<1>2. QED
  BY <1>1, SubSeqProperties

(* What From leaves of a sequence.                                         *)
LEMMA RestOf ==
  ASSUME NEW S, NEW s \in Seq(S), NEW n \in 0..Len(s)
  PROVE  /\ From(s, n + 1) \in Seq(S)
         /\ Len(From(s, n + 1)) = Len(s) - n
         /\ \A i \in 1..(Len(s) - n) : From(s, n + 1)[i] = s[n + i]
<1>1. /\ Len(s) \in Nat /\ n + 1 \in Int /\ Len(s) \in Int
      /\ \A i \in (n + 1)..Len(s) : s[i] \in S
  BY LenProperties, ElementOfSeq
<1>2. /\ From(s, n + 1) \in Seq(S)
      /\ Len(From(s, n + 1)) =
           IF n + 1 <= Len(s) THEN Len(s) - (n + 1) + 1 ELSE 0
      /\ \A i \in 1..(Len(s) - (n + 1) + 1) :
           From(s, n + 1)[i] = s[(n + 1) + i - 1]
  BY <1>1, SubSeqProperties DEF From
<1>3. Len(From(s, n + 1)) = Len(s) - n
  BY <1>1, <1>2
<1>4. ASSUME NEW i \in 1..(Len(s) - n) PROVE From(s, n + 1)[i] = s[n + i]
  <2>1. i \in 1..(Len(s) - (n + 1) + 1) /\ (n + 1) + i - 1 = n + i
    BY <1>1
  <2>2. QED
    BY <1>2, <2>1
<1>5. QED
  BY <1>2, <1>3, <1>4

(* What Keep puts together.                                                *)
LEMMA KeptWith ==
  ASSUME NEW S, NEW s \in Seq(S), NEW t \in Seq(S)
  PROVE  /\ Keep(s, t) \in Seq(S)
         /\ Len(Keep(s, t)) = Len(s) + Len(t)
         /\ \A i \in 1..(Len(s) + Len(t)) :
              Keep(s, t)[i] = IF i <= Len(s) THEN s[i] ELSE t[i - Len(s)]
  BY ConcatProperties DEF Keep

(* Parts of one request stay so when some of them are read.                *)
LEMMA PartsMoved ==
  ASSUME NEW S, NEW s \in Seq(S), NEW t \in Seq(S), NEW n \in 0..Len(t),
         NEW req, AllOf(s, req), AllOf(t, req)
  PROVE  /\ AllOf(From(t, n + 1), req) /\ AllOf(SubSeq(t, 1, n), req)
         /\ AllOf(Keep(s, SubSeq(t, 1, n)), req)
<1> DEFINE f == SubSeq(t, 1, n)
           g == From(t, n + 1)
           h == Keep(s, f)
<1>1. /\ f \in Seq(S) /\ Len(f) = n
      /\ \A i \in 1..n : f[i] = t[i]
  BY FrontOf
<1>2. /\ g \in Seq(S) /\ Len(g) = Len(t) - n
      /\ \A i \in 1..(Len(t) - n) : g[i] = t[n + i]
  BY RestOf
<1>3. /\ h \in Seq(S) /\ Len(h) = Len(s) + Len(f)
      /\ \A i \in 1..(Len(s) + Len(f)) :
           h[i] = IF i <= Len(s) THEN s[i] ELSE f[i - Len(s)]
  BY <1>1, KeptWith
<1> HIDE DEF f, g, h
<1>4. PICK a \in Nat, b \in Nat :
        /\ a = Len(s) /\ b = Len(t)
        /\ DOMAIN s = 1..a /\ DOMAIN t = 1..b /\ n \in 0..b
        /\ DOMAIN f = 1..n /\ DOMAIN g = 1..(b - n) /\ DOMAIN h = 1..(a + n)
  <2>1. /\ Len(s) \in Nat /\ Len(t) \in Nat
        /\ DOMAIN s = 1..Len(s) /\ DOMAIN t = 1..Len(t)
        /\ DOMAIN f = 1..Len(f) /\ DOMAIN g = 1..Len(g)
        /\ DOMAIN h = 1..Len(h)
    BY <1>1, <1>2, <1>3, LenProperties
  <2>2. QED
    BY <1>1, <1>2, <1>3, <2>1
<1>5. \A i \in DOMAIN f : f[i].of = req
  <2>1. \A i \in 1..n : i \in 1..b
    BY <1>4
  <2>2. QED
    BY <1>1, <1>4, <2>1 DEF AllOf
<1>6. \A i \in DOMAIN g : g[i].of = req
  <2>1. \A i \in 1..(b - n) : n + i \in 1..b
    BY <1>4
  <2>2. QED
    <3>1. ASSUME NEW i \in 1..(b - n) PROVE g[i].of = req
      <4>1. g[i] = t[n + i]
        BY <1>2, <1>4
      <4>2. n + i \in DOMAIN t
        BY <1>4, <2>1
      <4>3. QED
        BY <4>1, <4>2 DEF AllOf
    <3>2. QED
      BY <1>4, <3>1
<1>7. \A i \in DOMAIN h : h[i].of = req
  <2>1. ASSUME NEW i \in 1..(a + n) PROVE h[i].of = req
    <3>1. h[i] = IF i <= a THEN s[i] ELSE f[i - a]
      BY <1>1, <1>3, <1>4
    <3>2. i <= a => i \in 1..a
      BY <1>4
    <3>3. ~(i <= a) => i - a \in 1..n
      BY <1>4
    <3>4. QED
      BY <1>4, <1>5, <3>1, <3>2, <3>3 DEF AllOf
  <2>2. QED
    BY <1>4, <2>1
<1>8. QED
  BY <1>5, <1>6, <1>7 DEF f, g, h, AllOf

(* A frame, and the frames at the front of what has arrived.               *)
LEMMA EncodedData ==
  ASSUME NEW S, NEW data \in S
  PROVE  /\ InParts(data) \in Seq(Parts(S)) /\ Len(InParts(data)) = 2
         /\ InParts(data)[1] = [part |-> 1, of |-> data]
         /\ InParts(data)[2] = [part |-> 2, of |-> data]
  BY DEF InParts, Parts

(* A whole frame needs two parts, and its data is in the second.           *)
LEMMA PackagesOf ==
  ASSUME NEW S, NEW s \in Seq(Parts(S))
  PROVE  /\ Packages(s) \in Seq(S)
         /\ Len(Packages(s)) = Len(s) \div 2
         /\ Packages(s) # <<>> <=> Len(s) >= 2
         /\ Len(s) >= 2 => Packages(s)[1] = s[2].of /\ s[2].of \in S
<1>1. Len(s) \in Nat
  BY LenProperties
<1>2. PICK n \in Nat : /\ n = Len(s) \div 2 /\ 2 * n <= Len(s)
                       /\ n > 0 <=> Len(s) >= 2
  BY <1>1
<1>3. \A i \in 1..n : 2 * i \in 1..Len(s) /\ s[2 * i].of \in S
  <2>1. ASSUME NEW i \in 1..n PROVE 2 * i \in 1..Len(s) /\ s[2 * i].of \in S
    <3>1. 2 * i \in 1..Len(s)
      BY <1>1, <1>2
    <3>2. s[2 * i] \in Parts(S)
      BY <3>1, ElementOfSeq
    <3>3. QED
      BY <3>1, <3>2 DEF Parts
  <2>2. QED
    BY <2>1
<1>4. Packages(s) = [i \in 1..n |-> s[2 * i].of]
  BY <1>2 DEF Packages
<1>5. Packages(s) \in Seq(S) /\ Len(Packages(s)) = n
  BY <1>3, <1>4
<1>6. QED
  BY <1>2, <1>3, <1>4, <1>5, EmptySeq

-----------------------------------------------------------------------------
(* The invariant.  A client looks for a new connection only when it has    *)
(* none, or the server's side of the last one has ended.                   *)
Between(c) == link[c] = 0 \/ serverEnd[Current(c)] # "open"

Ways(c) ==
  /\ status[c] = "NEW" => link[c] = 0
  /\ status[c] = "CONNECTED" => link[c] # 0
  /\ pc[c] \in {"send", "recv"} => status[c] = "CONNECTED"
  /\ status[c] = "DISCONNECTED" \/ pc[c] = "retry" => Between(c)
  /\ pc[c] = "retry" => cnt[c] <= RetryMax

(* Each connection but the last has been ended by a start of the server or *)
(* a reset of its own, so that Links are enough of them.                   *)
Room(c) ==
  /\ link[c] <= starts + resets
  /\ server = "up" /\ pc[c] # "gone" /\ Between(c) => link[c] < starts + resets

(* A client's side ends with its process, or with the server's.            *)
Ends(k) ==
  /\ clientEnd[k] # "open" => pc[k[1]] = "gone" \/ serverEnd[k] # "open"
  /\ thread[k] = "close" => clientEnd[k] # "open"

Still(k) ==
  recvmessage[k] = <<>> /\ requests[k] = <<>> /\ responses[k] = <<>>

Untouched(k) ==
  k[2] > link[k[1]] =>
    /\ Still(k)
    /\ thread[k] = "none" /\ k \notin Queued
    /\ clientEnd[k] = "open" /\ serverEnd[k] = "open"

(* As long as its client has torn no response, a connection carries one    *)
(* frame, in one of the directions; and after an answer that met a client  *)
(* who had left there is none left.                                        *)
Held(k) == Len(recvmessage[k]) + Len(requests[k])

Light(k) ==
  ~torn[k[1]] =>
    /\ Held(k) <= 2 /\ Len(responses[k]) <= 2
    /\ responses[k] # <<>> => recvmessage[k] = <<>> /\ requests[k] = <<>>
    /\ clientEnd[k] = "finrst" => Held(k) < 2

(* Where the request a client waits for is, or the answer to it.           *)
Underway(k, req) ==
  /\ AllOf(recvmessage[k], req) /\ AllOf(requests[k], req)
  /\ \A i \in DOMAIN responses[k] :
       responses[k][i] = [part |-> i, of |-> Execute(req)] /\ ~Traps(req)

(* Whose turn it is: a client that may send has nothing underway.          *)
Free(c) == pc[c] = "send" \/ (pc[c] = "execute" /\ status[c] = "CONNECTED")

Turn(c) ==
  ~torn[c] =>
    /\ Free(c) => Still(Current(c))
    /\ pc[c] = "recv" => asked[c] # <<>> /\ Underway(Current(c), asked[c][1])
    /\ shown[c] # <<>> =>
         /\ asked[c] # <<>> /\ ~Traps(asked[c][1])
         /\ shown[c] = <<Execute(asked[c][1])>>

IInv ==
  /\ TypeOK
  /\ \A c \in Clients : Ways(c) /\ Room(c) /\ Turn(c)
  /\ \A k \in Links : Ends(k) /\ Untouched(k) /\ Light(k)
  /\ SurvivesClients

-----------------------------------------------------------------------------
(* The answer to a request, without the two ways in which it may end the   *)
(* process.                                                                *)
Replies(k) ==
  LET req == Packages(recvmessage[k])[1]
      how == clientEnd[k]
  IN  /\ thread[k] = "decode"
      /\ Packages(recvmessage[k]) # <<>>
      /\ ~Traps(req) /\ how # "finrst"
      /\ recvmessage' = [recvmessage EXCEPT ![k] = From(@, 3)]
      /\ responses' = IF how # "open" THEN responses
                      ELSE [responses EXCEPT ![k] = @ \o InParts(Execute(req))]
      /\ clientEnd' = IF how = "open" THEN clientEnd
                      ELSE [clientEnd EXCEPT ![k] = "finrst"]
      /\ UNCHANGED <<server, starts, backlog, doomed, thread, requests,
                     serverEnd>>

(* What SIGPIPE takes: a whole request behind an answer that found its     *)
(* client gone.                                                            *)
Piped(k) == Packages(recvmessage[k]) # <<>> /\ clientEnd[k] = "finrst"

Deaths == {"down", "fpe", "pipe", "segv"}

(* A step of the server: its threads, the end of its process.              *)
Serves ==
  /\ UNCHANGED <<resets, clientVars>>
  /\ \/ Accept \/ AcceptFails
     \/ \E k \in Links : Recv(k) \/ RecvEnd(k) \/ Decoded(k) \/ Replies(k)
                         \/ Close(k)
     \/ \E how \in Deaths :
          Die(how) /\ (how = "pipe" => \E k \in Links : Piped(k))

(* Every step is one of these.                                             *)
LEMMA NextCases ==
  ASSUME Next
  PROVE  \/ Serves
         \/ \E c \in Clients : Client(c) \/ Interrupt(c) \/ Exit(c)
         \/ \E k \in Links : Reset(k)
         \/ Restart
<1>1. ASSUME NEW k \in Links, Answer(k)
      PROVE  \/ Replies(k)
             \/ \E how \in Deaths :
                  Die(how) /\ (how = "pipe" => \E l \in Links : Piped(l))
  BY <1>1 DEF Answer, Replies, Piped, Deaths
<1>2. CASE Server
  BY <1>1, <1>2 DEF Server, Start, Crash, HandlerService, Serves, Deaths
<1>3. CASE Stop
  BY <1>3 DEF Stop, Serves, Deaths
<1>4. QED
  BY <1>2, <1>3 DEF Next

(* A link is a client and a number.                                        *)
LEMMA LinkOf ==
  ASSUME TypeOK
  PROVE  /\ \A k \in Links : k[1] \in Clients /\ k[2] \in Nat
         /\ \A c \in Clients :
              /\ link[c] \in Nat
              /\ Current(c)[1] = c /\ Current(c)[2] = link[c]
              /\ link[c] # 0 => Current(c) \in Links
<1>1. MaxStarts + MaxResets \in Nat
  BY SessionAssumption
<1>2. \A k \in Links : k[1] \in Clients /\ k[2] \in Nat
  BY <1>1 DEF Links
<1>3. \A c \in Clients : link[c] \in 0..(MaxStarts + MaxResets)
  BY DEF TypeOK, ClientTypes
<1>4. \A c \in Clients : Current(c)[1] = c /\ Current(c)[2] = link[c]
  BY DEF Current
<1>5. \A c \in Clients : link[c] # 0 => Current(c) \in Links
  BY <1>1, <1>3 DEF Current, Links
<1> QED
  BY <1>1, <1>2, <1>3, <1>4, <1>5

(* The end of the process.                                                 *)
LEMMA DieEffect ==
  ASSUME ServerTypes, LinkTypes, UNCHANGED resets, NEW how \in Deaths, Die(how)
  PROVE  /\ ServerTypes' /\ LinkTypes'
         /\ server' = how /\ backlog' = <<>>
         /\ UNCHANGED <<starts, requests, responses, clientEnd>>
         /\ \A k \in Links :
              /\ recvmessage'[k] = <<>>
              /\ thread'[k] = IF thread[k] = "none" THEN "none" ELSE "gone"
              /\ serverEnd[k] # "open" => serverEnd'[k] = serverEnd[k]
              /\ /\ requests[k] = <<>> /\ k \notin Queued
                 /\ thread[k] = "none"
                 => serverEnd'[k] = serverEnd[k]
<1>1. /\ server' = how /\ doomed' = FALSE /\ backlog' = <<>>
      /\ thread' = [k \in Links |->
                      IF thread[k] = "none" THEN "none" ELSE "gone"]
      /\ recvmessage' = [k \in Links |-> <<>>]
      /\ UNCHANGED <<starts, requests, responses, clientEnd>>
  BY DEF Die
<1>2. \A S : <<>> \in Seq(S)
  BY EmptySeq
<1>3. ServerTypes'
  BY <1>1, <1>2 DEF ServerTypes, Deaths
<1>4. /\ serverEnd' \in [Links -> {"open", "fin", "rst", "finrst"}]
      /\ \A k \in Links :
           /\ serverEnd[k] # "open" => serverEnd'[k] = serverEnd[k]
           /\ requests[k] = <<>> /\ k \notin Queued /\ thread[k] = "none"
                => serverEnd'[k] = serverEnd[k]
  BY DEF Die, LinkTypes
<1>5. LinkTypes'
  BY <1>1, <1>4 DEF LinkTypes
<1>6. QED
  BY <1>1, <1>3, <1>4, <1>5

-----------------------------------------------------------------------------
(* Types.                                                                  *)
LEMMA ServesTypes ==
  ASSUME TypeOK, Serves
  PROVE  TypeOK'
<1>0. UNCHANGED resets /\ ClientTypes'
  BY DEF Serves, clientVars, TypeOK, ClientTypes
<1>1. CASE Accept
  <2>1. Head(backlog) \in Links /\ Tail(backlog) \in Seq(Links)
    BY <1>1, HeadTailProperties DEF Accept, TypeOK, ServerTypes
  <2>2. QED
    BY <1>0, <1>1, <2>1 DEF Accept, TypeOK, ServerTypes, LinkTypes, linkVars
<1>2. CASE AcceptFails
  BY <1>0, <1>2 DEF AcceptFails, TypeOK, ServerTypes, LinkTypes, linkVars
<1>3. ASSUME NEW k \in Links, Recv(k) PROVE TypeOK'
  <2>1. PICK n \in 1..Len(requests[k]) :
          /\ recvmessage' = [recvmessage EXCEPT
                               ![k] = Keep(@, SubSeq(requests[k], 1, n))]
          /\ requests' = [requests EXCEPT ![k] = From(@, n + 1)]
    BY <1>3 DEF Recv
  <2>2. recvmessage[k] \in Seq(Parts(Requests))
        /\ requests[k] \in Seq(Parts(Requests))
    BY DEF TypeOK, ServerTypes, LinkTypes
  <2>3. n \in 0..Len(requests[k])
    BY <2>1
  <2>4. /\ SubSeq(requests[k], 1, n) \in Seq(Parts(Requests))
        /\ From(requests[k], n + 1) \in Seq(Parts(Requests))
    BY <2>2, <2>3, FrontOf, RestOf
  <2>5. Keep(recvmessage[k], SubSeq(requests[k], 1, n)) \in Seq(Parts(Requests))
    BY <2>2, <2>4, KeptWith
  <2>6. QED
    BY <1>0, <1>3, <2>1, <2>4, <2>5
    DEF Recv, TypeOK, ServerTypes, LinkTypes
<1>4. ASSUME NEW k \in Links, RecvEnd(k) \/ Decoded(k) PROVE TypeOK'
  <2>1. /\ thread' \in [Links -> {"none", "recv", "decode", "close", "gone",
                                 "not created"}]
        /\ UNCHANGED <<server, starts, backlog, doomed, recvmessage>>
    BY <1>4 DEF RecvEnd, Decoded, TypeOK, ServerTypes
  <2>2. LinkTypes'
    BY <1>4 DEF RecvEnd, Decoded, TypeOK, LinkTypes, linkVars
  <2> QED
    BY <1>0, <2>1, <2>2 DEF TypeOK, ServerTypes
<1>5. ASSUME NEW k \in Links, Replies(k) PROVE TypeOK'
  <2> DEFINE req == Packages(recvmessage[k])[1]
  <2>1. /\ recvmessage[k] \in Seq(Parts(Requests))
        /\ responses[k] \in Seq(Parts(Responses))
    BY DEF TypeOK, ServerTypes, LinkTypes
  <2>2. Len(recvmessage[k]) >= 2 /\ req \in Requests
    BY <1>5, <2>1, PackagesOf DEF Replies
  <2>3. Execute(req) \in Responses
    BY <1>5, <2>2, ExecuteAnswers DEF Replies
  <2>4. responses[k] \o InParts(Execute(req)) \in Seq(Parts(Responses))
    BY <2>1, <2>3, EncodedData, ConcatProperties
  <2>5. From(recvmessage[k], 3) \in Seq(Parts(Requests))
    <3>1. 2 \in 0..Len(recvmessage[k]) /\ 2 + 1 = 3
      BY <2>1, <2>2, LenProperties
    <3>2. QED
      BY <2>1, <3>1, RestOf
  <2>6. ServerTypes'
    BY <1>0, <1>5, <2>5 DEF Replies, TypeOK, ServerTypes
  <2>7. LinkTypes'
    BY <1>5, <2>4 DEF Replies, TypeOK, LinkTypes
  <2>8. QED
    BY <1>0, <2>6, <2>7 DEF TypeOK
<1>6. ASSUME NEW k \in Links, Close(k) PROVE TypeOK'
  <2>1. <<>> \in Seq(Parts(Requests))
    BY EmptySeq
  <2>2. QED
    BY <1>0, <1>6, <2>1 DEF Close, TypeOK, ServerTypes, LinkTypes
<1>7. ASSUME NEW how \in Deaths, Die(how) PROVE TypeOK'
  BY <1>0, <1>7, DieEffect DEF TypeOK
<1>8. QED
  BY <1>1, <1>2, <1>3, <1>4, <1>5, <1>6, <1>7 DEF Serves

(* A connection that succeeds is one of Links.                             *)
LEMMA ConnectedEffect ==
  ASSUME TypeOK, NEW c \in Clients, Connected(c), Room(c), Between(c),
         pc[c] # "gone"
  PROVE  /\ link' = [link EXCEPT ![c] = @ + 1]
         /\ backlog' = Append(backlog, <<c, link[c] + 1>>)
         /\ link[c] + 1 <= starts + resets
         /\ link' \in [Clients -> 0..(MaxStarts + MaxResets)]
         /\ <<c, link[c] + 1>> \in Links
         /\ backlog' \in Seq(Links)
<1>1. /\ link' = [link EXCEPT ![c] = @ + 1]
      /\ backlog' = Append(backlog, <<c, link[c] + 1>>)
      /\ server = "up"
  BY DEF Connected
<1>2. /\ link[c] \in Nat /\ starts \in 1..MaxStarts /\ resets \in 0..MaxResets
      /\ MaxStarts \in Nat /\ MaxResets \in Nat
  <2>1. MaxStarts \in Nat /\ MaxResets \in Nat
    BY SessionAssumption
  <2>2. starts \in 1..MaxStarts /\ resets \in 0..MaxResets
    BY DEF TypeOK, ServerTypes
  <2>3. link[c] \in Nat
    BY LinkOf
  <2>4. QED
    BY <2>1, <2>2, <2>3
<1>3. link[c] + 1 <= starts + resets
  BY <1>1, <1>2 DEF Room
<1>4. link[c] + 1 \in 1..(MaxStarts + MaxResets)
  BY <1>2, <1>3
<1>5. <<c, link[c] + 1>> \in Links
  BY <1>4 DEF Links
<1>6. backlog' \in Seq(Links)
  BY <1>1, <1>5, AppendProperties DEF TypeOK, ServerTypes
<1>7. link' \in [Clients -> 0..(MaxStarts + MaxResets)]
  BY <1>1, <1>2, <1>4 DEF TypeOK, ClientTypes
<1>8. QED
  BY <1>1, <1>3, <1>5, <1>6, <1>7

(* A client that sends does so on its last connection.                     *)
LEMMA SendEffect ==
  ASSUME TypeOK, NEW c \in Clients, Send(c), Ways(c)
  PROVE  \E req \in Asked, k \in Links :
           /\ k = Current(c) /\ k[1] = c /\ k[2] = link[c]
           /\ asked' = [asked EXCEPT ![c] = <<req>>]
           /\ req \in Requests
           /\ requests' = IF serverEnd[k] # "open" THEN requests
                          ELSE [requests EXCEPT ![k] = @ \o InParts(req)]
           /\ requests[k] \o InParts(req) \in Seq(Parts(Requests))
           /\ Len(requests[k] \o InParts(req)) = Len(requests[k]) + 2
<1>1. PICK k \in Links : k = Current(c) /\ k[1] = c /\ k[2] = link[c]
  BY LinkOf DEF Send, Ways
<1>2. PICK req \in Asked : asked' = [asked EXCEPT ![c] = <<req>>]
  BY DEF Send
<1>3. asked'[c][1] = req /\ req \in Requests
  BY <1>2, SessionAssumption DEF TypeOK, ClientTypes
<1>4. requests' = IF serverEnd[k] # "open" THEN requests
                  ELSE [requests EXCEPT ![k] = @ \o InParts(req)]
  BY <1>1, <1>3 DEF Send, Frames
<1>5. /\ requests[k] \o InParts(req) \in Seq(Parts(Requests))
      /\ Len(requests[k] \o InParts(req)) = Len(requests[k]) + 2
  <2>1. requests[k] \in Seq(Parts(Requests))
    BY DEF TypeOK, LinkTypes
  <2>2. InParts(req) \in Seq(Parts(Requests)) /\ Len(InParts(req)) = 2
    BY <1>3, EncodedData
  <2>3. /\ requests[k] \o InParts(req) \in Seq(Parts(Requests))
        /\ Len(requests[k] \o InParts(req)) = Len(requests[k]) + Len(InParts(req))
    BY <2>1, <2>2, ConcatProperties
  <2>4. QED
    BY <2>2, <2>3
<1>6. QED
  BY <1>1, <1>2, <1>3, <1>4, <1>5

(* Steps of a client keep the types.                                       *)
LEMMA ClientStepTypes ==
  ASSUME TypeOK, NEW c \in Clients, Client(c), Ways(c), Room(c)
  PROVE  TypeOK'
<1>0. /\ UNCHANGED <<server, starts, doomed, thread, recvmessage, resets>>
      /\ backlog' \in Seq(Links) => ServerTypes'
      /\ UNCHANGED linkVars => LinkTypes'
      /\ UNCHANGED backlog => backlog' \in Seq(Links)
  BY DEF Client, TypeOK, ServerTypes, LinkTypes, linkVars
<1>1. CASE Connect(c)
  <2>1. Between(c) /\ pc[c] # "gone"
    BY <1>1 DEF Connect, Ways, Between
  <2>2. /\ link' \in [Clients -> 0..(MaxStarts + MaxResets)]
        /\ backlog' \in Seq(Links)
    BY <1>0, <1>1, <2>1, ConnectedEffect
    DEF Connect, Refused, TypeOK, ClientTypes
  <2>3. ClientTypes'
    BY <1>1, <2>2 DEF Connect, TypeOK, ClientTypes
  <2>4. QED
    BY <1>0, <1>1, <2>2, <2>3 DEF Connect, TypeOK
<1>2. CASE Process(c) \/ RecvFails(c) \/ ReConnect(c) \/ DisConnect(c)
  <2>1. UNCHANGED <<backlog, linkVars>>
    BY <1>2 DEF Process, RecvFails, ReConnect, DisConnect
  <2>2. ClientTypes'
    <3>1. 1 \in 1..(RetryMax + 1) /\ 0 \in 0..(RetryMax + 1)
      BY SessionAssumption
    <3>2. CASE Process(c) \/ RecvFails(c) \/ DisConnect(c)
      BY <3>2 DEF Process, RecvFails, DisConnect, TypeOK, ClientTypes
    <3>3. CASE ReConnect(c)
      <4>1. /\ cnt' \in [Clients -> 1..(RetryMax + 1)]
            /\ attempts' \in [Clients -> 0..(RetryMax + 1)]
        BY <3>1, <3>3 DEF ReConnect, TypeOK, ClientTypes
      <4>2. QED
        BY <3>3, <4>1 DEF ReConnect, TypeOK, ClientTypes
    <3>4. QED
      BY <1>2, <3>2, <3>3
  <2>3. QED
    BY <1>0, <2>1, <2>2 DEF TypeOK
<1>3. CASE Send(c)
  <2>1. PICK req \in Asked, k \in Links :
          /\ k = Current(c)
          /\ asked' = [asked EXCEPT ![c] = <<req>>]
          /\ requests' = IF serverEnd[k] # "open" THEN requests
                         ELSE [requests EXCEPT ![k] = @ \o InParts(req)]
          /\ requests[k] \o InParts(req) \in Seq(Parts(Requests))
    BY <1>3, SendEffect
  <2>2. LinkTypes'
    <3>1. requests' \in [Links -> Seq(Parts(Requests))]
      BY <2>1 DEF TypeOK, LinkTypes
    <3>2. serverEnd' = IF serverEnd[k] = "open" THEN serverEnd
                       ELSE [serverEnd EXCEPT ![k] = "finrst"]
      BY <1>3, <2>1 DEF Send
    <3>3. UNCHANGED <<responses, clientEnd>>
      BY <1>3 DEF Send
    <3>4. QED
      BY <3>1, <3>2, <3>3 DEF TypeOK, LinkTypes
  <2>3. ClientTypes'
    <3>1. asked' \in [Clients -> {<<>>} \cup {<<r>> : r \in Asked}]
      BY <2>1 DEF TypeOK, ClientTypes
    <3>2. asks' \in [Clients -> 0..MaxAsks]
      BY SMTT(30), <1>3, SessionAssumption DEF Send, TypeOK, ClientTypes
    <3>3. shown' \in [Clients -> Seq(Responses)]
      BY <1>3, EmptySeq DEF Send, TypeOK, ClientTypes
    <3>4. /\ pc' \in [Clients -> {"execute", "send", "recv", "retry", "exit",
                                  "gone"}]
          /\ status' \in [Clients -> {"NEW", "CONNECTED", "CONNECTING",
                                      "DISCONNECTED", "CLOSE"}]
      <4>1. serverEnd[k] \in {"open", "fin", "rst", "finrst"}
        BY DEF TypeOK, LinkTypes
      <4>2. QED
        BY <1>3, <2>1, <4>1 DEF Send, TypeOK, ClientTypes
    <3>5. UNCHANGED <<cnt, link, torn, attempts>>
      BY <1>3 DEF Send
    <3>6. QED
      BY <3>1, <3>2, <3>3, <3>4, <3>5 DEF TypeOK, ClientTypes
  <2>4. QED
    BY <1>0, <1>3, <2>2, <2>3 DEF Send, TypeOK
<1>4. CASE RecvResponse(c)
  <2>1. PICK k \in Links : k = Current(c)
    BY <1>4, LinkOf DEF RecvResponse, Ways
  <2>2. PICK n \in 1..Len(responses[k]) :
          LET parts == SubSeq(responses[k], 1, n)
          IN  /\ responses' = [responses EXCEPT ![k] = From(@, n + 1)]
              /\ torn' = [torn EXCEPT ![c] = @ \/ n % 2 = 1]
              /\ \/ /\ shown' = [shown EXCEPT ![c] = Packages(parts)]
                    /\ pc' = [pc EXCEPT ![c] = "send"]
                 \/ /\ \E some \in {<<>>, <<Garbage>>} :
                         shown' = [shown EXCEPT ![c] = some]
                    /\ \E next \in {"send", "exit"} :
                         pc' = [pc EXCEPT ![c] = next]
    BY <1>4, <2>1 DEF RecvResponse
  <2>3. responses[k] \in Seq(Parts(Responses)) /\ n \in 0..Len(responses[k])
    BY <2>2 DEF TypeOK, LinkTypes
  <2>4. /\ From(responses[k], n + 1) \in Seq(Parts(Responses))
        /\ Packages(SubSeq(responses[k], 1, n)) \in Seq(Responses)
    BY <2>3, FrontOf, RestOf, PackagesOf
  <2>5. Garbage \in Responses
    BY CalculateAssumption DEF Garbage, Right, Responses, Flags, Ints, IntMin
  <2>6. <<>> \in Seq(Responses) /\ <<Garbage>> \in Seq(Responses)
    BY <2>5, EmptySeq
  <2>7. shown' \in [Clients -> Seq(Responses)]
    <3>1. PICK some \in Seq(Responses) : shown' = [shown EXCEPT ![c] = some]
      BY <2>2, <2>4, <2>6
    <3>2. QED
      BY <3>1 DEF TypeOK, ClientTypes
  <2>8. LinkTypes'
    BY <1>4, <2>2, <2>4 DEF RecvResponse, TypeOK, LinkTypes
  <2>9. torn' \in [Clients -> BOOLEAN]
    BY <2>2 DEF TypeOK, ClientTypes
  <2>10. pc' \in [Clients -> {"execute", "send", "recv", "retry", "exit",
                              "gone"}]
    BY <2>2 DEF TypeOK, ClientTypes
  <2>11. ClientTypes'
    BY <1>4, <2>7, <2>9, <2>10 DEF RecvResponse, TypeOK, ClientTypes
  <2>12. QED
    BY <1>0, <1>4, <2>8, <2>11 DEF RecvResponse, TypeOK
<1>5. CASE Retry(c)
  <2>1. Between(c) /\ pc[c] # "gone"
    BY <1>5 DEF Retry, Ways
  <2>2. /\ link' \in [Clients -> 0..(MaxStarts + MaxResets)]
        /\ backlog' \in Seq(Links)
    BY <1>0, <1>5, <2>1, ConnectedEffect DEF Retry, Refused, TypeOK, ClientTypes
  <2>3. RetryMax \in Nat \ {0}
    BY SessionAssumption
  <2>4. cnt' \in [Clients -> 1..(RetryMax + 1)]
    <3>1. cnt[c] + 1 \in 1..(RetryMax + 1)
      BY <1>5, <2>3 DEF Retry, Ways, TypeOK, ClientTypes
    <3>2. cnt' = cnt \/ cnt' = [cnt EXCEPT ![c] = @ + 1]
      BY <1>5 DEF Retry, Counted
    <3>3. QED
      BY <3>1, <3>2 DEF TypeOK, ClientTypes
  <2>5. attempts' \in [Clients -> 0..(RetryMax + 1)]
    <3>1. attempts' = [attempts EXCEPT
                         ![c] = IF @ > RetryMax THEN @ ELSE @ + 1]
      BY <1>5 DEF Retry
    <3>2. QED
      BY <2>3, <3>1 DEF TypeOK, ClientTypes
  <2>6. /\ pc' \in [Clients -> {"execute", "send", "recv", "retry", "exit",
                                "gone"}]
        /\ status' \in [Clients -> {"NEW", "CONNECTED", "CONNECTING",
                                    "DISCONNECTED", "CLOSE"}]
    BY ZenonT(30), <1>5 DEF Retry, TypeOK, ClientTypes
  <2>7. ClientTypes'
    BY <1>5, <2>2, <2>4, <2>5, <2>6 DEF Retry, TypeOK, ClientTypes
  <2>8. QED
    BY <1>0, <1>5, <2>2, <2>7 DEF Retry, TypeOK
<1>6. QED
  BY <1>1, <1>2, <1>3, <1>4, <1>5 DEF Client, Run

(* What happens to either side from outside.                               *)
LEMMA OutsideTypes ==
  ASSUME TypeOK,
         \/ \E c \in Clients : Interrupt(c) \/ Exit(c)
         \/ \E k \in Links : Reset(k)
         \/ Restart
  PROVE  TypeOK'
<1>1. ASSUME NEW c \in Clients, Interrupt(c) PROVE TypeOK'
  BY <1>1 DEF Interrupt, serverVars, linkVars, TypeOK, ServerTypes, LinkTypes,
              ClientTypes
<1>2. ASSUME NEW c \in Clients, Exit(c) PROVE TypeOK'
  <2>1. clientEnd' \in [Links -> {"open", "fin", "rst", "finrst"}]
    BY <1>2 DEF Exit, TypeOK, LinkTypes
  <2>2. QED
    BY <1>2, <2>1 DEF Exit, serverVars, TypeOK, ServerTypes, LinkTypes,
                      ClientTypes
<1>3. ASSUME NEW k \in Links, Reset(k) PROVE TypeOK'
  <2>1. PICK n \in 0..Len(requests[k]), m \in 0..Len(responses[k]) :
          /\ requests' = [requests EXCEPT ![k] = SubSeq(@, 1, n)]
          /\ responses' = [responses EXCEPT ![k] = SubSeq(@, 1, m)]
    BY <1>3 DEF Reset
  <2>2. /\ SubSeq(requests[k], 1, n) \in Seq(Parts(Requests))
        /\ SubSeq(responses[k], 1, m) \in Seq(Parts(Responses))
    BY FrontOf DEF TypeOK, LinkTypes
  <2>3. LinkTypes'
    BY <1>3, <2>1, <2>2 DEF Reset, TypeOK, LinkTypes
  <2>4. resets' \in 0..MaxResets
    <3>1. resets \in 0..MaxResets /\ resets' = resets + 1 /\ resets < MaxResets
      BY <1>3 DEF Reset, TypeOK, ServerTypes
    <3>2. MaxResets \in Nat
      BY SessionAssumption
    <3>3. QED
      BY <3>1, <3>2
  <2>5. QED
    BY <1>3, <2>3, <2>4 DEF Reset, serverVars, clientVars, TypeOK, ServerTypes,
                            ClientTypes
<1>4. CASE Restart
  <2>1. starts' \in 1..MaxStarts
    <3>1. starts \in 1..MaxStarts /\ starts' = starts + 1 /\ starts < MaxStarts
      BY <1>4 DEF Restart, TypeOK, ServerTypes
    <3>2. MaxStarts \in Nat
      BY SessionAssumption
    <3>3. QED
      BY <3>1, <3>2
  <2>2. QED
    BY <1>4, <2>1 DEF Restart, linkVars, clientVars, TypeOK, ServerTypes,
                      LinkTypes, ClientTypes
<1>5. QED
  BY <1>1, <1>2, <1>3, <1>4

(* Every step keeps the types.                                             *)
LEMMA TypesStep ==
  ASSUME IInv, Next
  PROVE  TypeOK'
  BY NextCases, ServesTypes, ClientStepTypes, OutsideTypes DEF IInv
-----------------------------------------------------------------------------
(* What a step may do to a link, as far as its parts and the client's side *)
(* are concerned: nothing; let the server read from it, answer on it,      *)
(* forget what it has read; carry a request; let the client read; be left  *)
(* by the client; be reset.                                                *)
Quiet(k) == UNCHANGED <<recvmessage[k], requests[k], responses[k],
                        clientEnd[k]>>

Moves(k) ==
  /\ thread[k] = "recv"
  /\ \E n \in 1..Len(requests[k]) :
       /\ recvmessage'[k] = Keep(recvmessage[k], SubSeq(requests[k], 1, n))
       /\ requests'[k] = From(requests[k], n + 1)
  /\ UNCHANGED <<responses[k], clientEnd[k]>>

Answered(k) ==
  LET req == Packages(recvmessage[k])[1]
  IN  /\ thread[k] = "decode"
      /\ Packages(recvmessage[k]) # <<>> /\ ~Traps(req)
      /\ recvmessage'[k] = From(recvmessage[k], 3)
      /\ UNCHANGED requests[k]
      /\ \/ /\ clientEnd[k] = "open"
            /\ responses'[k] = responses[k] \o InParts(Execute(req))
            /\ UNCHANGED clientEnd[k]
         \/ /\ clientEnd[k] # "open" /\ clientEnd'[k] = "finrst"
            /\ UNCHANGED responses[k]

Forgets(k) ==
  /\ recvmessage'[k] = <<>>
  /\ UNCHANGED <<requests[k], responses[k], clientEnd[k]>>
  /\ serverEnd'[k] = "open" /\ clientEnd[k] = "open" =>
       requests[k] = <<>> /\ k \notin Queued /\ thread[k] \in {"none", "gone"}

Carries(k) ==
  /\ pc[k[1]] = "send" /\ pc'[k[1]] = "recv"
  /\ k = Current(k[1]) /\ serverEnd[k] = "open"
  /\ \E req \in Requests :
       /\ asked'[k[1]] = <<req>>
       /\ requests'[k] = requests[k] \o InParts(req)
  /\ UNCHANGED <<recvmessage[k], responses[k], clientEnd[k]>>

Read(k) ==
  /\ pc[k[1]] = "recv" /\ pc'[k[1]] \in {"send", "exit"}
  /\ k = Current(k[1])
  /\ \E n \in 1..Len(responses[k]) : responses'[k] = From(responses[k], n + 1)
  /\ UNCHANGED <<recvmessage[k], requests[k], clientEnd[k]>>

Left(k) ==
  /\ pc'[k[1]] = "gone" /\ k[2] <= link[k[1]]
  /\ clientEnd[k] = "open" /\ clientEnd'[k] \in {"fin", "rst"}
  /\ UNCHANGED <<recvmessage[k], requests[k], responses[k]>>

Cut(k) ==
  /\ k[2] <= link[k[1]]
  /\ clientEnd'[k] = "rst" /\ serverEnd'[k] = "rst"
  /\ \E n \in 0..Len(requests[k]) : requests'[k] = SubSeq(requests[k], 1, n)
  /\ \E n \in 0..Len(responses[k]) : responses'[k] = SubSeq(responses[k], 1, n)
  /\ UNCHANGED recvmessage[k]

(* Every step does one of these to a link.                                 *)
LEMMA LinkCases ==
  ASSUME IInv, Next, NEW k \in Links
  PROVE  \/ Quiet(k) \/ Moves(k) \/ Answered(k) \/ Forgets(k)
         \/ Carries(k) \/ Read(k) \/ Left(k) \/ Cut(k)
<1> USE DEF IInv
<1> DEFINE Case == \/ Quiet(k) \/ Moves(k) \/ Answered(k) \/ Forgets(k)
                   \/ Carries(k) \/ Read(k) \/ Left(k) \/ Cut(k)
<1>0. /\ DOMAIN recvmessage = Links /\ DOMAIN requests = Links
      /\ DOMAIN responses = Links /\ DOMAIN clientEnd = Links
      /\ DOMAIN serverEnd = Links
  BY DEF TypeOK, ServerTypes, LinkTypes
<1>1. CASE Serves
  <2>1. CASE Accept \/ AcceptFails
    BY <2>1 DEF Accept, AcceptFails, linkVars, Quiet
  <2>2. ASSUME NEW l \in Links, Recv(l) PROVE Case
    <3>1. l # k => Quiet(k)
      BY <1>0, <2>2 DEF Recv, Quiet
    <3>2. l = k => Moves(k)
      BY <1>0, <2>2 DEF Recv, Moves
    <3>3. QED
      BY <3>1, <3>2
  <2>3. ASSUME NEW l \in Links, RecvEnd(l) \/ Decoded(l) PROVE Case
    BY <2>3 DEF RecvEnd, Decoded, linkVars, Quiet
  <2>4. ASSUME NEW l \in Links, Replies(l) PROVE Case
    <3>1. l # k => Quiet(k)
      BY <1>0, <2>4 DEF Replies, Quiet
    <3>2. l = k => Answered(k)
      BY <1>0, <2>4 DEF Replies, Answered
    <3>3. QED
      BY <3>1, <3>2
  <2>5. ASSUME NEW l \in Links, Close(l) PROVE Case
    <3>1. l # k => Quiet(k)
      BY <1>0, <2>5 DEF Close, Quiet
    <3>2. l = k => Forgets(k)
      BY <1>0, <2>5 DEF Close, Forgets
    <3>3. QED
      BY <3>1, <3>2
  <2>6. ASSUME NEW how \in Deaths, Die(how) PROVE Case
    BY <2>6 DEF Die, Forgets
  <2>7. QED
    BY <1>1, <2>1, <2>2, <2>3, <2>4, <2>5, <2>6 DEF Serves
<1>2. ASSUME NEW c \in Clients, Client(c) PROVE Case
  <2>1. CASE Connect(c) \/ Process(c) \/ ReConnect(c) \/ DisConnect(c)
             \/ RecvFails(c) \/ Retry(c)
    BY <1>2, <2>1 DEF Client, Connect, Process, ReConnect, DisConnect,
                      RecvFails, Retry, linkVars, Quiet
  <2>2. CASE Send(c)
    <3>1. PICK req \in Asked, l \in Links :
            /\ l = Current(c) /\ l[1] = c
            /\ asked' = [asked EXCEPT ![c] = <<req>>]
            /\ req \in Requests
            /\ requests' = IF serverEnd[l] # "open" THEN requests
                           ELSE [requests EXCEPT ![l] = @ \o InParts(req)]
      BY <2>2, SendEffect
    <3>2. UNCHANGED <<recvmessage, responses, clientEnd>> /\ pc[c] = "send"
      BY <1>2, <2>2 DEF Client, Send
    <3>3. l # k \/ serverEnd[l] # "open" => Quiet(k)
      BY <1>0, <3>1, <3>2 DEF Quiet
    <3>4. asked'[c] = <<req>>
      BY <3>1 DEF TypeOK, ClientTypes
    <3>5. serverEnd[l] = "open" => pc'[c] = "recv"
      BY <2>2, <3>1 DEF Send, TypeOK, ClientTypes
    <3>6. l = k /\ serverEnd[l] = "open" => Carries(k)
      BY <1>0, <3>1, <3>2, <3>4, <3>5 DEF Carries
    <3>7. QED
      BY <3>3, <3>6
  <2>3. CASE RecvResponse(c)
    <3>1. PICK l \in Links : l = Current(c) /\ l[1] = c
      BY <2>3, LinkOf DEF RecvResponse, Ways
    <3>2. /\ UNCHANGED <<recvmessage, requests, clientEnd>> /\ pc[c] = "recv"
          /\ \E n \in 1..Len(responses[l]) :
               responses' = [responses EXCEPT ![l] = From(@, n + 1)]
      BY <1>2, <2>3, <3>1 DEF Client, RecvResponse
    <3>3. l # k => Quiet(k)
      BY <1>0, <3>2 DEF Quiet
    <3>4. ASSUME l = k PROVE Read(k)
      <4>1. PICK n \in 1..Len(responses[k]) :
              responses' = [responses EXCEPT ![k] = From(@, n + 1)]
        BY <3>2, <3>4
      <4>2. responses'[k] = From(responses[k], n + 1)
        BY <1>0, <4>1
      <4>3. pc'[c] \in {"send", "exit"}
        BY <2>3 DEF RecvResponse, TypeOK, ClientTypes
      <4>4. QED
        BY <3>1, <3>2, <3>4, <4>2, <4>3 DEF Read
    <3>5. QED
      BY <3>3, <3>4
  <2>4. QED
    BY <1>2, <2>1, <2>2, <2>3 DEF Client, Run
<1>3. ASSUME NEW c \in Clients, Interrupt(c) PROVE Case
  BY <1>3 DEF Interrupt, serverVars, linkVars, Quiet
<1>4. ASSUME NEW c \in Clients, Exit(c) PROVE Case
  <2>1. /\ UNCHANGED <<recvmessage, requests, responses>>
        /\ pc' = [pc EXCEPT ![c] = "gone"]
        /\ clientEnd'[k] =
             IF k[1] # c \/ k[2] > link[c] \/ clientEnd[k] # "open"
             THEN clientEnd[k]
             ELSE IF responses[k] # <<>> THEN "rst" ELSE "fin"
    BY <1>4 DEF Exit, serverVars
  <2>2. pc'[c] = "gone" /\ k[2] \in Nat /\ link[c] \in Nat
    BY <2>1, LinkOf DEF TypeOK, ClientTypes
  <2>3. QED
    BY <2>1, <2>2 DEF Quiet, Left
<1>5. ASSUME NEW l \in Links, Reset(l) PROVE Case
  <2>1. l # k => Quiet(k)
    BY <1>0, <1>5 DEF Reset, serverVars, Quiet
  <2>2. l = k => Cut(k)
    BY <1>0, <1>5 DEF Reset, serverVars, Cut
  <2>3. QED
    BY <2>1, <2>2
<1>6. CASE Restart
  BY <1>6 DEF Restart, linkVars, Quiet
<1>7. QED
  BY <1>1, <1>2, <1>3, <1>4, <1>5, <1>6, NextCases

(* A step that is not a client's leaves what the client knows alone.       *)
Away(c) == UNCHANGED <<status[c], pc[c], cnt[c], link[c], asked[c], shown[c],
                       torn[c]>>

(* Every step is a client's own, or leaves it alone.                       *)
LEMMA ClientCases ==
  ASSUME IInv, Next, NEW c \in Clients
  PROVE  Away(c) \/ Client(c) \/ Interrupt(c) \/ Exit(c)
<1> USE DEF IInv
<1>0. /\ DOMAIN status = Clients /\ DOMAIN pc = Clients /\ DOMAIN cnt = Clients
      /\ DOMAIN link = Clients /\ DOMAIN asked = Clients
      /\ DOMAIN shown = Clients /\ DOMAIN torn = Clients
  BY DEF TypeOK, ClientTypes
<1>1. CASE Serves
  BY <1>1 DEF Serves, clientVars, Away
<1>2. ASSUME NEW d \in Clients, d # c, Client(d) PROVE Away(c)
  <2>1. CASE Connect(d)
    BY <1>0, <1>2, <2>1 DEF Connect, Connected, Refused, Away
  <2>2. CASE Process(d) \/ ReConnect(d) \/ DisConnect(d) \/ RecvFails(d)
    BY <1>0, <1>2, <2>2 DEF Process, ReConnect, DisConnect, RecvFails, Away
  <2>3. CASE Send(d)
    BY <1>0, <1>2, <2>3 DEF Send, Away
  <2>4. CASE RecvResponse(d)
    BY <1>0, <1>2, <2>4 DEF RecvResponse, Away
  <2>5. CASE Retry(d)
    BY <1>0, <1>2, <2>5 DEF Retry, Connected, Refused, Away
  <2>6. QED
    BY <1>2, <2>1, <2>2, <2>3, <2>4, <2>5 DEF Client, Run
<1>3. ASSUME NEW d \in Clients, d # c, Interrupt(d) \/ Exit(d) PROVE Away(c)
  BY <1>0, <1>3 DEF Interrupt, Exit, Away
<1>4. ASSUME NEW l \in Links, Reset(l) PROVE Away(c)
  BY <1>4 DEF Reset, clientVars, Away
<1>5. CASE Restart
  BY <1>5 DEF Restart, clientVars, Away
<1>6. QED
  BY <1>1, <1>2, <1>3, <1>4, <1>5, NextCases
(* What only goes one way: ends of links, connections, torn responses.     *)
LEMMA OneWay ==
  ASSUME IInv, Next
  PROVE  /\ \A k \in Links :
              /\ serverEnd[k] # "open" => serverEnd'[k] # "open"
              /\ clientEnd[k] # "open" => clientEnd'[k] # "open"
         /\ \A c \in Clients :
              /\ link'[c] = link[c] \/ link'[c] = link[c] + 1
              /\ torn[c] => torn'[c]
              /\ pc[c] = "gone" => pc'[c] = "gone"
<1>1. ASSUME NEW k \in Links, serverEnd[k] # "open"
      PROVE  serverEnd'[k] # "open"
  <2>0. serverEnd \in [Links -> {"open", "fin", "rst", "finrst"}]
    BY DEF IInv, TypeOK, LinkTypes
  <2>1. CASE Serves
    <3>1. ASSUME NEW how \in Deaths, Die(how) PROVE serverEnd'[k] # "open"
      BY <1>1, <3>1 DEF Die
    <3>2. ASSUME NEW l \in Links, Close(l) PROVE serverEnd'[k] # "open"
      BY <1>1, <2>0, <3>2 DEF Close
    <3>3. QED
      BY <1>1, <2>1, <3>1, <3>2
      DEF Serves, Accept, AcceptFails, Recv, RecvEnd, Decoded, Replies, linkVars
  <2>2. ASSUME NEW c \in Clients, Client(c) PROVE serverEnd'[k] # "open"
    <3>1. CASE Send(c)
      BY <1>1, <2>0, <3>1 DEF Send
    <3>2. QED
      BY <1>1, <2>2, <3>1
      DEF Client, Run, Connect, Process, ReConnect, DisConnect, RecvResponse,
          RecvFails, Retry, linkVars
  <2>3. ASSUME NEW c \in Clients, Interrupt(c) \/ Exit(c)
        PROVE  serverEnd'[k] # "open"
    BY <1>1, <2>3 DEF Interrupt, Exit, linkVars
  <2>4. ASSUME NEW l \in Links, Reset(l) PROVE serverEnd'[k] # "open"
    BY <1>1, <2>0, <2>4 DEF Reset
  <2>5. CASE Restart
    BY <1>1, <2>5 DEF Restart, linkVars
  <2>6. QED
    BY <2>1, <2>2, <2>3, <2>4, <2>5, NextCases
<1>2. ASSUME NEW k \in Links, clientEnd[k] # "open"
      PROVE  clientEnd'[k] # "open"
  BY <1>2, LinkCases
  DEF Quiet, Moves, Answered, Forgets, Carries, Read, Left, Cut
<1>3. ASSUME NEW c \in Clients
      PROVE  /\ link'[c] = link[c] \/ link'[c] = link[c] + 1
             /\ torn[c] => torn'[c]
             /\ pc[c] = "gone" => pc'[c] = "gone"
  <2>0. /\ link \in [Clients -> Nat] /\ torn \in [Clients -> BOOLEAN]
        /\ DOMAIN pc = Clients
    <3>1. DOMAIN link = Clients /\ \A d \in Clients : link[d] \in Nat
      BY LinkOf DEF IInv, TypeOK, ClientTypes
    <3>2. link \in [Clients -> Nat]
      BY <3>1 DEF IInv, TypeOK, ClientTypes
    <3>3. QED
      BY <3>2 DEF IInv, TypeOK, ClientTypes
  <2>1. CASE Away(c)
    BY <2>1 DEF Away
  <2>2. CASE Client(c)
    <3>1. CASE Connect(c)
      BY <2>0, <3>1 DEF Connect, Connected, Refused
    <3>2. CASE Process(c) \/ ReConnect(c) \/ DisConnect(c) \/ RecvFails(c)
      BY <2>0, <3>2 DEF Process, ReConnect, DisConnect, RecvFails
    <3>3. CASE Send(c)
      BY <2>0, <3>3 DEF Send
    <3>4. CASE RecvResponse(c)
      <4>1. \E b \in BOOLEAN : torn' = [torn EXCEPT ![c] = @ \/ b]
        BY <3>4 DEF RecvResponse
      <4>2. UNCHANGED link /\ pc[c] # "gone"
        BY <3>4 DEF RecvResponse
      <4>3. QED
        BY <2>0, <4>1, <4>2
    <3>5. CASE Retry(c)
      BY <2>0, <3>5 DEF Retry, Connected, Refused
    <3>6. QED
      BY <2>2, <3>1, <3>2, <3>3, <3>4, <3>5 DEF Client, Run
  <2>3. CASE Interrupt(c) \/ Exit(c)
    BY <2>0, <2>3 DEF Interrupt, Exit
  <2>4. QED
    BY <2>1, <2>2, <2>3, ClientCases
<1>4. QED
  BY <1>1, <1>2, <1>3

(* The parts a link holds, counted.                                        *)
LEMMA Lengths ==
  ASSUME TypeOK, NEW k \in Links
  PROVE  /\ {recvmessage[k], requests[k]} \subseteq Seq(Parts(Requests))
         /\ responses[k] \in Seq(Parts(Responses))
         /\ Len(recvmessage[k]) \in Nat /\ Len(requests[k]) \in Nat
         /\ Len(responses[k]) \in Nat
         /\ recvmessage[k] = <<>> <=> Len(recvmessage[k]) = 0
         /\ requests[k] = <<>> <=> Len(requests[k]) = 0
         /\ responses[k] = <<>> <=> Len(responses[k]) = 0
         /\ Packages(recvmessage[k]) # <<>> => Len(recvmessage[k]) >= 2
         /\ Held(k) = Len(recvmessage[k]) + Len(requests[k])
<1>1. /\ recvmessage[k] \in Seq(Parts(Requests))
      /\ requests[k] \in Seq(Parts(Requests))
      /\ responses[k] \in Seq(Parts(Responses))
  BY DEF TypeOK, ServerTypes, LinkTypes
<1>2. /\ Len(recvmessage[k]) \in Nat /\ Len(requests[k]) \in Nat
      /\ Len(responses[k]) \in Nat
  BY <1>1, LenProperties
<1>3. /\ recvmessage[k] = <<>> <=> Len(recvmessage[k]) = 0
      /\ requests[k] = <<>> <=> Len(requests[k]) = 0
      /\ responses[k] = <<>> <=> Len(responses[k]) = 0
  BY <1>1, EmptySeq
<1>4. Packages(recvmessage[k]) # <<>> => Len(recvmessage[k]) >= 2
  BY <1>1, PackagesOf
<1>5. QED
  BY <1>1, <1>2, <1>3, <1>4 DEF Held

(* No client ends the server: the thread that has met a client who left    *)
(* holds no other request.                                                 *)
LEMMA SurvivesStep ==
  ASSUME IInv, Next
  PROVE  SurvivesClients'
<1> SUFFICES ASSUME \A c \in Clients : ~torn'[c] PROVE server' # "pipe"
  BY DEF SurvivesClients
<1>1. server # "pipe" /\ \A k \in Links : Light(k) /\ ~torn[k[1]]
  <2>1. \A c \in Clients : ~torn[c]
    BY OneWay
  <2>2. QED
    BY <2>1, LinkOf DEF IInv, SurvivesClients
<1>2. ASSUME NEW k \in Links PROVE ~Piped(k)
  <2>1. /\ Packages(recvmessage[k]) # <<>> => Len(recvmessage[k]) >= 2
        /\ Len(recvmessage[k]) \in Nat /\ Len(requests[k]) \in Nat
        /\ Held(k) = Len(recvmessage[k]) + Len(requests[k])
    BY Lengths DEF IInv
  <2>2. PICK r \in Nat, q \in Nat :
          /\ r = Len(recvmessage[k]) /\ q = Len(requests[k])
          /\ Held(k) = r + q /\ (Packages(recvmessage[k]) # <<>> => r >= 2)
    BY <2>1
  <2>3. clientEnd[k] = "finrst" => r + q < 2
    BY <1>1, <2>2 DEF Light
  <2>4. ~(r >= 2 /\ r + q < 2)
    OBVIOUS
  <2>5. QED
    BY <2>2, <2>3, <2>4 DEF Piped
<1>3. CASE Serves
  <2>1. ASSUME NEW how \in Deaths, Die(how),
               how = "pipe" => \E k \in Links : Piped(k)
        PROVE  server' # "pipe"
    BY <1>2, <2>1 DEF Die
  <2>2. QED
    BY <1>1, <1>3, <2>1
    DEF Serves, Accept, AcceptFails, Recv, RecvEnd, Decoded, Replies, Close
<1>4. ASSUME NEW c \in Clients, Client(c) \/ Interrupt(c) \/ Exit(c)
      PROVE  server' # "pipe"
  BY <1>1, <1>4 DEF Client, Interrupt, Exit, serverVars
<1>5. ASSUME NEW k \in Links, Reset(k) PROVE server' # "pipe"
  BY <1>1, <1>5 DEF Reset, serverVars
<1>6. CASE Restart
  BY <1>6 DEF Restart
<1>7. QED
  BY <1>3, <1>4, <1>5, <1>6, NextCases

(* How a client's side of a link ends.                                     *)
LEMMA EndsStep ==
  ASSUME IInv, Next, NEW k \in Links
  PROVE  Ends(k)'
<1>0. k[1] \in Clients
  BY LinkOf DEF IInv
<1>1. clientEnd'[k] # "open" => pc'[k[1]] = "gone" \/ serverEnd'[k] # "open"
  <2>1. clientEnd[k] # "open" => pc'[k[1]] = "gone" \/ serverEnd'[k] # "open"
    BY <1>0, OneWay DEF IInv, Ends
  <2>2. QED
    BY <2>1, LinkCases
    DEF Quiet, Moves, Answered, Forgets, Carries, Read, Left, Cut
<1>2. thread'[k] = "close" => clientEnd'[k] # "open"
  <2>1. thread'[k] = "close" => thread[k] = "close" \/ clientEnd[k] # "open"
    <3>0. DOMAIN thread = Links
      BY DEF IInv, TypeOK, ServerTypes
    <3>1. CASE Serves
      <4>1. CASE Accept
        <5>1. Head(backlog) \in Links
          BY <4>1, HeadTailProperties DEF Accept, IInv, TypeOK, ServerTypes
        <5>2. QED
          BY <3>0, <4>1, <5>1 DEF Accept
      <4>2. ASSUME NEW l \in Links,
                   Recv(l) \/ RecvEnd(l) \/ Decoded(l) \/ Close(l)
            PROVE  thread'[k] = "close"
                     => thread[k] = "close" \/ clientEnd[k] # "open"
        BY <3>0, <4>2 DEF Recv, RecvEnd, Decoded, Close
      <4>3. ASSUME NEW how \in Deaths, Die(how)
            PROVE  thread'[k] # "close"
        BY <4>3 DEF Die
      <4>4. QED
        BY <3>1, <4>1, <4>2, <4>3 DEF Serves, AcceptFails, Replies
    <3>2. ASSUME NEW c \in Clients, Client(c) \/ Interrupt(c) \/ Exit(c)
          PROVE  UNCHANGED thread
      BY <3>2 DEF Client, Interrupt, Exit, serverVars
    <3>3. ASSUME NEW l \in Links, Reset(l) PROVE UNCHANGED thread
      BY <3>3 DEF Reset, serverVars
    <3>4. CASE Restart
      BY <3>4 DEF Restart
    <3>5. QED
      BY <3>1, <3>2, <3>3, <3>4, NextCases
  <2>2. QED
    BY <2>1, OneWay DEF IInv, Ends
<1>3. QED
  BY <1>1, <1>2 DEF Ends
(* What accept() takes, or a connection adds, is all that changes in the   *)
(* queue.                                                                  *)
LEMMA QueueSteps ==
  ASSUME TypeOK
  PROVE  /\ backlog # <<>> =>
              /\ Head(backlog) \in Queued
              /\ \A i \in DOMAIN Tail(backlog) : Tail(backlog)[i] \in Queued
         /\ \A k \in Links :
              \A i \in DOMAIN Append(backlog, k) :
                Append(backlog, k)[i] \in Queued \cup {k}
<1>1. backlog \in Seq(Links)
  BY DEF TypeOK, ServerTypes
<1>2. ASSUME backlog # <<>>
      PROVE  /\ Head(backlog) \in Queued
             /\ \A i \in DOMAIN Tail(backlog) : Tail(backlog)[i] \in Queued
  <2>1. /\ Len(backlog) \in Nat \ {0} /\ DOMAIN backlog = 1..Len(backlog)
        /\ Head(backlog) = backlog[1]
        /\ Len(Tail(backlog)) = Len(backlog) - 1
        /\ DOMAIN Tail(backlog) = 1..Len(Tail(backlog))
        /\ \A i \in 1..Len(Tail(backlog)) : Tail(backlog)[i] = backlog[i + 1]
    BY <1>1, <1>2, HeadTailProperties, EmptySeq, LenProperties
  <2>2. \A i \in 1..Len(Tail(backlog)) : i + 1 \in DOMAIN backlog
    BY <2>1
  <2>3. 1 \in DOMAIN backlog
    BY <2>1
  <2>4. QED
    BY <2>1, <2>2, <2>3 DEF Queued
<1>3. ASSUME NEW k \in Links, NEW i \in DOMAIN Append(backlog, k)
      PROVE  Append(backlog, k)[i] \in Queued \cup {k}
  <2>1. /\ DOMAIN Append(backlog, k) = 1..(Len(backlog) + 1)
        /\ Append(backlog, k)[Len(backlog) + 1] = k
        /\ \A j \in 1..Len(backlog) : Append(backlog, k)[j] = backlog[j]
        /\ DOMAIN backlog = 1..Len(backlog) /\ Len(backlog) \in Nat
    BY <1>1, AppendProperties, LenProperties
  <2>2. i \in DOMAIN backlog \/ i = Len(backlog) + 1
    BY <2>1
  <2>3. QED
    BY <2>1, <2>2 DEF Queued
<1>4. QED
  BY <1>2, <1>3

(* Nothing has happened on a link before its client connects.              *)
LEMMA UntouchedStep ==
  ASSUME IInv, Next, NEW k \in Links
  PROVE  Untouched(k)'
<1> DEFINE c == k[1]
<1>0. /\ c \in Clients /\ k[2] \in Nat /\ link[c] \in Nat /\ TypeOK
      /\ \A d \in Clients : Ways(d) /\ Room(d)
      /\ \A l \in Links : Untouched(l)
  BY LinkOf DEF IInv
<1>1. SUFFICES ASSUME k[2] > link'[c]
      PROVE  /\ Still(k)' /\ clientEnd'[k] = "open"
             /\ thread'[k] = "none" /\ k \notin Queued'
             /\ serverEnd'[k] = "open"
  BY DEF Untouched
<1>2. k[2] > link[c]
  BY <1>0, <1>1, OneWay
<1>3. /\ Still(k) /\ thread[k] = "none" /\ k \notin Queued
      /\ clientEnd[k] = "open" /\ serverEnd[k] = "open"
  BY <1>0, <1>2 DEF Untouched
<1>4. Still(k)' /\ clientEnd'[k] = "open"
  <2>1. ~Moves(k) /\ ~Answered(k)
    BY <1>3 DEF Moves, Answered
  <2>2. ~Carries(k) /\ ~Read(k)
    BY <1>0, <1>2, LinkOf DEF Carries, Read
  <2>3. ~Left(k) /\ ~Cut(k)
    BY <1>0, <1>2 DEF Left, Cut
  <2>4. QED
    BY <1>3, <2>1, <2>2, <2>3, LinkCases DEF Quiet, Forgets, Still
<1>5. thread'[k] = "none" /\ k \notin Queued' /\ serverEnd'[k] = "open"
  <2>0. /\ DOMAIN thread = Links /\ DOMAIN serverEnd = Links
    BY <1>0 DEF TypeOK, ServerTypes, LinkTypes
  <2> DEFINE Goal ==
        thread'[k] = "none" /\ k \notin Queued' /\ serverEnd'[k] = "open"
  <2>1. CASE Serves
    <3>1. CASE Accept
      <4>1. /\ \A i \in DOMAIN Tail(backlog) : Tail(backlog)[i] \in Queued
            /\ Head(backlog) \in Queued
        BY <1>0, <3>1, QueueSteps DEF Accept
      <4>2. k \notin Queued'
        BY <1>3, <3>1, <4>1 DEF Accept, Queued
      <4>3. thread'[k] = "none"
        BY <1>3, <2>0, <3>1, <4>1 DEF Accept
      <4>4. QED
        BY <1>3, <3>1, <4>2, <4>3 DEF Accept, linkVars
    <3>2. CASE AcceptFails
      BY <1>3, <3>2 DEF AcceptFails, linkVars, Queued
    <3>3. ASSUME NEW l \in Links,
                 Recv(l) \/ RecvEnd(l) \/ Decoded(l) \/ Replies(l) \/ Close(l)
          PROVE  Goal
      <4>1. l # k
        BY <1>3, <3>3 DEF Recv, RecvEnd, Decoded, Replies, Close
      <4>2. CASE Recv(l) \/ RecvEnd(l) \/ Decoded(l) \/ Replies(l)
        BY <1>3, <2>0, <4>1, <4>2
        DEF Recv, RecvEnd, Decoded, Replies, linkVars, Queued
      <4>3. CASE Close(l)
        BY <1>3, <2>0, <4>1, <4>3 DEF Close, Queued
      <4>4. QED
        BY <3>3, <4>2, <4>3
    <3>4. ASSUME NEW how \in Deaths, Die(how) PROVE Goal
      <4>1. /\ backlog' = <<>> /\ thread'[k] = "none"
            /\ serverEnd'[k] = "open"
        BY <1>3, <3>4 DEF Die, Still
      <4>2. QED
        BY <4>1, EmptySeq DEF Queued
    <3>5. QED
      BY <2>1, <3>1, <3>2, <3>3, <3>4 DEF Serves
  <2>2. ASSUME NEW d \in Clients, Client(d) PROVE Goal
    <3>1. thread'[k] = "none"
      BY <1>3, <2>2 DEF Client
    <3>2. ASSUME Connected(d), Between(d), pc[d] # "gone"
          PROVE  k \notin Queued'
      <4>1. /\ link' = [link EXCEPT ![d] = @ + 1]
            /\ backlog' = Append(backlog, <<d, link[d] + 1>>)
            /\ <<d, link[d] + 1>> \in Links
        BY <1>0, <3>2, ConnectedEffect
      <4>2. k # <<d, link[d] + 1>>
        <5>1. d = c => link'[c] = link[c] + 1
          BY <1>0, <4>1 DEF TypeOK, ClientTypes
        <5>2. QED
          BY <1>0, <1>1, <5>1
      <4>3. QED
        BY <1>0, <1>3, <4>1, <4>2, QueueSteps DEF Queued
    <3>3. CASE Connect(d)
      <4>1. Between(d) /\ pc[d] # "gone"
        BY <1>0, <3>3 DEF Connect, Ways, Between
      <4>2. k \notin Queued'
        BY <1>3, <3>2, <3>3, <4>1 DEF Connect, Refused, Queued
      <4>3. QED
        BY <1>3, <3>1, <3>3, <4>2 DEF Connect, linkVars
    <3>4. CASE Retry(d)
      <4>1. Between(d) /\ pc[d] # "gone"
        BY <1>0, <3>4 DEF Retry, Ways
      <4>2. k \notin Queued'
        BY <1>3, <3>2, <3>4, <4>1 DEF Retry, Refused, Queued
      <4>3. QED
        BY <1>3, <3>1, <3>4, <4>2 DEF Retry, linkVars
    <3>5. CASE Send(d)
      BY <1>3, <2>0, <3>1, <3>5 DEF Send, Queued
    <3>6. QED
      BY <1>3, <2>2, <3>1, <3>3, <3>4, <3>5
      DEF Client, Run, Process, ReConnect, DisConnect, RecvResponse, RecvFails,
          linkVars, Queued
  <2>3. ASSUME NEW d \in Clients, Interrupt(d) \/ Exit(d) PROVE Goal
    BY <1>3, <2>3 DEF Interrupt, Exit, serverVars, linkVars, Queued
  <2>4. ASSUME NEW l \in Links, Reset(l) PROVE Goal
    <3>1. l # k
      BY <1>0, <1>2, <2>4 DEF Reset
    <3>2. QED
      BY <1>3, <2>0, <2>4, <3>1 DEF Reset, serverVars, Queued
  <2>5. CASE Restart
    BY <1>3, <2>5 DEF Restart, linkVars, Queued
  <2>6. QED
    BY <2>1, <2>2, <2>3, <2>4, <2>5, NextCases
<1>6. QED
  BY <1>4, <1>5
(* What Light says in numbers: parts at the server, on their way there and *)
(* back.                                                                   *)
Slim(r, q, p, how) ==
  /\ r + q <= 2 /\ p <= 2
  /\ p # 0 => r = 0 /\ q = 0
  /\ how = "finrst" => r + q < 2

(* While no response has been torn a link carries one frame.               *)
LEMMA LightStep ==
  ASSUME IInv, Next, NEW k \in Links
  PROVE  Light(k)'
<1>0. /\ k[1] \in Clients /\ TypeOK /\ TypeOK'
  BY LinkOf, TypesStep DEF IInv
<1>1. SUFFICES ASSUME ~torn'[k[1]] PROVE Light(k)'
  BY DEF Light
<1>2. ~torn[k[1]]
  BY <1>0, <1>1, OneWay
<1>3. /\ recvmessage[k] \in Seq(Parts(Requests))
      /\ requests[k] \in Seq(Parts(Requests))
      /\ responses[k] \in Seq(Parts(Responses))
  BY <1>0, Lengths
<1>4. PICK r \in Nat, q \in Nat, p \in Nat :
        /\ r = Len(recvmessage[k]) /\ q = Len(requests[k])
        /\ p = Len(responses[k])
        /\ recvmessage[k] = <<>> <=> r = 0
        /\ requests[k] = <<>> <=> q = 0
        /\ responses[k] = <<>> <=> p = 0
        /\ Packages(recvmessage[k]) # <<>> => r >= 2
        /\ Held(k) = r + q
  BY <1>0, Lengths
<1>5. Slim(r, q, p, clientEnd[k])
  BY <1>2, <1>4 DEF IInv, Light, Slim
<1>6. ASSUME NEW r1 \in Nat, NEW q1 \in Nat, NEW p1 \in Nat,
             r1 = Len(recvmessage'[k]), q1 = Len(requests'[k]),
             p1 = Len(responses'[k]), Slim(r1, q1, p1, clientEnd'[k])
      PROVE  Light(k)'
  <2>1. /\ recvmessage'[k] \in Seq(Parts(Requests))
        /\ requests'[k] \in Seq(Parts(Requests))
        /\ responses'[k] \in Seq(Parts(Responses))
    BY <1>0 DEF TypeOK, ServerTypes, LinkTypes
  <2>2. /\ recvmessage'[k] = <<>> <=> r1 = 0
        /\ requests'[k] = <<>> <=> q1 = 0
        /\ responses'[k] = <<>> <=> p1 = 0
    BY <1>6, <2>1, EmptySeq
  <2>3. Held(k)' = r1 + q1
    BY <1>6 DEF Held
  <2>4. QED
    BY <1>6, <2>2, <2>3 DEF Light, Slim
<1>7. CASE Quiet(k)
  <2>1. /\ Len(recvmessage'[k]) = r /\ Len(requests'[k]) = q
        /\ Len(responses'[k]) = p /\ clientEnd'[k] = clientEnd[k]
    BY <1>4, <1>7 DEF Quiet
  <2>2. QED
    BY <1>5, <1>6, <2>1
<1>8. CASE Moves(k)
  <2>1. PICK n \in 1..Len(requests[k]) :
          /\ recvmessage'[k] = Keep(recvmessage[k], SubSeq(requests[k], 1, n))
          /\ requests'[k] = From(requests[k], n + 1)
    BY <1>8 DEF Moves
  <2>2. n \in 1..q /\ n \in 0..Len(requests[k])
    BY <1>4, <2>1
  <2>3. /\ SubSeq(requests[k], 1, n) \in Seq(Parts(Requests))
        /\ Len(SubSeq(requests[k], 1, n)) = n
    BY <1>3, <2>2, FrontOf
  <2>4. Len(requests'[k]) = Len(requests[k]) - n
    BY <1>3, <2>1, <2>2, RestOf
  <2>5. Len(recvmessage'[k])
          = Len(recvmessage[k]) + Len(SubSeq(requests[k], 1, n))
    BY <1>3, <2>1, <2>3, KeptWith
  <2>6. PICK r1 \in Nat, q1 \in Nat : r1 = r + n /\ q1 = q - n
    BY <2>2
  <2>7. Len(recvmessage'[k]) = r1 /\ Len(requests'[k]) = q1
    BY <1>4, <2>3, <2>4, <2>5, <2>6
  <2>8. Len(responses'[k]) = p /\ clientEnd'[k] = clientEnd[k]
    BY <1>4, <1>8 DEF Moves
  <2>9. Slim(r1, q1, p, clientEnd[k])
    BY <1>5, <2>2, <2>6 DEF Slim
  <2>10. QED
    BY <1>6, <2>7, <2>8, <2>9
<1>9. CASE Answered(k)
  <2>1. r >= 2
    BY <1>4, <1>9 DEF Answered
  <2>2. r = 2 /\ q = 0 /\ p = 0
    BY <1>5, <2>1 DEF Slim
  <2>3. Len(recvmessage'[k]) = 0 /\ Len(requests'[k]) = 0
    <3>1. 2 \in 0..Len(recvmessage[k]) /\ 2 + 1 = 3
      BY <1>4, <2>2
    <3>2. Len(From(recvmessage[k], 3)) = Len(recvmessage[k]) - 2
      BY <1>3, <3>1, RestOf
    <3>3. QED
      BY <1>4, <1>9, <2>2, <3>2 DEF Answered
  <2>4. PICK p1 \in Nat : p1 = Len(responses'[k]) /\ p1 <= 2
    <3>1. CASE responses'[k] = responses[k]
      BY <1>4, <2>2, <3>1
    <3>2. CASE responses'[k]
                 = responses[k] \o InParts(Execute(Packages(recvmessage[k])[1]))
      <4>1. Packages(recvmessage[k])[1] \in Requests
        BY <1>3, <1>4, <2>1, PackagesOf
      <4>2. PICK res \in Responses : res = Execute(Packages(recvmessage[k])[1])
        BY <1>9, <4>1, ExecuteAnswers DEF Answered
      <4>3. InParts(res) \in Seq(Parts(Responses)) /\ Len(InParts(res)) = 2
        BY EncodedData
      <4>4. responses'[k] = responses[k] \o InParts(res)
        BY <3>2, <4>2
      <4>5. Len(responses'[k]) = Len(responses[k]) + Len(InParts(res))
        BY ZenonT(30), <1>3, <4>3, <4>4, ConcatProperties
      <4>6. QED
        BY <1>4, <2>2, <4>3, <4>5
    <3>3. QED
      BY <1>9, <3>1, <3>2 DEF Answered
  <2>5. Slim(0, 0, p1, clientEnd'[k])
    BY <2>4 DEF Slim
  <2>6. QED
    BY <1>6, <2>3, <2>4, <2>5
<1>10. CASE Forgets(k)
  <2>1. Len(recvmessage'[k]) = 0
    BY <1>10, EmptySeq DEF Forgets
  <2>2. UNCHANGED <<requests[k], responses[k], clientEnd[k]>>
    BY <1>10 DEF Forgets
  <2>3. Slim(0, q, p, clientEnd[k])
    BY <1>5 DEF Slim
  <2>4. /\ Len(requests'[k]) = q /\ Len(responses'[k]) = p
        /\ clientEnd'[k] = clientEnd[k]
    BY <1>4, <2>2
  <2>5. QED
    BY <1>6, <2>1, <2>3, <2>4
<1>11. CASE Carries(k)
  <2>1. r = 0 /\ q = 0 /\ p = 0
    <3>1. Still(k)
      BY <1>0, <1>2, <1>11 DEF Carries, IInv, Turn, Free
    <3>2. QED
      BY <1>4, <3>1 DEF Still
  <2>2. clientEnd'[k] = "open"
    BY <1>11 DEF Carries, IInv, Ends
  <2>3. Len(requests'[k]) = 2
    <3>1. PICK req \in Requests : requests'[k] = requests[k] \o InParts(req)
      BY <1>11 DEF Carries
    <3>2. InParts(req) \in Seq(Parts(Requests)) /\ Len(InParts(req)) = 2
      BY EncodedData
    <3>3. Len(requests'[k]) = Len(requests[k]) + Len(InParts(req))
      BY ZenonT(30), <1>3, <3>1, <3>2, ConcatProperties
    <3>4. QED
      BY <1>4, <2>1, <3>2, <3>3
  <2>4. Len(recvmessage'[k]) = 0 /\ Len(responses'[k]) = 0
    BY <1>4, <1>11, <2>1 DEF Carries
  <2>5. Slim(0, 2, 0, clientEnd'[k])
    BY <2>2 DEF Slim
  <2>6. QED
    BY <1>6, <2>3, <2>4, <2>5
<1>12. CASE Read(k)
  <2>1. PICK n \in 1..Len(responses[k]) :
          responses'[k] = From(responses[k], n + 1)
    BY <1>12 DEF Read
  <2>2. n \in 1..p /\ n \in 0..Len(responses[k])
    BY <1>4, <2>1
  <2>3. Len(responses'[k]) = Len(responses[k]) - n
    BY <1>3, <2>1, <2>2, RestOf
  <2>4. PICK p1 \in Nat : p1 = p - n /\ p1 = Len(responses'[k])
    <3>1. p - n \in Nat
      BY <2>2
    <3>2. Len(responses'[k]) = p - n
      BY <1>4, <2>3
    <3>3. QED
      BY <3>1, <3>2
  <2>5. r = 0 /\ q = 0
    BY <1>5, <2>2 DEF Slim
  <2>6. Len(recvmessage'[k]) = 0 /\ Len(requests'[k]) = 0
    BY <1>4, <1>12, <2>5 DEF Read
  <2>7. Slim(0, 0, p1, clientEnd'[k])
    BY <1>5, <2>2, <2>4 DEF Slim
  <2>8. QED
    BY <1>6, <2>4, <2>6, <2>7
<1>13. CASE Left(k)
  <2>1. /\ Len(recvmessage'[k]) = r /\ Len(requests'[k]) = q
        /\ Len(responses'[k]) = p /\ clientEnd'[k] # "finrst"
    BY <1>4, <1>13 DEF Left
  <2>2. Slim(r, q, p, clientEnd'[k])
    BY <1>5, <2>1 DEF Slim
  <2>3. QED
    BY <1>6, <2>1, <2>2
<1>14. CASE Cut(k)
  <2>1. PICK n \in 0..Len(requests[k]), m \in 0..Len(responses[k]) :
          /\ requests'[k] = SubSeq(requests[k], 1, n)
          /\ responses'[k] = SubSeq(responses[k], 1, m)
    BY <1>14 DEF Cut
  <2>2. Len(requests'[k]) = n /\ Len(responses'[k]) = m
    BY <1>3, <2>1, FrontOf
  <2>3. Len(recvmessage'[k]) = r /\ clientEnd'[k] = "rst"
    BY <1>4, <1>14 DEF Cut
  <2>4. PICK q1 \in 0..q, p1 \in 0..p : q1 = n /\ p1 = m
    BY <1>4, <2>1
  <2>5. Slim(r, q1, p1, clientEnd'[k])
    BY <1>5, <2>3, <2>4 DEF Slim
  <2>6. QED
    BY <1>6, <2>2, <2>3, <2>4, <2>5
<1>15. QED
  BY <1>7, <1>8, <1>9, <1>10, <1>11, <1>12, <1>13, <1>14, LinkCases

(* What leads a client from one status to the next.                        *)
LEMMA WaysStep ==
  ASSUME IInv, Next, NEW c \in Clients
  PROVE  Ways(c)'
<1>0. /\ Ways(c) /\ TypeOK /\ RetryMax \in Nat \ {0} /\ link[c] \in Nat
      /\ DOMAIN status = Clients /\ DOMAIN pc = Clients /\ DOMAIN cnt = Clients
      /\ DOMAIN link = Clients
  BY LinkOf, SessionAssumption DEF IInv, TypeOK, ClientTypes
<1>1. Between(c) /\ link'[c] = link[c] => Between(c)'
  <2>1. link[c] # 0 => Current(c) \in Links
    BY <1>0, LinkOf
  <2>2. link'[c] = link[c] => Current(c)' = Current(c)
    BY DEF Current
  <2>3. QED
    BY <2>1, <2>2, OneWay DEF Between
<1>2. CASE Away(c)
  BY <1>0, <1>1, <1>2 DEF Away, Ways
<1>3. CASE Connect(c)
  <2>1. CASE Connected(c)
    <3>1. /\ status'[c] = "CONNECTED" /\ pc'[c] = "execute"
          /\ link'[c] = link[c] + 1
      BY <1>0, <1>3, <2>1 DEF Connect, Connected, Refused
    <3>2. QED
      BY <1>0, <3>1 DEF Ways
  <2>2. CASE Refused
    <3>1. /\ status'[c] = "DISCONNECTED" /\ pc'[c] = "execute"
          /\ link'[c] = link[c] /\ link[c] = 0
      BY <1>0, <1>3, <2>2 DEF Connect, Connected, Refused, Ways
    <3>2. QED
      BY <1>1, <3>1 DEF Ways, Between
  <2>3. QED
    BY <1>3, <2>1, <2>2 DEF Connect
<1>4. CASE Process(c) \/ DisConnect(c) \/ Interrupt(c) \/ Exit(c)
  BY <1>0, <1>1, <1>4 DEF Process, DisConnect, Interrupt, Exit, Ways
<1>5. CASE ReConnect(c)
  <2>1. /\ status'[c] = "CONNECTING" /\ pc'[c] = "retry" /\ cnt'[c] = 1
        /\ link'[c] = link[c] /\ Between(c)
    BY <1>0, <1>5 DEF ReConnect, Ways
  <2>2. QED
    BY <1>0, <1>1, <2>1 DEF Ways
<1>6. CASE Send(c)
  <2>1. /\ link' = link /\ status[c] = "CONNECTED" /\ link[c] # 0
    BY <1>0, <1>6 DEF Send, Ways
  <2>2. \/ pc'[c] = "recv" /\ status'[c] = "CONNECTED"
        \/ pc'[c] = "execute" /\ status'[c] = "CLOSE"
        \/ pc'[c] = "exit" /\ status'[c] = "CONNECTED"
    <3>1. Current(c) \in Links
      BY <1>0, <2>1, LinkOf
    <3>2. serverEnd[Current(c)] \in {"open", "fin", "rst", "finrst"}
      BY <1>0, <3>1 DEF TypeOK, LinkTypes
    <3>3. QED
      BY <1>0, <1>6, <2>1, <3>2 DEF Send
  <2>3. QED
    BY <2>1, <2>2 DEF Ways
<1>7. CASE RecvResponse(c)
  <2>1. /\ UNCHANGED <<link, status, cnt>> /\ pc'[c] \in {"send", "exit"}
        /\ pc[c] = "recv"
    BY <1>0, <1>7 DEF RecvResponse
  <2>2. QED
    BY <1>0, <2>1 DEF Ways
<1>8. CASE RecvFails(c)
  <2>1. /\ status'[c] = "DISCONNECTED" /\ pc'[c] = "execute"
        /\ link'[c] = link[c] /\ Between(c)
    BY <1>0, <1>8 DEF RecvFails, Between
  <2>2. QED
    BY <1>1, <2>1 DEF Ways
<1>9. CASE Retry(c)
  <2>1. CASE Connected(c)
    <3>1. /\ status'[c] = "CONNECTED" /\ pc'[c] = "execute"
          /\ link'[c] = link[c] + 1
      BY <1>0, <1>9, <2>1 DEF Retry, Connected, Refused
    <3>2. QED
      BY <1>0, <3>1 DEF Ways
  <2>2. CASE Refused
    <3>1. /\ link'[c] = link[c] /\ Between(c) /\ cnt'[c] \in Nat
          /\ \/ pc'[c] = "execute" /\ status'[c] = "CLOSE"
             \/ /\ pc'[c] = "retry" /\ status'[c] = "DISCONNECTED"
                /\ cnt'[c] <= RetryMax
      BY <1>0, <1>9, <2>2 DEF Retry, Connected, Refused, Tired, Counted, Ways,
                              TypeOK, ClientTypes
    <3>2. QED
      BY <1>1, <3>1 DEF Ways
  <2>3. QED
    BY <1>9, <2>1, <2>2 DEF Retry
<1>10. QED
  BY <1>2, <1>3, <1>4, <1>5, <1>6, <1>7, <1>8, <1>9, ClientCases
  DEF Client, Run
(* A new connection needs a start of the server or a reset of its own.     *)
LEMMA RoomStep ==
  ASSUME IInv, Next, NEW c \in Clients
  PROVE  Room(c)'
<1>0. /\ TypeOK /\ Room(c) /\ Ways(c) /\ DOMAIN serverEnd = Links
      /\ link \in [Clients -> Nat] /\ link[c] \in Nat
      /\ starts \in Nat /\ resets \in Nat
  <2>1. DOMAIN link = Clients /\ \A d \in Clients : link[d] \in Nat
    BY LinkOf DEF IInv, TypeOK, ClientTypes
  <2>2. link \in [Clients -> Nat]
    BY <2>1 DEF IInv, TypeOK, ClientTypes
  <2>3. starts \in Nat /\ resets \in Nat
    <3>1. starts \in 1..MaxStarts /\ resets \in 0..MaxResets
      BY DEF IInv, TypeOK, ServerTypes
    <3>2. MaxStarts \in Nat /\ MaxResets \in Nat
      BY SessionAssumption
    <3>3. QED
      BY <3>1, <3>2
  <2>4. QED
    BY <2>1, <2>2, <2>3 DEF IInv, TypeOK, LinkTypes
<1>1. pc'[c] # "gone" => pc[c] # "gone"
  BY OneWay
<1>2. link[c] # 0 => Current(c) \in Links /\ Current(c)[1] = c
  BY <1>0, LinkOf
<1>3. ASSUME link'[c] = link[c], UNCHANGED serverEnd
      PROVE  Between(c)' => Between(c)
  BY <1>3 DEF Between, Current
<1>4. ASSUME UNCHANGED <<server, starts, resets>>, link'[c] = link[c],
             Between(c)' => Between(c)
      PROVE  Room(c)'
  BY <1>0, <1>1, <1>4 DEF Room
<1>5. CASE Serves
  <2>0. UNCHANGED <<starts, resets, link, pc>>
    BY <1>5
    DEF Serves, clientVars, Accept, AcceptFails, Recv, RecvEnd, Decoded,
        Replies, Close, Die
  <2>1. ASSUME NEW how \in Deaths, Die(how) PROVE Room(c)'
    BY <1>0, <2>0, <2>1 DEF Die, Deaths, Room
  <2>2. ASSUME NEW l \in Links, Close(l) PROVE Room(c)'
    <3>1. /\ serverEnd' = [serverEnd EXCEPT
                             ![l] = IF @ = "open" THEN "fin" ELSE @]
          /\ UNCHANGED server /\ thread[l] = "close"
      BY <2>2 DEF Close
    <3>2. pc[l[1]] = "gone" \/ serverEnd[l] # "open"
      BY <3>1 DEF IInv, Ends
    <3>3. pc[c] # "gone" /\ Between(c)' => Between(c)
      BY <1>0, <1>2, <2>0, <3>1, <3>2 DEF Between, Current
    <3>4. QED
      BY <1>0, <2>0, <3>1, <3>3 DEF Room
  <2>3. CASE \/ Accept \/ AcceptFails
             \/ \E l \in Links : Recv(l) \/ RecvEnd(l) \/ Decoded(l)
                                 \/ Replies(l)
    <3>1. UNCHANGED <<server, serverEnd>>
      BY <2>3 DEF Accept, AcceptFails, Recv, RecvEnd, Decoded, Replies, linkVars
    <3>2. QED
      BY <1>3, <1>4, <2>0, <3>1
  <2>4. QED
    BY <1>5, <2>1, <2>2, <2>3 DEF Serves
<1>6. ASSUME NEW d \in Clients, Client(d) PROVE Room(c)'
  <2>0. UNCHANGED <<server, starts, resets>>
    BY <1>6 DEF Client
  <2>1. ASSUME Connected(d), Between(d), pc[d] # "gone", UNCHANGED serverEnd
        PROVE  Room(c)'
    <3>1. /\ link' = [link EXCEPT ![d] = @ + 1]
          /\ link[d] + 1 <= starts + resets
          /\ <<d, link[d] + 1>> \in Links
      BY <1>0, <2>1, ConnectedEffect DEF IInv
    <3>2. CASE d # c
      BY <1>0, <1>3, <1>4, <2>0, <2>1, <3>1, <3>2
    <3>3. CASE d = c
      <4>1. Untouched(<<c, link[c] + 1>>)
        BY <3>1, <3>3 DEF IInv
      <4>2. serverEnd[<<c, link[c] + 1>>] = "open"
        BY <1>0, <4>1 DEF Untouched
      <4>3. link'[c] = link[c] + 1 /\ link'[c] # 0
        BY <1>0, <3>1, <3>3
      <4>4. ~Between(c)'
        BY <2>1, <4>2, <4>3 DEF Between, Current
      <4>5. QED
        BY <2>0, <3>1, <3>3, <4>3, <4>4 DEF Room
    <3>4. QED
      BY <3>2, <3>3
  <2>2. CASE Connect(d)
    <3>1. Between(d) /\ pc[d] # "gone" /\ UNCHANGED serverEnd
      BY <2>2 DEF Connect, IInv, Ways, Between, linkVars
    <3>2. CASE Refused
      BY <1>3, <1>4, <2>0, <3>1, <3>2 DEF Refused
    <3>3. QED
      BY <2>1, <2>2, <3>1, <3>2 DEF Connect
  <2>3. CASE Retry(d)
    <3>1. Between(d) /\ pc[d] # "gone" /\ UNCHANGED serverEnd
      BY <2>3 DEF Retry, IInv, Ways, linkVars
    <3>2. CASE Refused
      BY <1>3, <1>4, <2>0, <3>1, <3>2 DEF Refused
    <3>3. QED
      BY <2>1, <2>3, <3>1, <3>2 DEF Retry
  <2>4. CASE Send(d)
    <3>1. /\ UNCHANGED link
          /\ serverEnd' = serverEnd
               \/ (/\ serverEnd' = [serverEnd EXCEPT ![Current(d)] = "finrst"]
                   /\ serverEnd[Current(d)] # "open")
      BY <2>4 DEF Send
    <3>2. Between(c)' => Between(c)
      BY <1>0, <1>2, <3>1 DEF Between, Current
    <3>3. QED
      BY <1>4, <2>0, <3>1, <3>2
  <2>5. CASE Process(d) \/ ReConnect(d) \/ DisConnect(d) \/ RecvResponse(d)
             \/ RecvFails(d)
    <3>1. UNCHANGED <<link, serverEnd>>
      BY <2>5 DEF Process, ReConnect, DisConnect, RecvResponse, RecvFails,
                  linkVars
    <3>2. QED
      BY <1>3, <1>4, <2>0, <3>1
  <2>6. QED
    BY <1>6, <2>2, <2>3, <2>4, <2>5 DEF Client, Run
<1>7. ASSUME NEW d \in Clients, Interrupt(d) \/ Exit(d) PROVE Room(c)'
  <2>1. UNCHANGED <<server, starts, resets, link, serverEnd>>
    BY <1>7 DEF Interrupt, Exit, serverVars, linkVars
  <2>2. QED
    BY <1>3, <1>4, <2>1
<1>8. ASSUME NEW l \in Links, Reset(l) PROVE Room(c)'
  <2>1. UNCHANGED <<starts, link>> /\ resets' = resets + 1
    BY <1>8 DEF Reset, serverVars, clientVars
  <2>2. link'[c] < starts' + resets'
    BY <1>0, <2>1 DEF Room
  <2>3. link'[c] <= starts' + resets'
    BY <1>0, <2>1 DEF Room
  <2>4. QED
    BY <2>2, <2>3 DEF Room
<1>9. CASE Restart
  <2>1. UNCHANGED <<resets, link>> /\ starts' = starts + 1
    BY <1>9 DEF Restart, clientVars
  <2>2. link'[c] < starts' + resets'
    BY <1>0, <2>1 DEF Room
  <2>3. link'[c] <= starts' + resets'
    BY <1>0, <2>1 DEF Room
  <2>4. QED
    BY <2>2, <2>3 DEF Room
<1>10. QED
  BY <1>5, <1>6, <1>7, <1>8, <1>9, NextCases

(* What is underway stays what it is, whatever a step does to the link,    *)
(* and where nothing is underway only the client can change that.          *)
LEMMA UnderwayStep ==
  ASSUME IInv, Next, NEW k \in Links, NEW req \in Requests, ~torn[k[1]],
         Underway(k, req), ~Carries(k), ~Read(k)
  PROVE  Underway(k, req)'
<1>0. TypeOK /\ Light(k)
  BY DEF IInv
<1>1. /\ recvmessage[k] \in Seq(Parts(Requests))
      /\ requests[k] \in Seq(Parts(Requests))
      /\ responses[k] \in Seq(Parts(Responses))
  BY <1>0, Lengths
<1>2. /\ AllOf(recvmessage[k], req) /\ AllOf(requests[k], req)
      /\ \A i \in DOMAIN responses[k] :
           responses[k][i] = [part |-> i, of |-> Execute(req)] /\ ~Traps(req)
  BY DEF Underway
<1>4. CASE Quiet(k)
  BY <1>4 DEF Quiet, Underway
<1>5. CASE Moves(k)
  <2>1. PICK n \in 1..Len(requests[k]) :
          /\ recvmessage'[k] = Keep(recvmessage[k], SubSeq(requests[k], 1, n))
          /\ requests'[k] = From(requests[k], n + 1)
    BY <1>5 DEF Moves
  <2>2. n \in 0..Len(requests[k])
    BY <2>1
  <2>3. AllOf(requests'[k], req) /\ AllOf(recvmessage'[k], req)
    BY <1>1, <1>2, <2>1, <2>2, PartsMoved
  <2>4. responses'[k] = responses[k]
    BY <1>5 DEF Moves
  <2>5. QED
    BY <1>2, <2>3, <2>4 DEF Underway
<1>6. CASE Answered(k)
  <2>1. PICK r \in Nat : r = Len(recvmessage[k]) /\ r >= 2
    BY <1>0, <1>6, Lengths DEF Answered
  <2>2. responses[k] = <<>>
    <3>1. recvmessage[k] # <<>>
      BY <1>0, <2>1, Lengths
    <3>2. QED
      BY <1>0, <3>1 DEF Light
  <2>3. Packages(recvmessage[k])[1] = req
    <3>1. Packages(recvmessage[k])[1] = recvmessage[k][2].of
      BY <1>1, <2>1, PackagesOf
    <3>2. 2 \in DOMAIN recvmessage[k]
      BY <1>1, <2>1, LenProperties
    <3>3. QED
      BY <1>2, <3>1, <3>2 DEF AllOf
  <2>4. AllOf(From(recvmessage[k], 3), req)
    <3>1. 2 \in 0..Len(recvmessage[k]) /\ 2 + 1 = 3
      BY <2>1
    <3>2. AllOf(From(recvmessage[k], 2 + 1), req)
      BY <1>1, <1>2, <3>1, PartsMoved
    <3>3. QED
      BY <3>1, <3>2
  <2>5. \A i \in DOMAIN responses'[k] :
          responses'[k][i] = [part |-> i, of |-> Execute(req)] /\ ~Traps(req)
    <3>1. CASE responses'[k] = responses[k]
      BY <1>2, <3>1
    <3>2. CASE responses'[k] = responses[k] \o InParts(Execute(req))
      <4>1. PICK res \in Responses : res = Execute(req)
        BY <1>6, <2>3, ExecuteAnswers DEF Answered
      <4>2. responses'[k] = InParts(res)
        BY <2>2, <3>2, <4>1, EncodedData, ConcatEmptySeq
      <4>3. /\ DOMAIN InParts(res) = {1, 2}
            /\ \A i \in {1, 2} : InParts(res)[i] = [part |-> i, of |-> res]
        BY DEF InParts
      <4>4. ~Traps(req)
        BY <1>6, <2>3 DEF Answered
      <4>5. QED
        BY <4>1, <4>2, <4>3, <4>4
    <3>3. QED
      BY <1>6, <2>3, <3>1, <3>2 DEF Answered
  <2>6. recvmessage'[k] = From(recvmessage[k], 3) /\ requests'[k] = requests[k]
    BY <1>6 DEF Answered
  <2>7. QED
    BY <1>2, <2>4, <2>5, <2>6 DEF Underway
<1>7. CASE Forgets(k)
  BY <1>7, EmptySeq DEF Forgets, Underway, AllOf
<1>8. CASE Left(k)
  BY <1>8 DEF Left, Underway
<1>9. CASE Cut(k)
  <2>1. PICK n \in 0..Len(requests[k]), m \in 0..Len(responses[k]) :
          /\ requests'[k] = SubSeq(requests[k], 1, n)
          /\ responses'[k] = SubSeq(responses[k], 1, m)
    BY <1>9 DEF Cut
  <2>2. AllOf(requests'[k], req)
    BY <1>1, <1>2, <2>1, PartsMoved
  <2>3. \A i \in DOMAIN responses'[k] :
          i \in DOMAIN responses[k] /\ responses'[k][i] = responses[k][i]
    <3>1. PICK p \in Nat : p = Len(responses[k]) /\ DOMAIN responses[k] = 1..p
      BY <1>1, LenProperties
    <3>2. /\ responses'[k] \in Seq(Parts(Responses)) /\ Len(responses'[k]) = m
          /\ \A i \in 1..m : responses'[k][i] = responses[k][i]
      BY <1>1, <2>1, FrontOf
    <3>3. DOMAIN responses'[k] = 1..m
      BY <3>2, LenProperties
    <3>4. \A i \in 1..m : i \in 1..p
      BY <2>1, <3>1
    <3>5. QED
      BY <3>1, <3>2, <3>3, <3>4
  <2>4. recvmessage'[k] = recvmessage[k]
    BY <1>9 DEF Cut
  <2>5. QED
    BY <1>2, <2>2, <2>3, <2>4 DEF Underway
<1>10. QED
  BY <1>4, <1>5, <1>6, <1>7, <1>8, <1>9, LinkCases
(* Where nothing is underway, only the client can start something.         *)
LEMMA StillStep ==
  ASSUME IInv, Next, NEW k \in Links, Still(k), ~Carries(k)
  PROVE  Still(k)'
<1>1. ~Moves(k) /\ ~Read(k)
  BY EmptySeq DEF Still, Moves, Read
<1>2. ~Answered(k)
  <2>1. Packages(recvmessage[k]) # <<>> => Len(recvmessage[k]) >= 2
    BY Lengths DEF IInv
  <2>2. Len(recvmessage[k]) = 0
    BY EmptySeq DEF Still
  <2>3. ~(0 >= 2)
    OBVIOUS
  <2>4. Packages(recvmessage[k]) = <<>>
    BY <2>1, <2>2, <2>3
  <2>5. QED
    BY <2>4 DEF Answered
<1>3. Cut(k) => Still(k)'
  <2> SUFFICES ASSUME Cut(k) PROVE Still(k)'
    OBVIOUS
  <2>1. Len(requests[k]) = 0 /\ Len(responses[k]) = 0
    BY EmptySeq DEF Still
  <2>2. PICK n \in 0..0, m \in 0..0 :
          /\ requests'[k] = SubSeq(requests[k], 1, n)
          /\ responses'[k] = SubSeq(responses[k], 1, m)
    BY <2>1 DEF Cut
  <2>3. Len(requests'[k]) = 0 /\ Len(responses'[k]) = 0
    <3>1. n = 0 /\ m = 0
      OBVIOUS
    <3>2. /\ requests[k] \in Seq(Parts(Requests))
          /\ responses[k] \in Seq(Parts(Responses))
      BY Lengths DEF IInv
    <3>3. QED
      BY <2>1, <2>2, <3>1, <3>2, FrontOf
  <2>4. /\ requests'[k] \in Seq(Parts(Requests))
        /\ responses'[k] \in Seq(Parts(Responses))
    BY TypesStep DEF TypeOK, LinkTypes
  <2>5. requests'[k] = <<>> /\ responses'[k] = <<>>
    BY <2>3, <2>4, EmptySeq
  <2>6. QED
    BY <2>5 DEF Cut, Still
<1>4. QED
  BY <1>1, <1>2, <1>3, LinkCases DEF Quiet, Forgets, Left, Still

(* The requests and answers of one client take turns.                      *)
LEMMA TurnStep ==
  ASSUME IInv, Next, NEW c \in Clients
  PROVE  Turn(c)'
<1> PICK k : k = Current(c)
  OBVIOUS
<1>0. /\ TypeOK /\ Ways(c) /\ Turn(c) /\ link[c] \in Nat
      /\ DOMAIN status = Clients /\ DOMAIN pc = Clients
      /\ link \in [Clients -> Nat] /\ DOMAIN asked = Clients
      /\ DOMAIN shown = Clients /\ DOMAIN torn = Clients
      /\ DOMAIN requests = Links /\ DOMAIN responses = Links
  <2>1. DOMAIN link = Clients /\ \A d \in Clients : link[d] \in Nat
    BY LinkOf DEF IInv, TypeOK, ClientTypes
  <2>2. link \in [Clients -> Nat]
    BY <2>1 DEF IInv, TypeOK, ClientTypes
  <2>3. QED
    BY <2>1, <2>2 DEF IInv, TypeOK, LinkTypes, ClientTypes
<1>1. SUFFICES ASSUME ~torn'[c] PROVE Turn(c)'
  BY DEF Turn
<1>2. ~torn[c]
  BY <1>1, OneWay
<1>3. link[c] # 0 => k \in Links /\ k[1] = c
  BY <1>0, LinkOf
<1>4. Free(c) \/ pc[c] = "recv" => k \in Links /\ k[1] = c
  BY <1>0, <1>3 DEF Free, Ways
<1>5. asked[c] # <<>> => asked[c][1] \in Requests /\ asked[c] = <<asked[c][1]>>
  BY <1>0, SessionAssumption DEF TypeOK, ClientTypes
(* A client that has shown something goes on showing it.                   *)
<1>6. ASSUME UNCHANGED <<asked[c], shown[c]>>
      PROVE  shown'[c] # <<>> =>
               /\ asked'[c] # <<>> /\ ~Traps(asked'[c][1])
               /\ shown'[c] = <<Execute(asked'[c][1])>>
  BY <1>0, <1>2, <1>6 DEF Turn
<1>7. ASSUME pc'[c] # "recv",
             pc'[c] # "send", ~(pc'[c] = "execute" /\ status'[c] = "CONNECTED"),
             UNCHANGED <<asked[c], shown[c]>>
      PROVE  Turn(c)'
  BY <1>6, <1>7 DEF Turn, Free
<1>8. CASE Away(c)
  <2>1. /\ UNCHANGED <<asked[c], shown[c], pc[c], status[c], link[c]>>
        /\ Current(c)' = k
    BY <1>8 DEF Away, Current
  <2>2. k[1] = c => ~Carries(k) /\ ~Read(k)
    BY <2>1 DEF Carries, Read
  <2>3. Free(c)' => Still(k)'
    <3>1. Free(c)' = Free(c)
      BY <2>1 DEF Free
    <3>2. QED
      BY <1>0, <1>2, <1>4, <2>2, <3>1, StillStep DEF Turn
  <2>4. ASSUME pc'[c] = "recv"
        PROVE  asked'[c] # <<>> /\ Underway(Current(c), asked[c][1])'
    <3>1. /\ asked[c] # <<>> /\ Underway(k, asked[c][1])
          /\ k \in Links /\ k[1] = c
      BY <1>0, <1>2, <1>4, <2>1, <2>4 DEF Turn
    <3>2. PICK req \in Requests : req = asked[c][1]
      BY <1>5, <3>1
    <3>3. Underway(k, req)'
      BY <1>2, <2>2, <3>1, <3>2, UnderwayStep
    <3>4. QED
      BY <2>1, <3>1, <3>2, <3>3 DEF Underway
  <2>5. QED
    BY <1>6, <2>1, <2>3, <2>4 DEF Turn, Still
<1>9. CASE Client(c)
  <2>1. ASSUME Connected(c), Between(c), pc[c] # "gone", pc[c] # "send",
               pc'[c] = "execute", UNCHANGED <<asked[c], shown[c]>>
        PROVE  Turn(c)'
    <3>1. PICK l \in Links : l = <<c, link[c] + 1>>
      BY <1>0, <2>1, ConnectedEffect DEF IInv
    <3>2. /\ link' = [link EXCEPT ![c] = @ + 1] /\ Current(c)' = l
          /\ l[1] = c /\ l[2] > link[c]
      BY <1>0, <2>1, <3>1 DEF Connected, Current
    <3>3. Still(l)
      BY <3>2 DEF IInv, Untouched
    <3>4. ~Carries(l)
      BY <2>1, <3>2 DEF Carries
    <3>5. Still(l)'
      BY <3>1, <3>3, <3>4, StillStep
    <3>6. QED
      BY <1>6, <2>1, <3>2, <3>5 DEF Turn, Still
  <2>2. CASE Connect(c)
    <3>1. /\ Between(c) /\ pc'[c] = "execute" /\ pc[c] = "execute"
          /\ UNCHANGED <<asked[c], shown[c]>>
      BY <1>0, <2>2 DEF Connect, Ways, Between
    <3>2. status'[c] = "DISCONNECTED" => Turn(c)'
      BY <1>7, <3>1
    <3>3. QED
      BY <1>0, <2>1, <2>2, <3>1, <3>2 DEF Connect
  <2>3. CASE Retry(c)
    <3>1. /\ Between(c) /\ pc[c] = "retry"
          /\ UNCHANGED <<asked[c], shown[c]>>
      BY <1>0, <2>3 DEF Retry, Ways
    <3>2. \/ Connected(c) /\ pc'[c] = "execute"
          \/ pc'[c] = "execute" /\ status'[c] = "CLOSE"
          \/ pc'[c] = "retry"
      BY <1>0, <2>3, <3>1 DEF Retry
    <3>3. QED
      BY <1>7, <2>1, <3>1, <3>2
  <2>4. CASE Process(c)
    <3>1. /\ Free(c) /\ pc[c] = "execute" /\ pc'[c] = "send"
          /\ UNCHANGED <<asked[c], shown[c], link>>
      BY <1>0, <2>4 DEF Process, Free
    <3>2. k \in Links /\ k[1] = c /\ Still(k)
      BY <1>0, <1>2, <1>4, <3>1 DEF Turn
    <3>3. ~Carries(k)
      BY <3>1, <3>2 DEF Carries
    <3>4. Still(k)'
      BY <3>2, <3>3, StillStep
    <3>5. Current(c)' = k
      BY <3>1 DEF Current
    <3>6. QED
      BY <1>6, <3>1, <3>4, <3>5 DEF Turn, Still
  <2>5. CASE ReConnect(c) \/ DisConnect(c) \/ RecvFails(c)
    <3>1. /\ \/ pc'[c] \in {"retry", "exit"}
             \/ pc'[c] = "execute" /\ status'[c] = "DISCONNECTED"
          /\ UNCHANGED <<asked[c], shown[c]>>
      BY <1>0, <2>5 DEF ReConnect, DisConnect, RecvFails
    <3>2. QED
      BY <1>7, <3>1
  <2>6. CASE Send(c)
    <3>1. k \in Links /\ k[1] = c /\ Still(k)
      BY <1>0, <1>2, <1>4, <2>6 DEF Send, Free, Turn
    <3>2. PICK req \in Asked :
            /\ req \in Requests /\ asked' = [asked EXCEPT ![c] = <<req>>]
            /\ requests' = IF serverEnd[k] # "open" THEN requests
                           ELSE [requests EXCEPT ![k] = @ \o InParts(req)]
      BY <1>0, <2>6, SendEffect
    <3>3. /\ asked'[c] = <<req>> /\ shown'[c] = <<>>
          /\ UNCHANGED <<link, responses, recvmessage>> /\ Current(c)' = k
      BY <1>0, <1>9, <2>6, <3>2 DEF Client, Send, Current
    <3>4. requests'[k] = <<>> \/ requests'[k] = InParts(req)
      BY <1>0, <3>1, <3>2, EncodedData, ConcatEmptySeq DEF Still
    <3>5. AllOf(requests'[k], req)
      BY <3>4, EmptySeq DEF AllOf, InParts
    <3>6. Underway(k, req)'
      BY <3>1, <3>3, <3>5, EmptySeq DEF Underway, Still, AllOf
    <3>7. ~Free(c)'
      <4>1. serverEnd[k] \in {"open", "fin", "rst", "finrst"}
        BY <1>0, <3>1 DEF TypeOK, LinkTypes
      <4>2. \/ pc'[c] \in {"recv", "exit"}
            \/ pc'[c] = "execute" /\ status'[c] = "CLOSE"
        BY <1>0, <2>6, <4>1 DEF Send
      <4>3. QED
        BY <4>2 DEF Free
    <3>8. asked'[c][1] = req /\ asked'[c] # <<>>
      BY <3>3, EmptySeq
    <3>9. QED
      BY <3>3, <3>6, <3>7, <3>8 DEF Turn, Underway
  <2>7. CASE RecvResponse(c)
    <3> DEFINE req == asked[c][1]
    <3>1. /\ k \in Links /\ k[1] = c /\ pc[c] = "recv"
          /\ asked[c] # <<>> /\ Underway(k, req) /\ req \in Requests
      BY <1>0, <1>2, <1>4, <1>5, <2>7 DEF RecvResponse, Turn
    <3> HIDE DEF req
    <3>2. PICK n \in 1..Len(responses[k]) :
            LET parts == SubSeq(responses[k], 1, n)
            IN  /\ responses' = [responses EXCEPT ![k] = From(@, n + 1)]
                /\ torn' = [torn EXCEPT ![c] = @ \/ n % 2 = 1]
                /\ parts[1].part = 1 =>
                     /\ shown' = [shown EXCEPT ![c] = Packages(parts)]
                     /\ pc' = [pc EXCEPT ![c] = "send"]
      BY <2>7 DEF RecvResponse
    <3>3. /\ responses[k] \in Seq(Parts(Responses)) /\ Len(responses[k]) \in Nat
          /\ Len(responses[k]) <= 2 /\ recvmessage[k] = <<>>
          /\ requests[k] = <<>>
      <4>1. Len(responses[k]) # 0 /\ Len(responses[k]) \in Nat
        BY <1>0, <3>1, <3>2, Lengths
      <4>2. responses[k] # <<>>
        BY <1>0, <3>1, <4>1, Lengths
      <4>3. QED
        BY <1>0, <1>2, <3>1, <4>1, <4>2, Lengths DEF IInv, Light
    <3>4. n = 2 /\ Len(responses[k]) = 2
      <4>1. PICK p \in Nat : p = Len(responses[k]) /\ p <= 2 /\ n \in 1..p
        BY <3>2, <3>3
      <4>2. n % 2 # 1
        BY <1>0, <1>1, <3>2
      <4>3. n # 1
        BY <4>2
      <4>4. n = 2 /\ p = 2
        <5>1. p <= 2 /\ n \in 1..p /\ n # 1
          BY <4>1, <4>3
        <5>2. QED
          BY <5>1
      <4>5. QED
        BY <4>1, <4>4
    <3> DEFINE parts == SubSeq(responses[k], 1, n)
    <3>5. /\ parts \in Seq(Parts(Responses)) /\ Len(parts) = 2
          /\ parts[1] = responses[k][1] /\ parts[2] = responses[k][2]
      BY <3>3, <3>4, FrontOf
    <3>6. /\ responses[k][1] = [part |-> 1, of |-> Execute(req)]
          /\ responses[k][2] = [part |-> 2, of |-> Execute(req)]
          /\ ~Traps(req)
      <4>1. DOMAIN responses[k] = 1..2
        BY <3>3, <3>4, LenProperties
      <4>2. QED
        BY <3>1, <4>1 DEF Underway
    <3>7. shown'[c] = Packages(parts) /\ pc'[c] = "send"
      <4>1. parts[1].part = 1
        BY <3>5, <3>6
      <4>2. /\ shown' = [shown EXCEPT ![c] = Packages(parts)]
            /\ pc' = [pc EXCEPT ![c] = "send"]
        BY <3>2, <4>1
      <4>3. QED
        BY <1>0, <4>2
    <3>8. Packages(parts) = <<Execute(req)>>
      <4>1. /\ Packages(parts) \in Seq(Responses)
            /\ Len(Packages(parts)) = Len(parts) \div 2
            /\ Packages(parts)[1] = parts[2].of
        <5>1. Len(parts) >= 2
          BY <3>5
        <5>2. QED
          BY <3>5, <5>1, PackagesOf
      <4>2. Len(Packages(parts)) = 1
        <5>1. 2 \div 2 = 1
          OBVIOUS
        <5>2. QED
          BY <3>5, <4>1, <5>1
      <4>3. QED
        BY <3>5, <3>6, <4>1, <4>2
    <3>9. responses'[k] = <<>>
      <4>1. responses'[k] = From(responses[k], n + 1)
        BY <1>0, <3>1, <3>2
      <4>2. /\ From(responses[k], n + 1) \in Seq(Parts(Responses))
            /\ Len(From(responses[k], n + 1)) = Len(responses[k]) - n
        <5>1. n \in 0..Len(responses[k])
          BY <3>4
        <5>2. QED
          BY <3>3, <5>1, RestOf
      <4>3. Len(From(responses[k], n + 1)) = 0
        BY <3>4, <4>2
      <4>4. QED
        BY <4>1, <4>2, <4>3, EmptySeq
    <3>10. UNCHANGED <<link, asked, recvmessage, requests>> /\ Current(c)' = k
      BY <1>9, <2>7 DEF Client, RecvResponse, Current
    <3>11. Still(k)'
      BY <3>3, <3>9, <3>10 DEF Still
    <3>12. QED
      BY <3>1, <3>6, <3>7, <3>8, <3>10, <3>11 DEF Turn, Still, req
  <2>8. QED
    BY <1>9, <2>2, <2>3, <2>4, <2>5, <2>6, <2>7 DEF Client, Run
<1>10. CASE Interrupt(c) \/ Exit(c)
  <2>1. pc'[c] \in {"exit", "gone"} /\ UNCHANGED <<asked[c], shown[c]>>
    BY <1>0, <1>10 DEF Interrupt, Exit
  <2>2. QED
    BY <1>7, <2>1
<1>11. QED
  BY <1>8, <1>9, <1>10, ClientCases
-----------------------------------------------------------------------------
(* The invariant holds.                                                    *)
LEMMA InvInit ==
  ASSUME Init
  PROVE  IInv
<1>1. /\ server = "up" /\ starts = 1 /\ resets = 0
      /\ backlog = <<>> /\ doomed = FALSE
      /\ thread = [k \in Links |-> "none"]
      /\ recvmessage = [k \in Links |-> <<>>]
  BY DEF Init, ServerInit
<1>2. /\ requests = [k \in Links |-> <<>>] /\ responses = [k \in Links |-> <<>>]
      /\ clientEnd = [k \in Links |-> "open"]
      /\ serverEnd = [k \in Links |-> "open"]
  BY DEF Init, LinkInit
<1>3. /\ status = [c \in Clients |-> "NEW"]
      /\ pc = [c \in Clients |-> "execute"]
      /\ cnt = [c \in Clients |-> 1] /\ link = [c \in Clients |-> 0]
      /\ asks = [c \in Clients |-> 0] /\ asked = [c \in Clients |-> <<>>]
      /\ shown = [c \in Clients |-> <<>>] /\ torn = [c \in Clients |-> FALSE]
      /\ attempts = [c \in Clients |-> 0]
  BY DEF Init, ClientInit
<1>4. \A S : <<>> \in Seq(S)
  BY EmptySeq
<1>5. TypeOK
  <2>1. ServerTypes
    <3>1. 1 \in 1..MaxStarts /\ 0 \in 0..MaxResets
      BY SessionAssumption
    <3>2. QED
      BY <1>1, <1>4, <3>1 DEF ServerTypes
  <2>2. LinkTypes
    BY <1>2, <1>4 DEF LinkTypes
  <2>3. ClientTypes
    <3>1. /\ 1 \in 1..(RetryMax + 1) /\ 0 \in 0..(RetryMax + 1)
          /\ 0 \in 0..MaxAsks /\ 0 \in 0..(MaxStarts + MaxResets)
      BY SessionAssumption
    <3>2. QED
      BY <1>3, <1>4, <3>1 DEF ClientTypes
  <2>4. QED
    BY <2>1, <2>2, <2>3 DEF TypeOK
<1>6. ASSUME NEW c \in Clients PROVE Ways(c) /\ Room(c) /\ Turn(c)
  <2>1. Ways(c)
    BY <1>3 DEF Ways
  <2>2. Room(c)
    BY <1>1, <1>3 DEF Room
  <2>3. Turn(c)
    BY <1>3 DEF Turn, Free
  <2>4. QED
    BY <2>1, <2>2, <2>3
<1>7. ASSUME NEW k \in Links PROVE Ends(k) /\ Untouched(k) /\ Light(k)
  <2>1. Ends(k)
    BY <1>1, <1>2 DEF Ends
  <2>2. Untouched(k)
    BY <1>1, <1>2, EmptySeq DEF Untouched, Still, Queued
  <2>3. Len(recvmessage[k]) = 0 /\ Len(requests[k]) = 0 /\ Len(responses[k]) = 0
    BY <1>1, <1>2, EmptySeq
  <2>4. Light(k)
    BY <1>1, <1>2, <2>3 DEF Light, Held
  <2>5. QED
    BY <2>1, <2>2, <2>4
<1>8. SurvivesClients
  BY <1>1 DEF SurvivesClients
<1>9. QED
  BY <1>5, <1>6, <1>7, <1>8 DEF IInv

(* Every step keeps it, and so does no step.                               *)
LEMMA InvStep ==
  ASSUME IInv, [Next]_vars
  PROVE  IInv'
<1>1. CASE Next
  <2>1. TypeOK'
    BY <1>1, TypesStep
  <2>2. \A c \in Clients : Ways(c)' /\ Room(c)' /\ Turn(c)'
    BY <1>1, WaysStep, RoomStep, TurnStep
  <2>3. \A k \in Links : Ends(k)' /\ Untouched(k)' /\ Light(k)'
    BY <1>1, EndsStep, UntouchedStep, LightStep
  <2>4. SurvivesClients'
    BY <1>1, SurvivesStep
  <2>5. QED
    BY <2>1, <2>2, <2>3, <2>4 DEF IInv
<1>2. CASE UNCHANGED vars
  <2> USE <1>2 DEF vars, serverVars, linkVars, clientVars
  <2>1. TypeOK'
    BY DEF IInv, TypeOK, ServerTypes, LinkTypes, ClientTypes
  <2>2. ASSUME NEW c \in Clients PROVE Ways(c)' /\ Room(c)' /\ Turn(c)'
    <3>1. Ways(c)'
      BY DEF IInv, Ways, Between, Current
    <3>2. Room(c)'
      BY DEF IInv, Room, Between, Current
    <3>3. Turn(c)'
      BY DEF IInv, Turn, Free, Current, Still, Underway
    <3>4. QED
      BY <3>1, <3>2, <3>3
  <2>3. ASSUME NEW k \in Links PROVE Ends(k)' /\ Untouched(k)' /\ Light(k)'
    <3>1. Ends(k)'
      BY DEF IInv, Ends
    <3>2. Untouched(k)'
      BY DEF IInv, Untouched, Still, Queued
    <3>3. Light(k)'
      BY DEF IInv, Light, Held
    <3>4. QED
      BY <3>1, <3>2, <3>3
  <2>4. SurvivesClients'
    BY DEF IInv, SurvivesClients
  <2>5. QED
    BY <2>1, <2>2, <2>3, <2>4 DEF IInv
<1>3. QED
  BY <1>1, <1>2

(* Types, ways, links and turns of the calculator, always.                 *)
THEOREM Invariance == Spec => []IInv
  BY InvInit, InvStep, PTL DEF Spec

(* The server and its clients stay in the states the model names: among    *)
(* them, no client makes more connections than Links has room for.         *)
THEOREM TypeCorrect == Spec => []TypeOK
<1>1. IInv => TypeOK
  BY DEF IInv
<1>2. QED
  BY <1>1, Invariance, PTL

(* Clients that leave at any moment do not take the server with them.      *)
THEOREM ServerSurvives == Spec => []SurvivesClients
<1>1. IInv => SurvivesClients
  BY DEF IInv
<1>2. QED
  BY <1>1, Invariance, PTL

(* A client that has never thrown away part of a response shows the right  *)
(* answer to what it asked, however often either side has been cut off.    *)
THEOREM ShowsRightAnswers == Spec => []AnswersRight
<1>1. IInv => AnswersRight
  <2> SUFFICES ASSUME IInv, NEW c \in Clients, ~torn[c], shown[c] # <<>>
               PROVE  /\ Len(shown[c]) = 1
                      /\ Answers(shown[c][1], asked[c][1])
    BY DEF AnswersRight
  <2>1. /\ asked[c] # <<>> /\ ~Traps(asked[c][1])
        /\ shown[c] = <<Execute(asked[c][1])>>
    BY DEF IInv, Turn
  <2>2. asked[c][1] \in Requests
    BY <2>1, SessionAssumption DEF IInv, TypeOK, ClientTypes
  <2>3. Answers(Execute(asked[c][1]), asked[c][1])
    BY <2>1, <2>2, ExecuteAnswers
  <2>4. Len(shown[c]) = 1 /\ shown[c][1] = Execute(asked[c][1])
    BY <2>1
  <2>5. QED
    BY <2>3, <2>4
<1>2. QED
  BY <1>1, Invariance, PTL
-----------------------------------------------------------------------------
(* What a client waits for.  A connection neither side has ended: it holds *)
(* whole frames, though they may be on both sides of recv(), and accept()  *)
(* is going to return it, or a thread has it.                              *)
Live(k) == serverEnd[k] = "open" /\ clientEnd[k] = "open"

WholeFrames(k) ==
  /\ thread[k] = "recv" => Len(recvmessage[k]) < 2
  /\ thread[k] = "none" => recvmessage[k] = <<>>
  /\ Live(k) => \E n \in Nat : Held(k) = 2 * n

Served(k) == thread[k] \in {"recv", "decode", "close", "not created"}

Attended(k) == Live(k) /\ k[2] <= link[k[1]] => k \in Queued \/ Served(k)

(* accept() returns a connection once, and no thread has had it before.    *)
Lined ==
  /\ \A i, j \in DOMAIN backlog : backlog[i] = backlog[j] => i = j
  /\ \A k \in Queued : thread[k] = "none"

(* A client that waits is waiting for something.                           *)
Expected(c) ==
  pc[c] = "recv" /\ serverEnd[Current(c)] = "open" =>
    responses[Current(c)] # <<>> \/ Held(Current(c)) # 0

WInv ==
  /\ Lined
  /\ \A k \in Links : WholeFrames(k) /\ Attended(k)
  /\ \A c \in Clients : Expected(c)

(* What a step may do with the thread of a link and what it has read.      *)
LEMMA ThreadCases ==
  ASSUME IInv, Next, NEW k \in Links
  PROVE  \/ UNCHANGED <<thread[k], recvmessage[k]>>
         \/ thread[k] = "decode" /\ UNCHANGED thread[k]
         \/ /\ backlog # <<>> /\ k = Head(backlog)
            /\ thread'[k] \in {"recv", "not created"}
            /\ UNCHANGED recvmessage[k]
         \/ thread[k] = "recv" /\ thread'[k] \in {"decode", "close"}
         \/ /\ thread[k] = "decode" /\ thread'[k] = "recv"
            /\ Packages(recvmessage[k]) = <<>> /\ UNCHANGED recvmessage[k]
         \/ /\ thread'[k] = IF thread[k] = "none" THEN "none" ELSE "gone"
            /\ recvmessage'[k] = <<>>
            /\ ~ Live(k)' \/ (k \notin Queued /\ ~ Served(k))
<1> DEFINE Case ==
         \/ UNCHANGED <<thread[k], recvmessage[k]>>
         \/ thread[k] = "decode" /\ UNCHANGED thread[k]
         \/ /\ backlog # <<>> /\ k = Head(backlog)
            /\ thread'[k] \in {"recv", "not created"}
            /\ UNCHANGED recvmessage[k]
         \/ thread[k] = "recv" /\ thread'[k] \in {"decode", "close"}
         \/ /\ thread[k] = "decode" /\ thread'[k] = "recv"
            /\ Packages(recvmessage[k]) = <<>> /\ UNCHANGED recvmessage[k]
         \/ /\ thread'[k] = IF thread[k] = "none" THEN "none" ELSE "gone"
            /\ recvmessage'[k] = <<>>
            /\ ~ Live(k)' \/ (k \notin Queued /\ ~ Served(k))
<1>0. /\ DOMAIN thread = Links /\ DOMAIN recvmessage = Links
      /\ DOMAIN serverEnd = Links
  BY DEF IInv, TypeOK, ServerTypes, LinkTypes
<1>1. CASE Serves
  <2>1. CASE Accept \/ AcceptFails
    BY <1>0, <2>1 DEF Accept, AcceptFails
  <2>2. ASSUME NEW l \in Links,
               Recv(l) \/ RecvEnd(l) \/ Decoded(l) \/ Replies(l)
        PROVE  Case
    BY <1>0, <2>2 DEF Recv, RecvEnd, Decoded, Replies
  <2>3. ASSUME NEW l \in Links, Close(l) PROVE Case
    <3>1. l # k => UNCHANGED <<thread[k], recvmessage[k]>>
      BY <1>0, <2>3 DEF Close
    <3>2. l = k => /\ thread'[k] = "gone" /\ thread[k] # "none"
                   /\ recvmessage'[k] = <<>> /\ serverEnd'[k] # "open"
      BY <1>0, <2>3 DEF Close
    <3>3. QED
      BY <3>1, <3>2 DEF Live
  <2>4. ASSUME NEW how \in Deaths, Die(how) PROVE Case
    <3>1. /\ thread'[k] = IF thread[k] = "none" THEN "none" ELSE "gone"
          /\ recvmessage'[k] = <<>>
          /\ UNCHANGED clientEnd
          /\ serverEnd'[k] =
               IF serverEnd[k] # "open" \/ clientEnd[k] # "open"
               THEN serverEnd[k]
               ELSE IF requests[k] # <<>> \/ k \in Queued
               THEN "rst"
               ELSE IF thread[k] \in {"none", "gone"} THEN "open" ELSE "fin"
      BY <2>4 DEF Die
    <3>2. Live(k)' => k \notin Queued /\ thread[k] \in {"none", "gone"}
      BY <3>1 DEF Live
    <3>3. QED
      BY <3>1, <3>2 DEF Served
  <2>5. QED
    BY <1>1, <2>1, <2>2, <2>3, <2>4 DEF Serves
<1>2. ASSUME NEW c \in Clients, Client(c) \/ Interrupt(c) \/ Exit(c)
      PROVE  Case
  BY <1>2 DEF Client, Interrupt, Exit, serverVars
<1>3. ASSUME NEW l \in Links, Reset(l) PROVE Case
  BY <1>3 DEF Reset, serverVars
<1>4. CASE Restart
  BY <1>4 DEF Restart
<1>5. QED
  BY <1>1, <1>2, <1>3, <1>4, NextCases

(* What a step may do to accept()'s queue: nothing, take its head, add a   *)
(* new connection at its end, or empty it when the process ends.           *)
Joins(c) ==
  LET k == <<c, link[c] + 1>>
  IN  /\ k \in Links /\ k[2] > link[c]
      /\ backlog' = Append(backlog, k)
      /\ link' = [link EXCEPT ![c] = @ + 1]
      /\ UNCHANGED thread

LEMMA QueueCases ==
  ASSUME IInv, Next
  PROVE  \/ UNCHANGED <<backlog, link>> /\ \A k \in Queued : thread[k] = "none" =>
                                             UNCHANGED thread[k]
         \/ /\ Accept /\ UNCHANGED link
         \/ \E c \in Clients : Joins(c)
         \/ \E how \in Deaths : Die(how) /\ UNCHANGED link
<1> DEFINE Case ==
         \/ UNCHANGED <<backlog, link>> /\ \A k \in Queued : thread[k] = "none" =>
                                             UNCHANGED thread[k]
         \/ /\ Accept /\ UNCHANGED link
         \/ \E c \in Clients : Joins(c)
         \/ \E how \in Deaths : Die(how) /\ UNCHANGED link
<1>0. /\ TypeOK /\ DOMAIN thread = Links /\ backlog \in Seq(Links)
      /\ \A c \in Clients : Ways(c) /\ Room(c)
  BY DEF IInv, TypeOK, ServerTypes
<1>1. \A k \in Queued : k \in Links
  BY <1>0, ElementOfSeq, LenProperties DEF Queued
<1>2. CASE Serves
  <2>1. ASSUME NEW l \in Links,
               Recv(l) \/ RecvEnd(l) \/ Decoded(l) \/ Replies(l) \/ Close(l)
        PROVE  Case
    BY <1>0, <1>1, <1>2, <2>1
    DEF Recv, RecvEnd, Decoded, Replies, Close, Serves, clientVars
  <2>2. ASSUME NEW how \in Deaths, Die(how) PROVE Case
    BY <1>2, <2>2 DEF Die, Serves, clientVars
  <2>3. CASE Accept \/ AcceptFails
    BY <1>2, <2>3 DEF AcceptFails, Serves, clientVars
  <2>4. QED
    BY <1>2, <2>1, <2>2, <2>3 DEF Serves
<1>3. ASSUME NEW c \in Clients, Client(c) PROVE Case
  <2>1. UNCHANGED thread
    BY <1>3 DEF Client
  <2>2. ASSUME Connected(c), Between(c), pc[c] # "gone" PROVE Joins(c)
    <3>1. /\ link' = [link EXCEPT ![c] = @ + 1]
          /\ backlog' = Append(backlog, <<c, link[c] + 1>>)
          /\ <<c, link[c] + 1>> \in Links
      BY <1>0, <2>2, ConnectedEffect
    <3>2. link[c] + 1 > link[c]
      BY <1>0, LinkOf
    <3>3. QED
      BY <2>1, <3>1, <3>2 DEF Joins
  <2>3. CASE Connect(c)
    <3>1. Between(c) /\ pc[c] # "gone"
      BY <1>0, <2>3 DEF Connect, Ways, Between
    <3>2. QED
      BY <2>1, <2>2, <2>3, <3>1 DEF Connect, Refused
  <2>4. CASE Retry(c)
    <3>1. Between(c) /\ pc[c] # "gone"
      BY <1>0, <2>4 DEF Retry, Ways
    <3>2. QED
      BY <2>1, <2>2, <2>4, <3>1 DEF Retry, Refused
  <2>5. QED
    BY <1>3, <2>1, <2>3, <2>4
    DEF Client, Run, Process, ReConnect, DisConnect, Send, RecvResponse,
        RecvFails
<1>4. ASSUME NEW c \in Clients, Interrupt(c) \/ Exit(c) PROVE Case
  BY <1>4 DEF Interrupt, Exit, serverVars
<1>5. ASSUME NEW l \in Links, Reset(l) PROVE Case
  BY <1>5 DEF Reset, serverVars, clientVars
<1>6. CASE Restart
  BY <1>6 DEF Restart, clientVars
<1>7. QED
  BY <1>2, <1>3, <1>4, <1>5, <1>6, NextCases

(* The queue without its head.                                             *)
LEMMA TailOf ==
  ASSUME backlog \in Seq(Links), backlog # <<>>
  PROVE  /\ Len(backlog) \in Nat \ {0} /\ Head(backlog) = backlog[1]
         /\ DOMAIN Tail(backlog) = 1..(Len(backlog) - 1)
         /\ \A i \in 1..(Len(backlog) - 1) : Tail(backlog)[i] = backlog[i + 1]
<1>1. /\ Len(backlog) \in Nat \ {0} /\ Head(backlog) = backlog[1]
      /\ Len(Tail(backlog)) = Len(backlog) - 1
      /\ DOMAIN Tail(backlog) = 1..Len(Tail(backlog))
      /\ \A i \in 1..Len(Tail(backlog)) : Tail(backlog)[i] = backlog[i + 1]
  BY HeadTailProperties, EmptySeq, LenProperties
<1>2. QED
  BY <1>1

(* The queue keeps its order.                                              *)
LEMMA LinedStep ==
  ASSUME IInv, Lined, Next
  PROVE  Lined'
<1>0. /\ TypeOK /\ backlog \in Seq(Links) /\ DOMAIN thread = Links
      /\ \A k \in Links : Untouched(k)
      /\ DOMAIN backlog = 1..Len(backlog) /\ Len(backlog) \in Nat
  BY LenProperties DEF IInv, TypeOK, ServerTypes
<1>1. CASE UNCHANGED backlog /\ \A k \in Queued : thread[k] = "none" =>
                                   UNCHANGED thread[k]
  BY <1>1 DEF Lined, Queued
<1>2. CASE Accept
  <2>1. /\ backlog # <<>> /\ backlog' = Tail(backlog)
        /\ \E next \in {"recv", "not created"} :
             thread' = [thread EXCEPT ![Head(backlog)] = next]
    BY <1>2 DEF Accept
  <2>2. /\ Head(backlog) = backlog[1]
        /\ DOMAIN backlog' = 1..(Len(backlog) - 1)
        /\ \A i \in 1..(Len(backlog) - 1) : backlog'[i] = backlog[i + 1]
        /\ Len(backlog) \in Nat \ {0}
    BY <1>0, <2>1, TailOf
  <2>3. \A i, j \in DOMAIN backlog' : backlog'[i] = backlog'[j] => i = j
    <3>1. TAKE i, j \in DOMAIN backlog'
    <3>2. i + 1 \in DOMAIN backlog /\ j + 1 \in DOMAIN backlog
      BY <1>0, <2>2
    <3>3. backlog[i + 1] = backlog[j + 1] => i + 1 = j + 1
      BY <3>2 DEF Lined
    <3>4. i \in Int /\ j \in Int
      BY <2>2
    <3>5. QED
      BY <2>2, <3>3, <3>4
  <2>4. \A i \in DOMAIN backlog' :
          backlog'[i] \in Queued /\ backlog'[i] # Head(backlog)
    <3>1. TAKE i \in DOMAIN backlog'
    <3>2. i + 1 \in DOMAIN backlog /\ 1 \in DOMAIN backlog /\ i + 1 # 1
      BY <1>0, <2>2
    <3>3. backlog[i + 1] # backlog[1]
      BY <3>2 DEF Lined
    <3>4. QED
      BY <2>2, <3>2, <3>3 DEF Queued
  <2>5. \A k \in Queued' : thread'[k] = "none"
    <3>1. ASSUME NEW i \in DOMAIN backlog' PROVE thread'[backlog'[i]] = "none"
      <4>1. backlog'[i] \in Links
        BY <1>0, <2>4, ElementOfSeq DEF Queued
      <4>2. QED
        BY <1>0, <2>1, <2>4, <4>1 DEF Lined
    <3>2. QED
      BY <3>1 DEF Queued
  <2>6. QED
    BY <2>3, <2>5 DEF Lined
<1>3. ASSUME NEW c \in Clients, Joins(c) PROVE Lined'
  <2> DEFINE new == <<c, link[c] + 1>>
  <2>1. /\ new \in Links /\ backlog' = Append(backlog, new) /\ UNCHANGED thread
        /\ new[2] > link[new[1]]
    BY <1>3 DEF Joins
  <2>2. new \notin Queued /\ thread[new] = "none"
    BY <1>0, <2>1 DEF Untouched
  <2> HIDE DEF new
  <2>3. /\ DOMAIN backlog' = 1..(Len(backlog) + 1)
        /\ \A i \in 1..Len(backlog) : backlog'[i] = backlog[i]
        /\ backlog'[Len(backlog) + 1] = new
    BY <1>0, <2>1, AppendProperties, LenProperties
  <2>4. \A i \in DOMAIN backlog : backlog[i] # new
    BY <2>2 DEF Queued
  <2>5. \A i, j \in DOMAIN backlog' : backlog'[i] = backlog'[j] => i = j
    BY <1>0, <2>3, <2>4 DEF Lined
  <2>6. \A k \in Queued' : k \in Queued \/ k = new
    BY <1>0, <2>3 DEF Queued
  <2>7. QED
    BY <2>1, <2>2, <2>5, <2>6 DEF Lined
<1>4. ASSUME NEW how \in Deaths, Die(how) PROVE Lined'
  BY <1>4, EmptySeq DEF Die, Lined, Queued
<1>5. QED
  BY <1>1, <1>2, <1>3, <1>4, QueueCases

(* A connection that is not ended stays in the queue, or with a thread.    *)
LEMMA AttendedStep ==
  ASSUME IInv, Lined, Next, NEW k \in Links, Attended(k)
  PROVE  Attended(k)'
<1>0. /\ TypeOK /\ backlog \in Seq(Links) /\ DOMAIN thread = Links
      /\ k[1] \in Clients /\ k[2] \in Nat /\ link[k[1]] \in Nat
      /\ DOMAIN link = Clients
      /\ DOMAIN backlog = 1..Len(backlog) /\ Len(backlog) \in Nat
  BY LinkOf, LenProperties DEF IInv, TypeOK, ServerTypes, ClientTypes
<1> SUFFICES ASSUME Live(k)', k[2] <= link'[k[1]]
             PROVE  k \in Queued' \/ Served(k)'
  BY DEF Attended
<1>1. Live(k)
  BY OneWay DEF Live
<1>2. CASE k[2] > link[k[1]]
  <2>1. \E c \in Clients : Joins(c)
    <3>1. link' # link
      BY <1>0, <1>2
    <3>2. QED
      BY <3>1, QueueCases
  <2>2. PICK c \in Clients : Joins(c)
    BY <2>1
  <2>3. link'[k[1]] # link[k[1]]
    BY <1>0, <1>2
  <2>4. k[1] = c /\ k[2] = link[c] + 1
    <3>1. k[1] = c
      BY <1>0, <2>2, <2>3 DEF Joins
    <3>2. link'[c] = link[c] + 1
      BY <1>0, <2>2 DEF Joins
    <3>3. QED
      BY <1>0, <1>2, <3>1, <3>2
  <2>5. k = <<c, link[c] + 1>>
    BY <2>4 DEF Links
  <2>6. backlog'[Len(backlog) + 1] = k /\ Len(backlog) + 1 \in DOMAIN backlog'
    BY <1>0, <2>2, <2>5, AppendProperties, LenProperties DEF Joins
  <2>7. QED
    BY <2>6 DEF Queued
<1>3. CASE k[2] <= link[k[1]] /\ Served(k)
  BY <1>3, ThreadCases, Zenon DEF Served
<1>4. CASE k[2] <= link[k[1]] /\ k \in Queued
  <2>1. PICK i \in DOMAIN backlog : k = backlog[i]
    BY <1>4 DEF Queued
  <2>2. CASE UNCHANGED backlog
    BY <1>4, <2>2 DEF Queued
  <2>3. CASE Accept
    <3>1. /\ backlog # <<>> /\ backlog' = Tail(backlog)
          /\ \E next \in {"recv", "not created"} :
               thread' = [thread EXCEPT ![Head(backlog)] = next]
      BY <2>3 DEF Accept
    <3>2. CASE k = Head(backlog)
      BY <1>0, <3>1, <3>2 DEF Served
    <3>3. CASE k # Head(backlog)
      <4>1. /\ Head(backlog) = backlog[1]
            /\ DOMAIN backlog' = 1..(Len(backlog) - 1)
            /\ \A j \in 1..(Len(backlog) - 1) : backlog'[j] = backlog[j + 1]
        BY <1>0, <3>1, TailOf
      <4>2. i # 1
        BY <2>1, <3>3, <4>1
      <4>3. i - 1 \in DOMAIN backlog' /\ i - 1 \in 1..(Len(backlog) - 1)
            /\ (i - 1) + 1 = i
        BY <1>0, <4>1, <4>2
      <4>4. backlog'[i - 1] = k
        BY <2>1, <4>1, <4>3
      <4>5. QED
        BY <4>3, <4>4 DEF Queued
    <3>4. QED
      BY <3>2, <3>3
  <2>4. ASSUME NEW c \in Clients, Joins(c) PROVE k \in Queued'
    <3>1. /\ DOMAIN backlog' = 1..(Len(backlog) + 1)
          /\ \A j \in 1..Len(backlog) : backlog'[j] = backlog[j]
      BY <1>0, <2>4, AppendProperties, LenProperties DEF Joins
    <3>2. i \in DOMAIN backlog' /\ backlog'[i] = k
      BY <1>0, <2>1, <3>1
    <3>3. QED
      BY <3>2 DEF Queued
  <2>5. ASSUME NEW how \in Deaths, Die(how) PROVE FALSE
    <3>1. serverEnd'[k] = "rst"
      BY <1>1, <1>4, <2>5 DEF Die, Live
    <3>2. QED
      BY <3>1 DEF Live
  <2>6. QED
    BY <2>2, <2>3, <2>4, <2>5, QueueCases
<1>5. QED
  BY <1>0, <1>1, <1>2, <1>3, <1>4 DEF Attended
(* A connection that is not ended keeps its frames whole.                  *)
LEMMA WholeStep ==
  ASSUME IInv, Lined, Next, NEW k \in Links, WholeFrames(k), Attended(k)
  PROVE  WholeFrames(k)'
<1>0. TypeOK /\ TypeOK'
  BY TypesStep DEF IInv
<1>1. /\ recvmessage[k] \in Seq(Parts(Requests))
      /\ requests[k] \in Seq(Parts(Requests))
      /\ Packages(recvmessage[k]) # <<>> <=> Len(recvmessage[k]) >= 2
  BY <1>0, Lengths, PackagesOf
<1>2. PICK r \in Nat, q \in Nat :
        /\ r = Len(recvmessage[k]) /\ q = Len(requests[k]) /\ Held(k) = r + q
        /\ recvmessage[k] = <<>> <=> r = 0
        /\ requests[k] = <<>> <=> q = 0
  BY <1>0, Lengths
<1>3. backlog # <<>> => Head(backlog) \in Queued
  BY <1>0, QueueSteps
<1>4. Len(<<>>) = 0 /\ Len(<<>>) < 2
  BY EmptySeq
<1>5. /\ thread'[k] = "recv" => Len(recvmessage'[k]) < 2
      /\ thread'[k] = "none" => recvmessage'[k] = <<>>
  <2>1. CASE UNCHANGED <<thread[k], recvmessage[k]>>
    BY <2>1 DEF WholeFrames
  <2>2. CASE /\ backlog # <<>> /\ k = Head(backlog)
             /\ thread'[k] \in {"recv", "not created"}
             /\ UNCHANGED recvmessage[k]
    <3>1. recvmessage[k] = <<>>
      BY <1>3, <2>2 DEF Lined, WholeFrames
    <3>2. QED
      BY <1>4, <2>2, <3>1
  <2>3. CASE /\ thread[k] = "decode" /\ thread'[k] = "recv"
             /\ Packages(recvmessage[k]) = <<>> /\ UNCHANGED recvmessage[k]
    BY <1>1, <1>2, <2>3
  <2>4. CASE /\ thread'[k] = IF thread[k] = "none" THEN "none" ELSE "gone"
             /\ recvmessage'[k] = <<>>
    BY <2>4
  <2>5. CASE \/ thread[k] = "decode" /\ UNCHANGED thread[k]
             \/ thread[k] = "recv" /\ thread'[k] \in {"decode", "close"}
    BY <2>5
  <2>6. QED
    BY <2>1, <2>2, <2>3, <2>4, <2>5, ThreadCases
<1>6. ASSUME Live(k)' PROVE \E n \in Nat : Held(k)' = 2 * n
  <2>1. Live(k)
    BY <1>6, OneWay DEF Live
  <2>2. PICK n \in Nat : r + q = 2 * n
    BY <1>2, <2>1 DEF WholeFrames
  <2>3. CASE Quiet(k) \/ Read(k) \/ Left(k)
    BY <1>2, <2>2, <2>3 DEF Quiet, Read, Left, Held
  <2>4. CASE Moves(k)
    <3>1. PICK m \in 1..Len(requests[k]) :
            /\ recvmessage'[k] = Keep(recvmessage[k], SubSeq(requests[k], 1, m))
            /\ requests'[k] = From(requests[k], m + 1)
      BY <2>4 DEF Moves
    <3>2. m \in 1..q /\ m \in 0..Len(requests[k])
      BY <1>2, <3>1
    <3>3. /\ SubSeq(requests[k], 1, m) \in Seq(Parts(Requests))
          /\ Len(SubSeq(requests[k], 1, m)) = m
      BY <1>1, <3>2, FrontOf
    <3>4. Len(requests'[k]) = q - m
      BY <1>1, <1>2, <3>1, <3>2, RestOf
    <3>5. Len(recvmessage'[k]) = r + m
      <4>1. Len(recvmessage'[k])
              = Len(recvmessage[k]) + Len(SubSeq(requests[k], 1, m))
        BY <1>1, <3>1, <3>3, KeptWith
      <4>2. QED
        BY <1>2, <3>3, <4>1
    <3>6. Held(k)' = (r + m) + (q - m)
      BY <3>4, <3>5 DEF Held
    <3>7. QED
      BY <2>2, <3>2, <3>6
  <2>5. CASE Answered(k)
    <3>1. r >= 2
      BY <1>1, <1>2, <2>5 DEF Answered
    <3>2. 2 \in 0..Len(recvmessage[k]) /\ 2 + 1 = 3
      BY <1>2, <3>1
    <3>3. Len(From(recvmessage[k], 3)) = Len(recvmessage[k]) - 2
      BY <1>1, <3>2, RestOf
    <3>4. Held(k)' = (r - 2) + q
      BY <1>2, <2>5, <3>3 DEF Answered, Held
    <3>5. n - 1 \in Nat /\ (r - 2) + q = 2 * (n - 1)
      BY <2>2, <3>1
    <3>6. QED
      BY <3>4, <3>5
  <2>6. CASE Forgets(k)
    <3>1. recvmessage'[k] = <<>> /\ requests'[k] = <<>>
      BY <1>6, <2>1, <2>6 DEF Forgets, Live
    <3>2. Held(k)' = 2 * 0 /\ 0 \in Nat
      BY <1>4, <3>1 DEF Held
    <3>3. QED
      BY <3>2
  <2>7. CASE Carries(k)
    <3>1. PICK req \in Requests : requests'[k] = requests[k] \o InParts(req)
      BY <2>7 DEF Carries
    <3>2. InParts(req) \in Seq(Parts(Requests)) /\ Len(InParts(req)) = 2
      BY EncodedData
    <3>3. Len(requests'[k]) = q + 2
      <4>1. Len(requests[k] \o InParts(req))
              = Len(requests[k]) + Len(InParts(req))
        <5>1. /\ requests[k] \in Seq(Parts(Requests))
              /\ InParts(req) \in Seq(Parts(Requests))
          BY <1>1, <3>2
        <5>2. QED
          BY <5>1, ConcatProperties
      <4>2. QED
        BY <1>2, <3>1, <3>2, <4>1
    <3>4. Held(k)' = r + (q + 2)
      BY <1>2, <2>7, <3>3 DEF Carries, Held
    <3>5. n + 1 \in Nat /\ r + (q + 2) = 2 * (n + 1)
      BY <2>2
    <3>6. QED
      BY <3>4, <3>5
  <2>8. CASE Cut(k)
    BY <1>6, <2>8 DEF Cut, Live
  <2>9. QED
    BY <2>3, <2>4, <2>5, <2>6, <2>7, <2>8, LinkCases
<1>7. QED
  BY <1>5, <1>6 DEF WholeFrames

(* What a client waits for does not get lost.                              *)
LEMMA ExpectedStep ==
  ASSUME IInv, WInv, Next, NEW c \in Clients
  PROVE  Expected(c)'
<1>0. /\ TypeOK /\ Ways(c) /\ Ways(c)' /\ TypeOK' /\ Expected(c)
  BY TypesStep, WaysStep DEF IInv, WInv
<1> SUFFICES ASSUME pc'[c] = "recv", serverEnd'[Current(c)'] = "open"
             PROVE  responses'[Current(c)'] # <<>> \/ Held(Current(c))' # 0
  <2>1. Expected(c)' =
          (pc'[c] = "recv" /\ serverEnd'[Current(c)'] = "open" =>
             responses'[Current(c)'] # <<>> \/ Held(Current(c))' # 0)
    BY DEF Expected
  <2>2. QED
    BY <2>1
<1>1. CASE Away(c)
  <2>1. /\ pc[c] = "recv" /\ Current(c)' = Current(c) /\ link[c] # 0
    BY <1>0, <1>1 DEF Away, Current, Ways
  <2>2. PICK k \in Links : /\ k = Current(c) /\ k[1] = c /\ k[2] = link[c]
                           /\ link[c] \in Nat
    BY <1>0, <2>1, LinkOf
  <2>3. serverEnd'[k] = "open" /\ Current(c)' = k
    BY <2>1, <2>2
  <2>4. serverEnd[k] = "open"
    BY <2>2, <2>3, OneWay
  <2>5. Live(k)
    BY <2>1, <2>2, <2>4 DEF IInv, Ends, Live
  <2>6. responses[k] # <<>> \/ Held(k) # 0
    BY <1>0, <2>1, <2>2, <2>4 DEF Expected
  <2>7. k \in Queued \/ Served(k)
    BY <2>2, <2>5 DEF WInv, Attended
  <2>8. SUFFICES responses'[k] # <<>> \/ Held(k)' # 0
    BY <2>3 DEF Held
  <2>9. CASE Quiet(k) \/ Left(k)
    BY <2>6, <2>9 DEF Quiet, Left, Held
  <2>10. CASE Moves(k)
    <3>1. PICK m \in 1..Len(requests[k]) :
            recvmessage'[k] = Keep(recvmessage[k], SubSeq(requests[k], 1, m))
      BY <2>10 DEF Moves
    <3>2. /\ recvmessage[k] \in Seq(Parts(Requests))
          /\ requests[k] \in Seq(Parts(Requests))
          /\ Len(recvmessage[k]) \in Nat /\ Len(requests[k]) \in Nat
      BY <1>0, <2>2, Lengths
    <3>3. m \in 0..Len(requests[k]) /\ m \in Nat \ {0}
      BY <3>1, <3>2
    <3>4. /\ SubSeq(requests[k], 1, m) \in Seq(Parts(Requests))
          /\ Len(SubSeq(requests[k], 1, m)) = m
      BY <3>2, <3>3, FrontOf
    <3>5. Len(recvmessage'[k])
            = Len(recvmessage[k]) + Len(SubSeq(requests[k], 1, m))
      BY <3>1, <3>2, <3>4, KeptWith
    <3>6. Len(requests'[k]) \in Nat
      <4>1. requests'[k] \in Seq(Parts(Requests))
        BY <1>0 DEF TypeOK, LinkTypes
      <4>2. QED
        BY <4>1, LenProperties
    <3>7. PICK r \in Nat, q \in Nat :
            r = Len(recvmessage[k]) /\ q = Len(requests'[k])
      BY <3>2, <3>6
    <3>8. Held(k)' = r + m + q
      BY <3>4, <3>5, <3>7 DEF Held
    <3>9. QED
      BY <3>3, <3>8
  <2>11. CASE Answered(k)
    <3>1. PICK req : /\ responses'[k] = responses[k] \o InParts(Execute(req))
                     /\ req = Packages(recvmessage[k])[1]
                     /\ Packages(recvmessage[k]) # <<>> /\ ~Traps(req)
      BY <2>5, <2>11 DEF Answered, Live
    <3>2. req \in Requests
      BY <1>0, <2>2, <3>1, Lengths, PackagesOf
    <3>3. Execute(req) \in Responses
      BY <3>1, <3>2, ExecuteAnswers
    <3>4. /\ InParts(Execute(req)) \in Seq(Parts(Responses))
          /\ Len(InParts(Execute(req))) = 2
      BY <3>3, EncodedData
    <3>5. responses[k] \in Seq(Parts(Responses)) /\ Len(responses[k]) \in Nat
      BY <1>0, <2>2, Lengths
    <3>6. Len(responses[k] \o InParts(Execute(req)))
            = Len(responses[k]) + Len(InParts(Execute(req)))
      BY <3>4, <3>5, ConcatProperties
    <3>7. Len(responses'[k]) # 0
      BY <3>1, <3>4, <3>5, <3>6
    <3>8. QED
      BY <3>7, EmptySeq
  <2>12. CASE Forgets(k)
    BY <2>3, <2>5, <2>7, <2>12 DEF Forgets, Live, Served
  <2>13. CASE Carries(k) \/ Read(k)
    BY <2>1, <2>2, <2>13 DEF Carries, Read
  <2>14. CASE Cut(k)
    BY <2>3, <2>14 DEF Cut
  <2>15. QED
    BY <2>2, <2>9, <2>10, <2>11, <2>12, <2>13, <2>14, LinkCases
<1>2. CASE Client(c)
  <2>1. Send(c)
    <3>1. DOMAIN pc = Clients
      BY <1>0 DEF TypeOK, ClientTypes
    <3>2. CASE RecvResponse(c)
      BY <3>1, <3>2 DEF RecvResponse
    <3>3. CASE Retry(c)
      BY <3>1, <3>3 DEF Retry
    <3>4. QED
      BY <1>2, <3>1, <3>2, <3>3
      DEF Client, Run, Connect, Process, ReConnect, DisConnect, RecvFails
  <2>2. PICK req \in Asked, k \in Links :
          /\ k = Current(c)
          /\ requests' = IF serverEnd[k] # "open" THEN requests
                         ELSE [requests EXCEPT ![k] = @ \o InParts(req)]
          /\ Len(requests[k] \o InParts(req)) = Len(requests[k]) + 2
    BY <1>0, <2>1, SendEffect
  <2>3. Current(c)' = k /\ UNCHANGED recvmessage
    BY <1>2, <2>1, <2>2 DEF Send, Client, Current
  <2>4. serverEnd[k] = "open"
    BY <2>2, <2>3, OneWay
  <2>5. Len(requests'[k]) = Len(requests[k]) + 2
    BY <1>0, <2>2, <2>4 DEF TypeOK, LinkTypes
  <2>6. Len(recvmessage[k]) \in Nat /\ Len(requests[k]) \in Nat
    BY <1>0, Lengths
  <2>7. PICK r \in Nat, q \in Nat :
          r = Len(recvmessage[k]) /\ q = Len(requests[k])
    BY <2>6
  <2>8. Len(recvmessage'[k]) = r /\ Len(requests'[k]) = q + 2
    BY <2>3, <2>5, <2>7
  <2>9. Held(k)' = r + (q + 2)
    BY <2>8 DEF Held
  <2>10. Held(k)' # 0
    BY <2>9
  <2>11. QED
    BY <2>3, <2>10 DEF Held
<1>3. CASE Interrupt(c) \/ Exit(c)
  BY <1>0, <1>3 DEF Interrupt, Exit, TypeOK, ClientTypes
<1>4. QED
  BY <1>1, <1>2, <1>3, ClientCases

(* Nobody waits at the start, and every step keeps what is waited for.     *)
LEMMA WInvAlways == Spec => []WInv
<1>1. Init => WInv
  <2> SUFFICES ASSUME Init PROVE WInv
    OBVIOUS
  <2>1. backlog = <<>> /\ Queued = {}
    BY EmptySeq DEF Init, ServerInit, Queued
  <2>2. Lined
    BY <2>1, EmptySeq DEF Lined
  <2>3. ASSUME NEW k \in Links PROVE WholeFrames(k) /\ Attended(k)
    <3>1. /\ recvmessage[k] = <<>> /\ requests[k] = <<>> /\ thread[k] = "none"
      BY DEF Init, ServerInit, LinkInit
    <3>2. Held(k) = 2 * 0 /\ 0 \in Nat
      BY <3>1, EmptySeq DEF Held
    <3>3. link[k[1]] = 0 /\ k[2] \in Nat \ {0}
      BY SessionAssumption DEF Init, ClientInit, Links
    <3>4. QED
      BY <3>1, <3>2, <3>3 DEF WholeFrames, Attended
  <2>4. \A c \in Clients : Expected(c)
    BY DEF Init, ClientInit, Expected
  <2>5. QED
    BY <2>2, <2>3, <2>4 DEF WInv
<1>2. IInv /\ WInv /\ [Next]_vars => WInv'
  <2> SUFFICES ASSUME IInv, WInv, [Next]_vars PROVE WInv'
    OBVIOUS
  <2>1. CASE Next
    <3>1. Lined'
      BY <2>1, LinedStep DEF WInv
    <3>2. \A k \in Links : WholeFrames(k)' /\ Attended(k)'
      BY <2>1, WholeStep, AttendedStep DEF WInv
    <3>3. \A c \in Clients : Expected(c)'
      BY <2>1, ExpectedStep
    <3>4. QED
      BY <3>1, <3>2, <3>3 DEF WInv
  <2>2. CASE UNCHANGED vars
    <3> USE <2>2 DEF vars, serverVars, linkVars, clientVars
    <3>1. Lined'
      BY DEF WInv, Lined, Queued
    <3>2. ASSUME NEW k \in Links PROVE WholeFrames(k)' /\ Attended(k)'
      BY DEF WInv, WholeFrames, Attended, Live, Served, Held, Queued
    <3>3. ASSUME NEW c \in Clients PROVE Expected(c)'
      BY DEF WInv, Expected, Current, Held
    <3>4. QED
      BY <3>1, <3>2, <3>3 DEF WInv
  <2>3. QED
    BY <2>1, <2>2
<1>3. QED
  BY <1>1, <1>2, Invariance, PTL DEF Spec

(* The safety half of NeverLeftWaiting: a client that waits for a response *)
(* has one to read, or the end of the connection; or accept() has not      *)
(* returned the connection yet, or pthread_create() failed for it; or its  *)
(* thread has something to receive or to answer.  Nobody waits for a       *)
(* thread that waits for the client, whatever was torn, reset or started   *)
(* again before.                                                           *)
UnderwayTo(c) ==
  LET k == Current(c)
  IN  \/ responses[k] # <<>> \/ serverEnd[k] # "open"
      \/ k \in Queued \/ thread[k] = "not created"
      \/ thread[k] = "recv" /\ requests[k] # <<>>
      \/ thread[k] = "decode" /\
           (Packages(recvmessage[k]) # <<>> \/ requests[k] # <<>>)

(* No client waits for a thread that waits for the client.                 *)
THEOREM NobodyWaitsForNothing ==
  Spec => [](\A c \in Clients : pc[c] = "recv" => UnderwayTo(c))
<1>1. IInv /\ WInv => \A c \in Clients : pc[c] = "recv" => UnderwayTo(c)
  <2>0. SUFFICES ASSUME IInv, WInv, NEW c \in Clients, pc[c] = "recv",
                      serverEnd[Current(c)] = "open",
                      responses[Current(c)] = <<>>,
                      Current(c) \notin Queued,
                      thread[Current(c)] # "not created"
               PROVE  UnderwayTo(c)
    BY DEF UnderwayTo
  <2>1. PICK k \in Links : /\ k = Current(c) /\ k[1] = c /\ k[2] = link[c]
                           /\ link[c] \in Nat
    BY <2>0, LinkOf DEF IInv, Ways
  <2>2. Live(k) /\ thread[k] # "close"
    BY <2>0, <2>1 DEF IInv, Ends, Live
  <2>3. WholeFrames(k) /\ Attended(k) /\ Expected(c)
    BY <2>0, <2>1 DEF WInv
  <2>4. thread[k] \in {"recv", "decode"}
    <3>1. k \notin Queued /\ thread[k] # "not created"
      BY <2>0, <2>1
    <3>2. link[k[1]] = k[2] /\ k[2] \in Nat
      BY <2>1
    <3>3. k[2] <= link[k[1]]
      BY <3>2
    <3>4. QED
      BY <2>2, <2>3, <3>1, <3>3 DEF Attended, Served
  <2>5. PICK r \in Nat, q \in Nat :
          /\ r = Len(recvmessage[k]) /\ q = Len(requests[k])
          /\ Held(k) = r + q
          /\ requests[k] = <<>> <=> q = 0
          /\ Packages(recvmessage[k]) # <<>> <=> r >= 2
    BY <2>0, <2>1, Lengths, PackagesOf DEF IInv
  <2>6. PICK n \in Nat : r + q = 2 * n
    BY <2>2, <2>3, <2>5 DEF WholeFrames
  <2>7. r < 2 => requests[k] # <<>>
    <3>1. r + q # 0
      BY <2>0, <2>1, <2>3, <2>5 DEF Expected
    <3>2. r < 2 => q # 0
      BY <2>6, <3>1
    <3>3. QED
      BY <2>5, <3>2
  <2>8. thread[k] = "recv" => r < 2
    BY <2>3, <2>5 DEF WholeFrames
  <2>9. Packages(recvmessage[k]) # <<>> \/ requests[k] # <<>>
    BY <2>5, <2>7
  <2>10. thread[k] = "recv" => requests[k] # <<>>
    BY <2>7, <2>8
  <2>11. QED
    BY <2>1, <2>4, <2>9, <2>10 DEF UnderwayTo
<1>2. QED
  BY <1>1, Invariance, WInvAlways, PTL
=============================================================================
