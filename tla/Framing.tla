------------------------------- MODULE Framing -------------------------------
(***************************************************************************)
(* The protocol of the calculator programs (Protocol.hpp of tcp_server_cal *)
(* and of reactor) over a byte stream that is cut anywhere: Encode and     *)
(* Decode, the text form of requests and responses (the build with SELF;   *)
(* JsonCpp takes its place in the other), and the receive loops that call  *)
(* Decode until it returns nothing (PackageParse::Parse,                   *)
(* Service::AddService).                                                   *)
(*                                                                         *)
(* Bytes are ASCII codes.  The programs send requests, other clients send  *)
(* payloads that do not parse: DeSerialize returns false, which nobody     *)
(* looks at, or std::stoi throws, which nobody catches.                    *)
(***************************************************************************)
EXTENDS Calculate, Sequences, SequencesExt

CONSTANTS
  Requested,  (* the requests that are sent                                 *)
  Strange,    (* the payloads that are sent and are none                    *)
  MaxFrames,  (* bound: frames sent                                         *)
  MaxChunk    (* bytes one recv() may return                                *)

ASSUME FramingAssumption ==
  /\ Requested \subseteq Requests
  /\ \A p \in Strange : p \in Seq(1..127) /\ p # <<>>
  /\ MaxFrames \in Nat
  /\ MaxChunk \in Nat \ {0}

CR == 13
LF == 10
SEP == <<CR, LF>>

BLANK == 32
MINUS == 45
Zero == 48

(* std::to_string.                                                         *)
Decimal(n) ==
  LET text[m \in 0..n] ==
        IF m < 10 THEN <<Zero + m>>
        ELSE Append(text[m \div 10], Zero + (m % 10))
  IN  text[n]

IntToText(n) == IF n < 0 THEN <<MINUS>> \o Decimal(-n) ELSE Decimal(n)

(* std::stoi: a sign and the digits behind it; it throws if there is none. *)
Unsigned(text) == IF text[1] = MINUS THEN Tail(text) ELSE text

Digits(text) ==
  LET end == SelectInSeq(text, LAMBDA b : b \notin Zero..(Zero + 9))
  IN  SubSeq(text, 1, IF end = 0 THEN Len(text) ELSE end - 1)

Throws(text) == text = <<>> \/ Digits(Unsigned(text)) = <<>>

Value(digits) ==
  LET value[i \in 0..Len(digits)] ==
        IF i = 0 THEN 0 ELSE 10 * value[i - 1] + (digits[i] - Zero)
  IN  value[Len(digits)]

Stoi(text) ==
  LET n == Value(Digits(Unsigned(text)))
  IN  IF text[1] = MINUS THEN -n ELSE n

Encode(payload) == Decimal(Len(payload)) \o SEP \o payload \o SEP

(* std::string::find: the least position of the separator, 0 for none.     *)
Find(buf) ==
  LET at == {i \in 1..(Len(buf) - 1) : buf[i] = CR /\ buf[i + 1] = LF}
  IN  IF at = {} THEN 0 ELSE Min(at)

(* std::string::substr takes what there is, if that is less than n.        *)
Substr(buf, from, n) == SubSeq(buf, from, Min({from + n - 1, Len(buf)}))

(* Variant of Total: one of the two separators is forgotten.               *)
TotalOneSeparator(pos, data) == (pos - 1) + Len(SEP) + data

(* total_len: the bytes of a frame whose first separator is at pos.        *)
Total(pos, data) == (pos - 1) + 2 * Len(SEP) + data

Complete(buf, pos, data) == Len(buf) >= Total(pos, data)

(* Decode returns the payload of the first frame and erases the frame, or  *)
(* returns the empty string and leaves the buffer alone.                   *)
Decode(buf) ==
  LET pos == Find(buf)
      data == Stoi(SubSeq(buf, 1, pos - 1))
  IN  IF pos > 1 /\ Complete(buf, pos, data)
      THEN [payload |-> Substr(buf, pos + Len(SEP), data),
            rest |-> SubSeq(buf, Total(pos, data) + 1, Len(buf))]
      ELSE [payload |-> <<>>, rest |-> buf]

-----------------------------------------------------------------------------
(* The text of a request, "x oper y", and of a response, "result flag      *)
(* equation".                                                              *)
Char == [oper \in Opers |->
           CASE oper = "+" -> 43 [] oper = "-" -> MINUS [] oper = "*" -> 42
             [] oper = "/" -> 47 [] oper = "%" -> 37
             [] oper = "&" -> 38 [] oper = "^" -> 94]

Serialize(req) ==
  IntToText(req.x) \o <<BLANK, Char[req.oper], BLANK>> \o IntToText(req.y)

(* find() and rfind() of CAL_SEP: 0 for none.                              *)
LeftBlank(text) == SelectInSeq(text, LAMBDA b : b = BLANK)
SecondBlank(text) == LET left == LeftBlank(text)
                    more == LeftBlank(SubSeq(text, left + 1, Len(text)))
                IN  IF more = 0 THEN 0 ELSE left + more
LastBlank(text) == SelectLastInSeq(text, LAMBDA b : b = BLANK)

(* Between the blanks at left and right there is one byte, in front of the *)
(* first and behind the second there is something.                         *)
WellFormed(text, left, right) ==
  left > 1 /\ right = left + 2 /\ right < Len(text)

Before(text, pos) == SubSeq(text, 1, pos - 1)
Behind(text, pos) == SubSeq(text, pos + 1, Len(text))

IsRequest(text) == WellFormed(text, LeftBlank(text), LastBlank(text))

(* std::stoi throws for the number in front or the one behind.             *)
RequestThrows(text) ==
  IsRequest(text) /\ (\/ Throws(Before(text, LeftBlank(text)))
                     \/ Throws(Behind(text, LastBlank(text))))

DeSerialize(text) ==
  [x |-> Stoi(Before(text, LeftBlank(text))),
   y |-> Stoi(Behind(text, LastBlank(text))),
   oper |-> CHOOSE oper \in Opers : Char[oper] = text[LastBlank(text) - 1]]

(* The equation of a right answer shows the request, that of a wrong one   *)
(* is a fixed text.                                                        *)
Equation(req, resp) ==
  IF resp.flag # 0 THEN <<120>>
  ELSE Serialize(req) \o <<BLANK, 61, BLANK>> \o IntToText(resp.result)

SerializeResponse(resp, equation) ==
  IntToText(resp.result) \o <<BLANK>> \o Decimal(resp.flag) \o <<BLANK>> \o equation

(* Response::DeSerialize; nothing when it returns false.                   *)
DeSerializeResponse(text) ==
  IF ~WellFormed(text, LeftBlank(text), SecondBlank(text)) THEN <<>>
  ELSE <<[result |-> Stoi(Before(text, LeftBlank(text))),
          flag |-> text[SecondBlank(text) - 1] - Zero,
          equation |-> Behind(text, SecondBlank(text))]>>

-----------------------------------------------------------------------------
VARIABLES
  sent,      (* what has been sent, in order: payloads and their requests   *)
  wire,      (* bytes on their way                                          *)
  inbuffer,  (* Connection::_inbuffer, recvmessage                          *)
  req,       (* req of the receiver, <<>> as long as it is uninitialised    *)
  executed,  (* what the receiver has executed, in order                    *)
  answers,   (* the payloads of its answers, <<>> for an unknown one        *)
  stage      (* the receiver waits in recv, is in the Decode loop, or ended *)

framingVars == <<sent, wire, inbuffer, req, executed, answers, stage>>

FramingInit ==
  /\ sent = <<>> /\ wire = <<>> /\ inbuffer = <<>>
  /\ req = <<>> /\ executed = <<>> /\ answers = <<>>
  /\ stage = "recv"

(* A request, or something else.                                           *)
Asks(r) == [payload |-> Serialize(r), request |-> <<r>>]
Says(text) == [payload |-> text, request |-> <<>>]

SendFrame(message) ==
  /\ Len(sent) < MaxFrames
  /\ sent' = Append(sent, message)
  /\ wire' = wire \o Encode(message.payload)
  /\ UNCHANGED <<inbuffer, req, executed, answers, stage>>

(* The loop over what has arrived begins with a new req.                   *)
RecvBytes(n) ==
  /\ stage = "recv"
  /\ n <= Len(wire)
  /\ inbuffer' = inbuffer \o SubSeq(wire, 1, n)
  /\ wire' = SubSeq(wire, n + 1, Len(wire))
  /\ req' = <<>>
  /\ stage' = "decode"
  /\ UNCHANGED <<sent, executed, answers>>

ParseDone ==
  /\ stage = "decode"
  /\ Decode(inbuffer).payload = <<>>
  /\ stage' = "recv"
  /\ UNCHANGED <<sent, wire, inbuffer, req, executed, answers>>

(* Execute and Serialize.  A payload that does not parse has the request   *)
(* before it executed once more, or an uninitialised one.                  *)
Parse ==
  LET frame == Decode(inbuffer)
      text == frame.payload
  IN  /\ stage = "decode" /\ text # <<>> /\ ~RequestThrows(text)
      /\ inbuffer' = frame.rest
      /\ req' = IF IsRequest(text) THEN <<DeSerialize(text)>> ELSE req
      /\ req' # <<>> => ~Traps(req'[1])
      /\ executed' = Append(executed, req')
      /\ answers' = Append(answers,
                      IF req' = <<>> THEN <<>>
                      ELSE LET resp == Execute(req'[1])
                           IN  SerializeResponse(resp, Equation(req'[1], resp)))
      /\ UNCHANGED <<sent, wire, stage>>

(* An exception, or SIGFPE, which an uninitialised request may raise, too. *)
ParseEnds ==
  LET text == Decode(inbuffer).payload
  IN  /\ stage = "decode" /\ text # <<>>
      /\ \/ RequestThrows(text)
         \/ ~IsRequest(text) /\ req = <<>>
         \/ IsRequest(text) /\ Traps(DeSerialize(text))
      /\ stage' = "ended"
      /\ UNCHANGED <<sent, wire, inbuffer, req, executed, answers>>

FramingNext ==
  \/ \E r \in Requested : SendFrame(Asks(r))
  \/ \E text \in Strange : SendFrame(Says(text))
  \/ \E n \in 1..MaxChunk : RecvBytes(n)
  \/ Parse \/ ParseDone \/ ParseEnds

FramingSpec == FramingInit /\ [][FramingNext]_framingVars

-----------------------------------------------------------------------------
(* Encoded(messages)[i]: the bytes of all frames from the i-th on.         *)
Encoded(messages) ==
  LET bytes[i \in 1..(Len(messages) + 1)] ==
        IF i > Len(messages) THEN <<>>
        ELSE Encode(messages[i].payload) \o bytes[i + 1]
  IN  bytes

(* The answer its client reads for a request.                              *)
Read(answer, r) ==
  LET resp == Execute(r)
  IN  DeSerializeResponse(answer) =
        <<[result |-> resp.result, flag |-> resp.flag,
           equation |-> Equation(r, resp)]>>

(* Wherever the stream is cut, the receiver and its client stay in step:   *)
(* one request is executed for every frame, and it is the one that was     *)
(* sent, and the answer its client reads is the answer to it, whatever     *)
(* payloads that do not parse come before and after; what is not executed  *)
(* yet is there to the byte.  And the receiver goes back to recv() only    *)
(* when no complete frame is left in its buffer.                           *)
StreamKept ==
  LET n == Len(executed)
  IN  /\ inbuffer \o wire = Encoded(sent)[n + 1]
      /\ \A i \in 1..n :
           sent[i].request # <<>> =>
             executed[i] = sent[i].request /\ Read(answers[i], executed[i][1])
      /\ stage = "recv" /\ n < Len(sent) =>
           Len(inbuffer) < Len(Encode(sent[n + 1].payload))
=============================================================================
