------------------------------ MODULE Calculate ------------------------------
(***************************************************************************)
(* The service behind the calculator programs: Calculate::Execute (the     *)
(* same in tcp_server_cal and reactor), on two's complement integers of a  *)
(* parameterised width.  The programs are built without optimisation, so   *)
(* that signed arithmetic wraps around; dividing the least integer by -1   *)
(* raises SIGFPE, which ends the process.                                  *)
(***************************************************************************)
EXTENDS Integers

CONSTANT IntMax   (* INT_MAX: 2^31 - 1 for an int of 32 bits                *)

ASSUME CalculateAssumption == IntMax \in Nat \ {0}

IntMin == -IntMax - 1
Ints == IntMin..IntMax

(* opers: the operators a client may ask for.                              *)
Opers == {"+", "-", "*", "/", "%", "&", "^"}

Requests == [x : Ints, y : Ints, oper : Opers]

(* _flag: 0 is right, 1 a division by 0, 2 a modulo by 0, 3 a bad operator *)
Flags == 0..3

Responses == [flag : Flags, result : Ints]

(* Modulo the number of ints, which is 2^32 there.                         *)
Wrap(n) == ((n - IntMin) % (2 * (IntMax + 1))) + IntMin

(* C++ divides towards zero, and a remainder has the sign of x.            *)
Abs(n) == IF n < 0 THEN -n ELSE n

Quotient(x, y) ==
  IF (x < 0) = (y < 0) THEN Abs(x) \div Abs(y) ELSE -(Abs(x) \div Abs(y))

(* Variant of Remainder: the sign of x is lost.                            *)
RemainderUnsigned(x, y) == Abs(x) % Abs(y)

Remainder(x, y) == IF x < 0 THEN -(Abs(x) % Abs(y)) ELSE Abs(x) % Abs(y)

Right(n) == [flag |-> 0, result |-> n]
Wrong(flag) == [flag |-> flag, result |-> 0]

Execute(req) ==
  CASE req.oper = "+" -> Right(Wrap(req.x + req.y))
    [] req.oper = "-" -> Right(Wrap(req.x - req.y))
    [] req.oper = "*" -> Right(Wrap(req.x * req.y))
    [] req.oper = "/" -> IF req.y = 0 THEN Wrong(1)
                         ELSE Right(Quotient(req.x, req.y))
    [] req.oper = "%" -> IF req.y = 0 THEN Wrong(2)
                         ELSE Right(Remainder(req.x, req.y))
    [] OTHER -> Wrong(3)

Traps(req) == req.oper \in {"/", "%"} /\ req.x = IntMin /\ req.y = -1

-----------------------------------------------------------------------------
(* What the answer to a request has to be, said without computing it: a    *)
(* sum, difference or product is exact as far as it is an int; a quotient  *)
(* is the exact one rounded towards zero; a remainder is what is left of   *)
(* x, with its sign; the flag says what was wrong, if anything was.        *)
Towards(n, x) == (n = 0 \/ (n < 0) = (x < 0)) /\ Abs(n) <= Abs(x)

Answers(resp, req) ==
  LET n == resp.result
      x == req.x
      y == req.y
      Exact(m) == m \in Ints => n = m
  IN  /\ resp.flag = 1 <=> req.oper = "/" /\ y = 0
      /\ resp.flag = 2 <=> req.oper = "%" /\ y = 0
      /\ resp.flag = 3 <=> req.oper \notin {"+", "-", "*", "/", "%"}
      /\ resp.flag = 0 =>
           /\ req.oper = "+" => Exact(x + y)
           /\ req.oper = "-" => Exact(x - y)
           /\ req.oper = "*" => Exact(x * y)
           /\ req.oper = "/" => Towards(n * y, x) /\ Abs(x - n * y) < Abs(y)
           /\ req.oper = "%" => Towards(n, x) /\ Abs(n) < Abs(y)
                                /\ \E k \in Ints : k * y = x - n
=============================================================================
