---------------------------- MODULE MCFunctionSteps ---------------------------
(* An instance of FunctionSteps: top calls a and keeps the address of b, a  *)
(* calls b twice; a pass may let a or b call the library function lib, or b *)
(* call a, a recursion.                                                     *)
EXTENDS FunctionSteps

CONSTANTS top, a, b, lib

Point(f, g, id, type) == [caller |-> f, called |-> g, call_id |-> id, call_type |-> type]

MCFunction == {top, a, b, lib}
MCRoot == {top}
MCWithBody == {top, a, b}
MCBody == [f \in MCFunction |->
  CASE f = top -> {Point(top, a, 1, "direct_call"), Point(top, b, 2, "function_address")}
    [] f = a -> {Point(a, b, 3, "direct_call"), Point(a, b, 4, "direct_call")}
    [] OTHER -> {}]
MCNewCalls == [f \in MCFunction |->
  CASE f = top -> {Point(top, a, 5, "direct_call")}
    [] f = a -> {Point(a, lib, 6, "direct_call")}
    [] f = b -> {Point(b, a, 7, "direct_call")}
    [] OTHER -> {}]
===============================================================================
