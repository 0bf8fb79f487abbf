----------------------------- MODULE BodyCodegen -----------------------------
(***************************************************************************)
(* The expression code generator on its own: FunctionAST::codegen() has    *)
(* just entered one function body, in a module that holds nothing else, in *)
(* a session that has the prototypes KnownProtos.                          *)
(***************************************************************************)
EXTENDS ExprCodegen

CONSTANT KnownProtos

ASSUME KnownProtosAssumption ==
  DOMAIN KnownProtos \subseteq Fn /\ \A f \in DOMAIN KnownProtos : KnownProtos[f] \in Seq(Var)

Init ==
  \E r \in Root :
    /\ stack = <<NewFrame(r)>>
    /\ result = Pending
    /\ NamedValues = ParamScope(r, Params[r])
    /\ FunctionProtos = Put(KnownProtos, FnName[r], Params[r])
    /\ TheModule = Put(EmptyMap, FnName[r], [args |-> Params[r], body |-> TRUE])
    /\ fn = NewFunction(FnName[r], r, Params[r])
    /\ fault = "none"

Next == Step

\* The generator is one thread of a process that keeps running.
Spec == Init /\ [][Next]_vars /\ WF_vars(Next)
=============================================================================
