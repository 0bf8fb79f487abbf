------------------------------ MODULE ExprTrees ------------------------------
(***************************************************************************)
(* Expression trees written as nested records, and their translation into  *)
(* the node tables KaleidoscopeAST is parameterised by.  Used by the       *)
(* modules that instantiate the specifications for TLC.                    *)
(*                                                                         *)
(* Node <<i, p>> is the subtree of tree i that the path p leads to.        *)
(***************************************************************************)
EXTENDS Integers, Sequences, SequencesExt

Tree(kind, name, names, kids) ==
  [kind |-> kind, name |-> name, names |-> names, kids |-> kids]

Absent == Tree("absent", "", <<>>, <<>>)

N          == Tree("num", "_", <<>>, <<>>)
V(v)       == Tree("var", v, <<>>, <<>>)
Un(op, x)  == Tree("unary", op, <<>>, <<x>>)
Bin(op, x, y) == Tree("binary", op, <<>>, <<x, y>>)
Fun(c, args)  == Tree("call", c, <<>>, args)
IfE(c, t, e)  == Tree("if", "_", <<>>, <<c, t, e>>)
ForE(v, start, body, end) == Tree("for", v, <<v>>, <<start, body, end>>)
ForStep(v, start, body, step, end) == Tree("for", v, <<v>>, <<start, body, step, end>>)
VarE(names, inits, body) == Tree("varin", "_", names, Append(inits, body))

RECURSIVE Paths(_)
Paths(t) ==
  {<<>>} \cup UNION {{<<k>> \o p : p \in Paths(t.kids[k])} :
                     k \in {j \in 1..Len(t.kids) : t.kids[j] # Absent}}

RECURSIVE SubTree(_, _)
SubTree(t, p) == IF p = <<>> THEN t ELSE SubTree(t.kids[Head(p)], Tail(p))

RootsOf(trees) == {<<i, <<>>>> : i \in 1..Len(trees)}
\* All nodes, in time quadratic in their number: for a few large trees.
NodesOf(trees) == UNION {{<<i, p>> : p \in Paths(trees[i])} : i \in 1..Len(trees)}
\* The same for many small trees, of depth at most d and at most four children.
RECURSIVE IsPath(_, _)
IsPath(t, p) ==
  \/ p = <<>>
  \/ /\ Head(p) <= Len(t.kids)
     /\ t.kids[Head(p)] # Absent
     /\ IsPath(t.kids[Head(p)], Tail(p))
ShallowNodesOf(trees, d) ==
  {n \in (1..Len(trees)) \X (UNION {[1..k -> 1..4] : k \in 0..d}) :
     IsPath(trees[n[1]], n[2])}

AstOf(trees, nodes, none) ==
  [n \in nodes |->
     LET t == SubTree(trees[n[1]], n[2])
     IN  [t EXCEPT !.kids = [k \in 1..Len(t.kids) |->
            IF t.kids[k] = Absent THEN none ELSE <<n[1], Append(n[2], k)>>]]]

(***************************************************************************)
(* The lexical environment of the subtree at path p, by walking down from  *)
(* the parameters: env is the environment of t, path the way to t.         *)
(***************************************************************************)
Inner(t, i, path, k, env) ==
  LET bound == IF t.kind = "for" THEN (IF k = 1 THEN 0 ELSE 1)
               ELSE IF t.kind = "varin" THEN k - 1 ELSE 0
      Ix(v) == {j \in 1..bound : t.names[j] = v}
  IN  [v \in DOMAIN env |->
         IF Ix(v) = {} THEN env[v]
         ELSE <<"local", <<i, path>>, CHOOSE j \in Ix(v) : \A m \in Ix(v) : m <= j>>]

RECURSIVE EnvAt(_, _, _, _, _)
EnvAt(t, i, path, rest, env) ==
  IF rest = <<>> THEN env
  ELSE EnvAt(t.kids[Head(rest)], i, Append(path, Head(rest)), Tail(rest),
             Inner(t, i, path, Head(rest), env))

ArgEnv(i, params, variables) ==
  [v \in variables |->
     IF \E j \in 1..Len(params) : params[j] = v
       THEN <<"arg", <<i, <<>>>>, CHOOSE j \in 1..Len(params) : params[j] = v>>
       ELSE <<>>]

LexEnvOf(trees, nodes, params, variables) ==
  [n \in nodes |->
     EnvAt(trees[n[1]], n[1], <<>>, n[2], ArgEnv(n[1], params[n[1]], variables))]
=============================================================================
