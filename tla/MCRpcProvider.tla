---------------------------- MODULE MCRpcProvider -----------------------------
(* RpcProvider on a small instance.  int has 2 bits and long has 3, so     *)
(* that 1 fits both, 3 fits long, and 6 neither.  A unit is a half.  A     *)
(* float has one binary digit and ends at 4; a double has a few more.     *)
EXTENDS RpcProvider, TLC

Param(n, t) == [name |-> n, type |-> t]
Json(kind, v) == [kind |-> kind, value |-> v]

PlusMinus(S) == S \cup {-v : v \in S}
MCFloatValues == PlusMinus({0, 1, 2, 4, 8})
MCDoubleValues == MCFloatValues \cup {-3, 3, 5, 12, 16, 20}

MCSignatures ==
    {[ret |-> "int", params |-> <<Param("a", "int"), Param("b", "bool")>>],
     [ret |-> "int", params |-> <<Param("b", "float"), Param("a", "long")>>],
     [ret |-> "string", params |-> <<Param("a", "vector<int>"), Param("b", "double")>>],
     [ret |-> "int", params |-> <<Param("b", "other")>>]}

\* Numbers in range and out of it, fractions and numbers with too many digits;
\* arguments of the wrong kind, missing, too many.
MCRequests ==
    {[name |-> "f", ret |-> "int", args |-> [b |-> Json("boolean", 1), a |-> Json("integer", 3)]],
     [name |-> "f", ret |-> "int", args |-> [a |-> Json("float", -3), b |-> Json("boolean", 0)]],
     [name |-> "f", ret |-> "int", args |-> [a |-> Json("float", 12), b |-> Json("float", 5)]],
     [name |-> "f", ret |-> "int", args |-> [a |-> Json("string", "x")]],
     [name |-> "g", ret |-> "string",
      args |-> [a |-> Json("array", <<Json("float", 3), Json("boolean", 1)>>),
                b |-> Json("integer", 9)]],
     [name |-> "g", ret |-> "string", args |-> [a |-> Json("array", <<Json("string", "x")>>)]]}

Symmetry == Permutations(Calls)
===============================================================================
