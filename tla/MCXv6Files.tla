---------------------------- MODULE MCXv6Files ------------------------------
(* The system calls of the model-checked instances of Xv6Files.            *)
EXTENDS Xv6Files, TLC

CONSTANTS u1, u2

\* The processes are alike.
Both == Permutations({u1, u2})

Call(o, s) == [op |-> o, path |-> s, new |-> <<>>]
a  == <<"a">>
b  == <<"b">>
ab == <<"a", "b">>

\* Two processes about the names a, b and a/b.
SharedCalls ==
    {Call("create", ab), Call("create", b), Call("mkdir", b), Call("mknod", b),
     Call("mkbad", b), Call("unlink", a), Call("unlink", ab), Call("read", b),
     Call("read", <<DotDot>>), Call("rdwr", a), Call("trunc", ab), Call("chdir", a),
     Call("unlink", <<"a", DotDot>>)}
    \union {[op |-> "link", path |-> ab, new |-> n] : n \in {b, ab}}
=============================================================================
