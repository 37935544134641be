----------------------------- MODULE MCGraphPath ----------------------------
(***************************************************************************)
(* Every graph made of up to six of eight edges, declared in any order.    *)
(* Among the edges are a self-loop, a cycle, two from one source to one    *)
(* target, and walks of two and of three steps to the state e.             *)
(***************************************************************************)
EXTENDS GraphPath

CONSTANTS a, b, c, d, e

MCState == {a, b, c, d, e}

Edge(s, t) == [from |-> s, to |-> t]
Pool == <<Edge(a, b), Edge(a, c), Edge(b, e), Edge(c, d), Edge(d, e),
          Edge(d, a), Edge(a, c), Edge(a, a)>>

\* Injective sequences of positions of Pool.
Orders(n) == {f \in [1 .. n -> DOMAIN Pool] :
                \A i, j \in 1 .. n : f[i] = f[j] => i = j}
MCEdges == UNION {{[k \in 1 .. n |-> Pool[f[k]]] : f \in Orders(n)} : n \in 0 .. 6}
=============================================================================
