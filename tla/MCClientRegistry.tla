-------------------------- MODULE MCClientRegistry --------------------------
(***************************************************************************)
(* ClientRegistry on two local connections, one of a full token and one of *)
(* a read-only token.                                                      *)
(***************************************************************************)
EXTENDS ClientRegistry, TLC

CONSTANTS l1, l2, t1, v1, i1, i2, local, full, watch

MCConns == {l1, l2, t1, v1}
LiveConns == {l1, t1, v1}
MCIds == {i1, i2}
LiveIds == {i1}
MCPrincipals == {local, full, watch}
MCPrincipal == [c \in Conns |-> CASE c \in {l1, l2} -> local
                                  [] c = t1 -> full
                                  [] OTHER -> watch]
MCViewers == Conns \cap {v1}
MCAnon == [c \in Conns |-> <<"anon", c>>]
MCSymmetry == Permutations({i1, i2}) \cup Permutations({l1, l2})
=============================================================================
