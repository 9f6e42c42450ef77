----------------------------- MODULE MCGateway -----------------------------
(***************************************************************************)
(* Gateway on small instances: two libraries; a server for a confined and  *)
(* a trusted agent, one where both share a token, and one for nobody.      *)
(***************************************************************************)
EXTENDS Gateway

CONSTANTS l1, l2, a, b, t1, t2

Confining(token) == [name |-> a, token |-> token, scope |-> {l1}]
Trusting(token) == [name |-> b, token |-> token, scope |-> None]

MCStartup ==
  {<< >>, <<Confining(t1), Trusting(t2)>>, <<Trusting(t1), Confining(t1)>>}

=============================================================================
