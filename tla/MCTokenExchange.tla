-------------------------- MODULE MCTokenExchange --------------------------
(***************************************************************************)
(* Four ids: two of one principal, p1, who may delegate to p2, who may     *)
(* delegate to p3; p3 and an unregistered client delegate to nobody.  Two  *)
(* resource servers; a base token of 3 instants over both, and one of the  *)
(* default lifetime.  The server demands nonces of clients with DPoP keys. *)
(***************************************************************************)
EXTENDS TokenExchange, TLC

MCIds == {"sup", "sup2", "spec", "sub", "stranger"}
MCPrincipal == ("sup" :> "p1") @@ ("sup2" :> "p1") @@ ("spec" :> "p2") @@ ("sub" :> "p3")
MCPolicy == ("p1" :> "p2") @@ ("p2" :> "p3")

R1 == [at |-> "rs1", pair |-> "read"]
W1 == [at |-> "rs1", pair |-> "write"]
R2 == [at |-> "rs2", pair |-> "read"]

MCPhase1 ==
  <<[client |-> "sup", audience |-> "rs1", scope |-> {"mcp", "admin"}, details |-> {R1, W1, R2},
     lifetime |-> 3],
    [client |-> "spec", audience |-> "rs1", scope |-> {"mcp"}, details |-> {R1}, lifetime |-> 0]>>

Ask(client, actor) ==
  [client |-> client, authentic |-> TRUE, actor |-> actor, signer |-> actor, assertionExp |-> 3,
   details |-> {R1}, wellFormed |-> TRUE, resource |-> "rs1",
   asksScope |-> TRUE, scope |-> {"mcp"}, asksLifetime |-> FALSE, lifetime |-> 0,
   key |-> None, nonce |-> 0, proves |-> TRUE]

Asks ==
  UNION {{a,
          [a EXCEPT !.asksScope = FALSE, !.details = {R1, W1}],
          [a EXCEPT !.details = {R1, R2}],
          [a EXCEPT !.asksLifetime = TRUE, !.lifetime = 1],
          [a EXCEPT !.asksLifetime = TRUE, !.lifetime = 3, !.scope = {"mcp", "admin"}],
          [a EXCEPT !.key = "k"], [a EXCEPT !.key = "k", !.nonce = 1]} :
         a \in {Ask("sup", "spec"), Ask("spec", "sub")}}

(* ... and one request for each way of being turned away. *)
Turned ==
  LET a == Ask("sup", "spec")
  IN  {[a EXCEPT !.authentic = FALSE], [a EXCEPT !.client = "stranger"],
       [a EXCEPT !.signer = "sup"], [a EXCEPT !.actor = "stranger"],
       [a EXCEPT !.assertionExp = 0], [a EXCEPT !.resource = "rs2"],
       [a EXCEPT !.wellFormed = FALSE], [a EXCEPT !.asksLifetime = TRUE, !.lifetime = -1],
       [a EXCEPT !.key = "k", !.proves = FALSE], [a EXCEPT !.key = "k", !.nonce = 2, !.proves = FALSE],
       [a EXCEPT !.key = "k", !.asksLifetime = TRUE, !.lifetime = 2]}

MCRequests == Asks \cup Turned \cup {Ask("sup2", "spec"), Ask("sup2", "sub"), Ask("sub", "spec")}
=============================================================================
