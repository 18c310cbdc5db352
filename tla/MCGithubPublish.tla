---------------------------- MODULE MCGithubPublish ---------------------------
(***************************************************************************)
(* A small instance of GithubPublish for TLC: the product's repository,    *)
(* one of the operator's, one that can be created, and one proof. A page   *)
(* has one item.                                                           *)
(***************************************************************************)
EXTENDS GithubPublish

CONSTANTS h1, h2, product, mine, fresh, packet

Ask(op) == [op |-> op, repo |-> None, proof |-> None, token |-> None, limit |-> 0]
Publications ==
    {[Ask("publish") EXCEPT !.repo = mine, !.proof = packet],
     [Ask("publish") EXCEPT !.proof = packet, !.token = packet]}
Refused == {[Ask("publish") EXCEPT !.repo = fresh, !.proof = packet]}
Bindings == {[Ask("select") EXCEPT !.repo = product], [Ask("create") EXCEPT !.repo = fresh],
             Ask("binding"), Ask("login")}
Others == {Ask("dispatch"), [Ask("files") EXCEPT !.repo = mine, !.limit = 2]}
AllAsked == Publications \cup Refused \cup Bindings \cup Others

Alike == Permutations(Handlers)
==============================================================================
