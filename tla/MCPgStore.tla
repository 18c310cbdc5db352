------------------------------- MODULE MCPgStore ------------------------------
(***************************************************************************)
(* A small instance of PgStore for TLC: three payloads that share rows,    *)
(* one without edges, one without evidence (permission set groups are      *)
(* parsed, but not indexed).                                               *)
(***************************************************************************)
EXTENDS PgStore

Old == [nodes |-> <<"group">>, edges |-> <<"includes">>, documents |-> 1]
New == [nodes |-> <<"group", "set">>, edges |-> <<"includes">>, documents |-> 0]
Bare == [nodes |-> <<"set">>, edges |-> <<>>, documents |-> 1]
Stored == {Old, New, Bare}
==============================================================================
