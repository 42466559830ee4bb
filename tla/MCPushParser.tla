---------------------------- MODULE MCPushParser ----------------------------
(* Three contexts: an event consumer with a document that has text, blanks,  *)
(* nested elements and a comment after the root; another with a mismatched   *)
(* end tag; and a plain feed parser, which callbacks of the others use.      *)
EXTENDS PushParser
CONSTANTS p, q, r
Gt == <<"gt">>
MCCtxt == {p, q, r}
MCDoc  == (p :> <<<<"open","a">>, Gt, <<"blank">>, <<"open","b">>, Gt, <<"char">>, <<"char">>,
                  <<"close","b">>, Gt, <<"close","a">>, Gt, <<"comment">>, <<"uncomment">>>>)
       @@ (q :> <<<<"open","a">>, Gt, <<"close","b">>, Gt>>)
       @@ (r :> <<<<"open","a">>, Gt>>)
MCKind == (p :> "event") @@ (q :> "event") @@ (r :> "plain")
=============================================================================
