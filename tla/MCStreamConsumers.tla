------------------------- MODULE MCStreamConsumers -------------------------
(* Start tags that shadow, redeclare, miss and clash; modes of every kind.   *)
EXTENDS StreamConsumers
T(name, decls, atts) == [name |-> name, decls |-> decls, atts |-> atts]
a == <<"", "a">>
b == <<"", "b">>
pa == <<"p", "a">>
MCTags == { T(a, <<>>, <<>>), T(b, <<<<"", "U">>, <<"q", "U">>>>, <<>>),
            T(a, <<<<"p", "U">>>>, <<>>), T(b, <<<<"p", "V">>>>, <<pa, <<"", "a">>>>),
            T(pa, <<>>, <<>>), T(b, <<>>, <<<<"p", "x">>, <<"q", "x">>>>),
            T(b, <<<<"xml", "XMLURI">>, <<"q", "XMLURI">>>>, <<>>),
            T(a, <<<<"", "">>>>, <<<<":", "x">>>>) }
MCModes == { <<"Depth", 1>>, <<"Path", <<a, b>>>>, <<"When", {<<a>>, <<a, a>>, <<b, b>>, <<a, b>>}>> }
P(sel, comb) == [sel |-> sel, comb |-> comb]
MCSelectors == { <<P({a}, "Start"), P({b}, "Child"), P({a}, "Descendant")>>,
                 <<P({a}, "Start"), P({<<"[", "x">>}, "Descendant")>> }
=============================================================================
