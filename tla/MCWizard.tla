----------------------------- MODULE MCWizard -------------------------------
(* Wizard for TLC: a source with two event types - the sample of one deeper than *)
(* the processor has room for, the other empty -, a target without event types, *)
(* one with two, and a transformation that is there for a pair of each.  The    *)
(* views are lower than what is in them: the headers of both lists can be       *)
(* scrolled off, of the targets only after "y" has been at the bottom.          *)
EXTENDS Wizard, TLC

MCManifest == <<
    [role |-> "source", name |-> "s", types |-> {"e1", "e2"}, contexts |-> {}, data |-> <<>>],
    [role |-> "target", name |-> "t", types |-> {}, contexts |-> {}, data |-> <<>>],
    [role |-> "target", name |-> "u", types |-> {"x", "y"}, contexts |-> {}, data |-> <<>>],
    [role |-> "none", name |-> "old", types |-> {}, contexts |-> {<<"e1", "u">>, <<"e2", "t">>},
     data |-> <<Group("shift", <<Path(<<"k", ":", "v">>, <<>>)>>), Group("delete", <<Path(<<"a">>, <<>>)>>)>>] >>

L(d, k) == [depth |-> d, key |-> k]
MCRegistry == ("e1" :> <<Open, L(1, "a"), L(2, "b"), L(1, "}"), L(1, "e"), L(2, ""), L(3, "f"),
                         L(4, "g"), L(3, "}"), L(2, "}"), L(1, "]"), Close>>
               @@ "e2" :> <<Empty>>)
MCJunk == <<Group("?", <<>>)>>
(* A key twice.                                                               *)
MCEdits == {<<Group("store", <<Path(<<"v">>, <<"b">>), Path(<<"v">>, <<"a">>)>>)>>}
MCHeight == ("sources" :> 2 @@ "targets" :> 3 @@ "sourceEvent" :> 4)
MCValues == {<<>>, <<"v">>}
=============================================================================
