---------------------------- MODULE MCPureAnswers ----------------------------
(* Two files for PureAnswers, one's name the end of the other's; providers     *)
(* whose names may hold the separators; and rules of the parser's evidence.    *)
EXTENDS PureAnswers

W        == <<"/w", "/">>
Index    == <<"index">>
LibIndex == <<"lib", "/", "index">>

External == {<<"/dep", "/", "index">>, <<"/dep", "/", "util">>}

Alike    == {Index, LibIndex}

Names == {<<"clangd">>, <<"clangd", "=", "x">>, <<"clangd", ";">>, <<"x">>}

SomeStamps == [provider : Names, version : {NoVersion, "1.0"}, capability : {"definition", "references"}]

\* Everything of up to three pieces, and some that look like a stamp.
SomeRules ==
  BoundedSeq({"lsp/1", "lsp/10", ";", "=", "provider", "x"}, 3)
    \cup {Rule([provider |-> <<"x">>, version |-> NoVersion, capability |-> "hover"]) }
=============================================================================
