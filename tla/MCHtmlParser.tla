---------------------------- MODULE MCHtmlParser ----------------------------
(* Attributes for TLC: none, one, and one that is given twice. *)
EXTENDS HtmlParser

CONSTANTS a, b, br

Plain == {<<>>}
WithAttributes == {<<>>, << <<"x", 1>> >>, << <<"x", 2>>, <<"x", 1>> >>}
AttrNames == {"x"}
AttrValues == {1, 2}
Asked == {<<"x", 1>>}
=============================================================================
