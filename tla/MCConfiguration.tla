-------------------------- MODULE MCConfiguration ---------------------------
(* An instance of Configuration for TLC. *)
EXTENDS Configuration

CONSTANTS a, b, c, main, t1

AllNames == {a, b, c}

(* Two members of one object, or a key that goes on in another one. *)
Siblings == {<<a, b>>, <<a, c>>}
Nested == {<<a>>, <<a, b>>}
Family == Siblings \cup Nested

(* The owner alone sets entries and files work; others do, or files may fail. *)
CarefulAndNot ==
  { <<{main}, FALSE, Siblings>>, <<{main}, FALSE, Nested>>, <<{main}, TRUE, Siblings>>,
    <<{main, t1}, FALSE, Siblings>>, <<{main, t1}, TRUE, Nested>> }

(* What the theorem StorageAlwaysKeeps says, for all maps of these keys. *)
ASSUME StorageKeeps
=============================================================================
