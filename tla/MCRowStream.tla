----------------------------- MODULE MCRowStream -----------------------------
(***************************************************************************)
(* Instance of RowStream for TLC: texts of up to two bytes, among them the *)
(* ones that mean something to the scanner.                                *)
(***************************************************************************)
EXTENDS RowStream

ShortTexts == BoundedSeq({"x", "q", "b", "{", "}"}, 2)

(* [1,2] as in the test rejects_non_object_array_items, and an object.     *)
NoRows == {<<"[", "x", ",", "x", "]">>, <<"{", "q", "x", "q", "}">>}
=============================================================================
