--------------------------- MODULE MCStringTable ---------------------------
(* Strings of three lengths: short ones, and one that is longer than what a  *)
(* fourfold buffer of eight bytes would add.                                 *)
EXTENDS StringTable

MCStrings == {"a", "abc", "long"}
MCLength == [s \in MCStrings |->
    CASE s = "a" -> 1 [] s = "abc" -> 3 [] s = "long" -> 30]
=============================================================================
