------------------------------ MODULE MCLdSoConf ------------------------------
(***************************************************************************)
(* LdSoConf with three files: every way to include one another, twice at   *)
(* most, one of them missing or damaged.                                   *)
(***************************************************************************)
EXTENDS LdSoConf

MCDefaults == <<"lib", "usr/lib">>

Upto2(S) == {<<>>} \cup {<<x>> : x \in S} \cup {<<x, y>> : x, y \in S}

\* A file reads one directory before and one after what it includes.
ThreeFiles ==
  {[conf \in {"ld.so.conf", "a", "b"} |->
      CASE conf = "ld.so.conf" -> <<"lib">> \o top \o <<"opt">>
        [] conf = "a" -> <<"x", "opt">> \o a \o <<"x">>
        [] conf = "b" -> b \o end] :
     top \in Upto2({"ld.so.conf", "a", "b"}), a \in Upto2({"ld.so.conf", "a", "b"}),
     b \in Upto2({"a", "b", "c"}), end \in {<<"y">>, <<NotText, "y">>}}
===============================================================================
