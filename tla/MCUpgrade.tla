----------------------------- MODULE MCUpgrade -----------------------------
(* Packages for TLC: a complete one, one without two of the libraries, and  *)
(* one whose kernel modules fail the test.                                  *)
EXTENDS Upgrade, TLC
CONSTANTS full, part, bad
AnyOrder == Permutations(Proc)
Packages == {full, part, bad}
Archives == [p \in Packages |->
  CASE p = full -> <<"cjson", "mhd", "core", "bin", "fw">>
    [] p = part -> <<"core", "bin", "fw">>
    [] OTHER -> <<"fw">>]
Headers == [p \in Packages |->
  [fields |-> Required, version |-> 123, md5sum |-> "right",
   targetarch |-> IF p = full THEN "arm64" ELSE "",
   ko_files |-> [m \in Modules |->
                   IF m = "ksecurec" /\ p = bad THEN "wrong" ELSE "right"]]]
=============================================================================
