---------------------------- MODULE InheritanceMC ----------------------------
(* Small instances of Inheritance: two monitors, of which one is backed by the *)
(* device, and three groups.                                                   *)
EXTENDS Inheritance

CONSTANTS m1, d1, g1, g2, g3, r1, r2, c1, c2

MCAspects == {"tree", "settings", "channels", "remedies", "windows", "rights", "types"}
MCConcerned == [a \in MCAspects |-> CASE a = "tree" -> {} [] a = "channels" -> {m1, d1}
                                     [] a = "types" -> {d1} [] OTHER -> {m1}]
MCEditBound == [a \in MCAspects |-> CASE a = "tree" -> 0 [] OTHER -> 2]
MCTreeBound == [a \in MCAspects |-> CASE a = "tree" -> 3
                                     [] a \in {"channels", "remedies", "types"} -> 0 [] OTHER -> 1]
MCDeviceOf == m1 :> d1
Symmetry == Permutations({g1, g2, g3}) \cup Permutations({r1, r2}) \cup Permutations({c1, c2})
=============================================================================
