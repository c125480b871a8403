---------------------------- MODULE AtomicPatch ----------------------------
(***************************************************************************)
(* What the canonical Windsurf patcher promises about the pair of IDE      *)
(* files it owns, as long as the vendor does not replace them meanwhile:   *)
(* however many commands are interrupted and recovered, the bundle and the *)
(* product file change together, in one step, and only from a vendor build *)
(* to a patched one, from one payload to another under the same            *)
(* transaction, or back to the vendor build that was patched.              *)
(***************************************************************************)
CONSTANTS Txns, Payloads, None

VARIABLE build      \* [txn, payload]: what both files of the pair hold

Vendor == [txn |-> None, payload |-> None]

Init == build = Vendor

Install == /\ build = Vendor
           /\ \E t \in Txns, p \in Payloads :
                 build' = [txn |-> t, payload |-> p]

Refresh == /\ build # Vendor
           /\ \E p \in Payloads : build' = [build EXCEPT !.payload = p]

Uninstall == /\ build # Vendor
             /\ build' = Vendor

Next == Install \/ Refresh \/ Uninstall

Spec == Init /\ [][Next]_build
=============================================================================
