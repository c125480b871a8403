----------------------------- MODULE MCDevinHook -----------------------------
(***************************************************************************)
(* Instances of DevinHook for TLC.                                          *)
(***************************************************************************)
EXTENDS DevinHook

CONSTANTS s1, s2

User(isNative)  == [native |-> isNative, auto |-> FALSE, scope |-> "user"]
Native          == User(TRUE)
Imported        == User(FALSE)
Auto            == [Native EXCEPT !.auto = TRUE]
Project         == [Native EXCEPT !.scope = "project"]

(* An imported hook, a redundant project one, an always-on Devin hook.      *)
AutoLast   == <<Imported, Project, Auto>>
(* The hook alone.                                                          *)
OneHook    == <<Native>>

OneDir  == [s \in Sessions |-> "dir"]
=============================================================================
