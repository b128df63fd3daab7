---------------------------- MODULE MCDriveTools ----------------------------
(***************************************************************************)
(* TLC instances of DriveTools: two sessions, two calls in all.            *)
(***************************************************************************)
EXTENDS DriveTools, TLC

CONSTANTS c1, c2, a, b

\* A folder with a text file and a PDF in it.
MCStart ==
    << Item("folder", a, Root, <<>>),
       Item("text", b, 1, <<0, 0>>),
       Item("pdf", a, 1, <<0>>) >>

Sessions == Permutations(Callers)

MCPaths == {<<a, b>>}
=============================================================================
