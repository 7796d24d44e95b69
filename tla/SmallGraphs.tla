----------------------------- MODULE SmallGraphs -----------------------------
(***************************************************************************)
(* The graphs on which Layout is checked: a package `a` over two versions   *)
(* of `b`, which may import `a`, each other or `c`; aliases that cross; and *)
(* members, one of which may offer a command of `c`.                        *)
(***************************************************************************)
EXTENDS Naturals

SmallRank == [a |-> 1, b |-> 2, c |-> 3, m |-> 4]
A1 == <<"a", 1>>
B1 == <<"b", 1>>
B2 == <<"b", 2>>
C1 == <<"c", 1>>
C2 == <<"c", 2>>

\* tool.js and tool are one file for Windows.
SmallOutputs ==
  [unix |-> [c \in {"tool", "tool.js", "sh"} |-> {c}],
   windows |-> [c \in {"tool", "tool.js", "sh"} |->
                  IF c = "sh" THEN {"sh.cmd", "sh.ps1"} ELSE {"tool.cmd", "tool.ps1"}]]

Bin(c, s) == [command |-> c, is |-> s]
SmallBins ==
  [i \in {A1, B1, B2, C1, C2} |->
     CASE i = B1 -> {Bin("tool", "file")} [] i = C1 -> {Bin("tool.js", "file"), Bin("tool", "missing")}
       [] i = C2 -> {Bin("sh", "script")} [] OTHER -> {}]
NoMembers == [m \in {} |-> {}]

GraphOf(roots, a, b1, b2, c, members) ==
  [roots |-> roots, bins |-> SmallBins, members |-> members,
   children |-> [i \in {A1, B1, B2, C1, C2} |->
                   CASE i = A1 -> a [] i = B1 -> b1 [] i = B2 -> b2 [] OTHER -> c]]

\* A root over another root's other version; aliases that import each other
\* under one name; a member that offers a command of `c`.
Crossing == GraphOf({<<"a", A1>>}, {<<"a", B1>>}, {<<"a", C1>>}, {}, {<<"a", B1>>}, NoMembers)

SmallGraphSet ==
  {Crossing, GraphOf({<<"a", A1>>, <<"a", B1>>}, {}, {}, {}, {}, NoMembers)} \cup
  {GraphOf(r, a, {}, b2, c, m) :
     r \in {{<<"a", A1>>}, {<<"a", A1>>, <<"b", B1>>}},
     a \in {{<<"b", B2>>}, {<<"b", B1>>, <<"c", C2>>}, {<<"b", B2>>, <<"c", C1>>}},
     b2 \in {{}, {<<"c", C2>>}, {<<"b", B1>>}},
     c \in {{}, {<<"a", A1>>}},
     m \in {NoMembers, [m |-> {Bin("tool", "file")}], [c |-> {Bin("tool", "plain")}]}}
=============================================================================
