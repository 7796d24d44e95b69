---------------------------- MODULE SmallProjects ----------------------------
(***************************************************************************)
(* The packages and the projects on which LockedInstall is checked: a       *)
(* package in two versions, the second with a dependency under an alias;    *)
(* one that has it as its peer; one without declared integrity; one for one *)
(* host, whose next version imports itself; and projects with an alias,     *)
(* with copied dependencies and an override, and with a member.             *)
(***************************************************************************)
EXTENDS Naturals

None == [x \in {} |-> x]
Leaf == [deps |-> None, peers |-> None, platforms |-> {}, declared |-> TRUE]

SmallCatalog ==
  [x \in {<<"p", 1>>, <<"p", 2>>, <<"q", 1>>, <<"q", 2>>, <<"r", 1>>, <<"r", 2>>} |->
     CASE x = <<"p", 1>> -> Leaf
       [] x = <<"p", 2>> -> [Leaf EXCEPT !.deps = [s |-> [pkg |-> "r", vs |-> {1}]]]
       [] x = <<"q", 1>> -> [Leaf EXCEPT !.peers = [p |-> {1, 2}]]
       [] x = <<"q", 2>> -> [Leaf EXCEPT !.declared = FALSE]
       [] x = <<"r", 1>> -> [Leaf EXCEPT !.platforms = {"unix"}]
       [] x = <<"r", 2>> -> [Leaf EXCEPT !.deps = [u |-> [pkg |-> "r", vs |-> {2}]]]]

SmallCopied ==
  [file |-> [name |-> "t", version |-> 1, peers |-> None, platforms |-> {},
             deps |-> [q |-> [pkg |-> "q", vs |-> {1}]]],
   git |-> [name |-> "g", version |-> 1, peers |-> None, platforms |-> {}, deps |-> None]]

From(kind, pkg, vs) == [kind |-> kind, pkg |-> pkg, vs |-> vs, optional |-> FALSE]
AnyOf(pkg) == From("registry", pkg, {1, 2})
Only(pkg, v) == From("registry", pkg, {v})
Alone(root) == [root |-> root, overrides |-> None, members |-> None]
With(root, deps, peers) ==
  [root |-> root, overrides |-> None,
   members |-> [m |-> [name |-> "m", version |-> 1, deps |-> deps, peers |-> peers]]]

SmallProjectSet ==
  {Alone([p |-> AnyOf("p"), al |-> Only("p", 1)]),
   Alone([p |-> Only("p", 1), q |-> AnyOf("q")]),
   Alone([p |-> AnyOf("p"), o |-> [Only("r", 1) EXCEPT !.optional = TRUE]]),
   [Alone([p |-> Only("p", 1), t |-> From("file", "t.tgz", {}), g |-> From("git", "g.git", {})])
      EXCEPT !.overrides = [q |-> {1}]],
   With([p |-> AnyOf("p"), m |-> From("member", "m", {1})], [q |-> Only("q", 1)],
        [p |-> AnyOf("p")]),
   Alone([r |-> Only("r", 2)]),
   With([m |-> Only("m", 1)], [al |-> Only("p", 2), q |-> AnyOf("q")], None)}

\* A member whose peer only the alias of another version would satisfy.
AliasedPeer ==
  With([p |-> Only("p", 1)], [al |-> Only("p", 2)], [p |-> Only("p", 2)])
=============================================================================
