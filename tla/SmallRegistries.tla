--------------------------- MODULE SmallRegistries ---------------------------
(***************************************************************************)
(* The packages, registries and manifests on which Resolution is checked.  *)
(* `a` depends on `b` and may have `p` as its peer, required or optional,  *)
(* by range or by tag; versions of `b` may be excluded and the second one  *)
(* may have `p` as an optional dependency.                                 *)
(***************************************************************************)

SmallNames == {"a", "b", "p"}
SmallVersions == {1, 2}

Range(s) == [tag |-> FALSE, vs |-> s]
AnyVersion == Range(SmallVersions)
Tag == [tag |-> TRUE, vs |-> {}]
On(n, r) == [name |-> n, req |-> r]

Plain == [deps |-> {}, opts |-> {}, peers |-> {}, optPeers |-> {}, latest |-> FALSE,
          usable |-> TRUE]

FirstA ==
  {[Plain EXCEPT !.deps = {On("b", AnyVersion)}, !.peers = q] :
     q \in {{}, {On("p", Range({1}))}, {On("p", Tag)}}}
SecondA ==
  {[Plain EXCEPT !.deps = d, !.peers = {On("p", r)}, !.optPeers = o] :
     d \in {{}, {On("b", AnyVersion)}},
     r \in {AnyVersion, Range({1}), Range({2}), Tag}, o \in {{}, {"p"}}}
Excluded == [Plain EXCEPT !.usable = FALSE]
BothB ==
  {<<Plain, [Plain EXCEPT !.opts = o, !.usable = u]>> :
     o \in {{}, {On("p", Range({2}))}}, u \in BOOLEAN} \cup {<<Excluded, Excluded>>}

SmallRegistrySet ==
  {[x \in SmallNames \X SmallVersions |->
      CASE x = <<"a", 1>> -> a1
        [] x = <<"a", 2>> -> a2
        [] x = <<"b", 1>> -> b[1]
        [] x = <<"b", 2>> -> b[2]
        [] x[1] = "p" -> [Plain EXCEPT !.latest = x[2] = 2]] :
     a1 \in FirstA, a2 \in SecondA, b \in BothB}

SmallManifests ==
  {{On("a", AnyVersion)}, {On("a", Range({1}))}}
    \cup {{On("a", AnyVersion), On("p", r)} : r \in {AnyVersion, Range({1}), Tag}}

SmallProject ==
  <<CHOOSE r \in SmallRegistrySet : TRUE, SmallNames \X SmallVersions,
    {On("a", AnyVersion)}>>
=============================================================================
