--------------------------- MODULE MCPackageSync ---------------------------
(* Model checking PackageSync: links whose two ends refer to the same key of *)
(* the nodes, as in GMNS, a column no foreign key uses, and a row's worth of *)
(* ways to break them: other keys, a null, a lost node, a lost column.       *)
EXTENDS PackageSync

CONSTANTS link, node, from, to, kind, id, x, y

L(f, t, k) == from :> f @@ to :> t @@ kind :> k

LinkContents == {L(<<x>>, <<y>>, <<x>>), L(<<x>>, <<y>>, <<y>>), L(<<Null>>, <<x>>, <<x>>),
                 from :> <<y>> @@ kind :> <<x>>}
NodeContents == {id :> <<x, y>>, id :> <<x>>, kind :> <<x>>}

SomeContents == link :> LinkContents @@ node :> NodeContents

End(f) == [source |-> link, fields |-> <<f>>, target |-> node, keys |-> <<id>>]
Ends == {End(from), End(to)}
FromRequired == {<<link, from>>}

Network == {link :> L(<<x>>, <<y>>, <<x>>) @@ node :> (id :> n) : n \in {<<x, y>>, <<x>>}}
=============================================================================
