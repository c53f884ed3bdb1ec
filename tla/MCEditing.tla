----------------------------- MODULE MCEditing -----------------------------
(* Model checking Editing: a table with an identity and a value, equal rows *)
(* and nulls in both columns, and a second table for what coalescing moves. *)
EXTENDS Editing

CONSTANTS link, node, id, val, x, y

R(i, v) == id :> i @@ val :> v

Packages == {link :> <<R(x, x), R(y, x)>> @@ node :> <<>>,
             link :> <<R(x, x), R(x, x), R(y, Null)>> @@ node :> <<R(Null, y)>>}

Where(c, v) == [col |-> c, val |-> v]

Add(t, rows)         == [op |-> "add", table |-> t, rows |-> rows]
Delete(t, where)     == [op |-> "delete", table |-> t, where |-> where]
Update(t, where, ch) == [op |-> "update", table |-> t, where |-> where, set |-> ch]
Replace(t, rows)     == [op |-> "replace", table |-> t, rows |-> rows]

SomeEdits ==
  {Add(link, <<R(y, x), R(y, y)>>), Add(node, <<R(x, x)>>), Delete(link, Where(val, x)),
   Update(link, Where(id, x), val :> y), Update(link, Where(val, x), id :> y),
   Update(link, Where(val, y), id :> x @@ val :> x),
   Replace(link, <<R(x, x)>>), Replace(node, <<>>)}
=============================================================================
