----------------------- MODULE MCDatabaseMergeUnits -----------------------
(* One row in each of three inputs: linked arrays, encodings and layouts.  *)
EXTENDS DatabaseMerge

MCRaw == {"a", "A", "b", "h", "H"}
MCSem == [t \in MCRaw |-> CASE t \in {"a", "A"} -> 1
                            [] t = "b" -> 2
                            [] OTHER -> 0]
MCGroups == {[id |-> "pair", fields |-> {"x", "y"}, coupled |-> TRUE, force |-> FALSE]}

Array(head, items) == [kind |-> "array", head |-> head, items |-> items]
Scalar(t) == [kind |-> "scalar", head |-> t, items |-> << >>]
Row(order, x, y) == [order |-> order, idraw |-> "a",
                     val |-> [f \in {"x", "y"} |-> IF f = "x" THEN x ELSE y]]
XY == <<"x", "y">>

Pairs == {Row(XY, Array("h", <<"a", "b">>), Array("h", <<"a", "a">>)),
             Row(XY, Array("h", <<"b", "a">>), Array("h", <<"b", "b">>)),
             Row(XY, Array("h", <<"b", "b">>), Array("h", <<"a", "b">>)),
             Row(XY, Array("H", <<"A", "b">>), Array("h", <<"a", "a">>))}
Shapes == {Row(XY, Array("H", <<"a", "b">>), Array("h", <<"a", "a">>)),
           Row(XY, Array("h", <<"a">>), Array("h", <<"b">>)),
           Row(XY, Array("h", <<"a", "b">>), Array("h", <<"b">>)),
           Row(XY, Scalar("a"), Array("h", <<"b">>)),
           Row(XY, Scalar("a"), Scalar("A")),
           Row(XY, Scalar("A"), Scalar("b")),
           Row(<<"y", "x">>, Scalar("a"), Scalar("A"))}

MCDatabases ==
  {[order |-> <<1>>, rows |-> [i \in {1} |-> row]] :
     row \in Pairs \cup Shapes}
=============================================================================
