------------------------ MODULE MCDatabaseMergeRows ------------------------
(* Rows that only some inputs hold, in any order, under a strict profile.  *)
EXTENDS DatabaseMerge

MCRaw == {"a", "A", "b"}
MCSem == [t \in MCRaw |-> IF t = "b" THEN 2 ELSE 1]
MCGroups == {[id |-> "pair", fields |-> {"x", "y"}, coupled |-> FALSE, force |-> TRUE]}

Value(t) == [kind |-> "scalar", head |-> t, items |-> << >>]
Both(s, t) == [order |-> <<"x", "y">>, idraw |-> "a",
               val |-> [f \in {"x", "y"} |-> IF f = "x" THEN Value(s) ELSE Value(t)]]
Partial == [order |-> <<"x">>, idraw |-> "a", val |-> [f \in {"x"} |-> Value("a")]]
Other == [order |-> <<"z">>, idraw |-> "a", val |-> [f \in {"z"} |-> Value("a")]]

Rows == {Both("a", "a"), Both("A", "a"), Both("b", "a"), Other}
Orders == {<< >>, <<1>>, <<2>>, <<1, 2>>, <<2, 1>>}
Ids(o) == {o[i] : i \in DOMAIN o}

\* A partial group makes the analysis fail: one database of that kind.
MCDatabases ==
  UNION {{[order |-> o, rows |-> rs] : rs \in [Ids(o) -> Rows]} :
           o \in {<< >>, <<1>>, <<2>>}}
  \cup {[order |-> o, rows |-> [r \in {1, 2} |-> Both("A", "a")]] : o \in {<<1, 2>>, <<2, 1>>}}
  \cup {[order |-> <<2, 1>>, rows |-> [r \in {1, 2} |-> IF r = 1 THEN Both("b", "a") ELSE Other]]}
  \cup {[order |-> <<2, 1>>, rows |-> [r \in {1, 2} |-> IF r = 1 THEN Partial ELSE Other]]}
=============================================================================
