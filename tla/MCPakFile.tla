------------------------------ MODULE MCPakFile ------------------------------
(* Two packages' worth of names: A.uasset, the same in another spelling, its *)
(* A.uexp, a loose b.txt and a name that is refused.  Contents are up to      *)
(* five symbols long, blocks two.  The files of other tools are what the      *)
(* vendored writer makes in seven layouts, with and without compression,      *)
(* each as it is, with one field changed, and with one field changed and      *)
(* every digest of the index made again; the writer of the game gives a       *)
(* single block no block size.                                                *)
EXTENDS PakFile

MCPath == {"A.uasset", "a.uasset", "A.uexp", "b.txt", "../b"}
MCKey == {"a.uasset", "a.uexp", "b.txt", "../b", "a", "b"}
MCParts == [p \in MCPath |-> IF p = "../b" THEN <<"dot", "name">> ELSE <<"name">>]
MCFold == [p \in MCPath |-> IF p = "A.uasset" THEN "a.uasset" ELSE IF p = "A.uexp" THEN "a.uexp" ELSE p]
MCPathRank == [p \in MCPath |->
  CASE p = "../b" -> 0 [] p = "A.uasset" -> 1 [] p = "A.uexp" -> 2 [] p = "a.uasset" -> 3 [] p = "b.txt" -> 4]
MCKeyRank == [k \in MCKey |->
  CASE k = "../b" -> 0 [] k = "a" -> 1 [] k = "a.uasset" -> 2 [] k = "a.uexp" -> 3 [] k = "b" -> 4 [] k = "b.txt" -> 5]
MCBase == [p \in MCPath |-> IF p \in {"b.txt", "../b"} THEN "b" ELSE "a"]
MCExtension == [p \in MCPath |->
  IF p \in {"A.uasset", "a.uasset"} THEN "uasset" ELSE IF p = "A.uexp" THEN "uexp" ELSE "other"]

MCBinaryAssets == {<<2, 2, 1>>}
MCTaggedHeaders == {<<1>>}

MCData == {[p \in MCPath |-> IF p = "A.uexp" THEN <<1, 2, 1>> ELSE <<1>>],
           [p \in MCPath |-> IF p = "b.txt" THEN << >> ELSE <<1, 2, 1, 2, 1>>],
           [p \in MCPath |-> <<1, 1, 1, 1, 1, 1>>]}
MCRequests == {<<"A.uasset", "b.txt">>, <<"b.txt", "A.uexp", "A.uasset">>, <<"A.uexp", "a.uasset">>, <<"A.uasset", "a.uasset">>, <<"../b">>, << >>}
MCHashed == {<< >>, <<"b.txt">>}
MCMounts == {[parts |-> <<"dot", "name">>, slash |-> FALSE], [parts |-> <<"empty", "name">>, slash |-> TRUE]}

-----------------------------------------------------------------------------
(* Files of other tools.                                                    *)

Mount == [parts |-> <<"dot", "name">>, slash |-> TRUE]
Made(l, codec, paths) ==
  LET data(p) == IF p = "A.uexp" /\ (Major(l) >= 3 \/ codec = "none") THEN <<1, 2, 1>> ELSE <<1>>
      f1 == Appended(l, codec, EmptyFile, data(paths[1]))
      f2 == IF Len(paths) = 1 THEN f1 ELSE Appended(l, codec, f1, data(paths[2]))
      index == (paths[1] :> 0) @@ (IF Len(paths) = 1 THEN << >> ELSE (paths[2] :> f1.end))
  IN Indexed(l, f2, index, Mount, SlotNamesFor(l, codec))

Resealed(f) ==
  LET old == f.at[f.footer.index.offset].body
      seal(r) == IF r.offset \in DOMAIN f.at THEN [r EXCEPT !.sha = f.at[r.offset].body] ELSE r
      new == IF old.kind # "modern" THEN old
             ELSE [old EXCEPT !.hashes = [i \in DOMAIN @ |-> seal(@[i])],
                              !.directory = [i \in DOMAIN @ |-> seal(@[i])]]
  IN [f EXCEPT !.at[f.footer.index.offset].body = new, !.footer.index.sha = new]

\* The writer of the game gives one block no size.
GameStyle(f) ==
  LET o == f.footer.index.offset
      style(r) == IF r.count = 1 THEN [r EXCEPT !.code = <<0>>] ELSE r
  IN IF f.at[o].body.kind # "modern" THEN f
     ELSE Resealed([f EXCEPT !.at[o].body.records = [i \in DOMAIN @ |-> style(@[i])]])

Tampered(f) ==
  {f, GameStyle(f)} \cup Damaged(f)
  \cup {Resealed(g) : g \in {g \in Damaged(f) : g.footer.index.offset \in DOMAIN g.at}}
MCForeign ==
  UNION {Tampered(Made(l, codec, <<"A.uasset", "A.uexp">>)) :
           l \in {20, 30, 40, 50, 80, 90, 110}, codec \in {"none", "Oodle"}}
  \cup {Made(l, codec, <<"A.uexp">>) : l \in {0, 10, 30, 60, 70, 85, 100}, codec \in {"none", "Zlib"}}
=============================================================================
