----------------------------- MODULE MCCommandLine -----------------------------
(* Two games with built-in profiles, one of data tables and one of lists, and  *)
(* a third whose profile only a file has.  The tables differ in their names    *)
(* tables and imports; they are under base folders of different depth and      *)
(* spelling.  X is a package and a loose file at once.                         *)
EXTENDS CommandLine

CONSTANTS f1, f2, f3

Spellings == {<<"Ot", "ot">>, <<"Content", "content">>, <<"Else", "else">>, <<"Mod", "mod">>,
              <<"Db", "db">>, <<"Group", "group">>, <<"List", "list">>, <<"X", "x">>}
Extensions == {"", "uasset", "uexp", "ubulk"}
FileName(base, e) == IF e = "" THEN base ELSE base \o "." \o e
MCName == {".."} \cup {FileName(s[i], e) : s \in Spellings, i \in 1..2, e \in Extensions}
Made(n) ==
  CHOOSE m \in Spellings \X (1..2) \X Extensions : FileName(m[1][m[2]], m[3]) = n
MCFoldName == [n \in MCName |-> IF n = ".." THEN n ELSE FileName(Made(n)[1][2], Made(n)[3])]
MCStem == [n \in MCName |-> IF n = ".." THEN n ELSE Made(n)[1][Made(n)[2]]]
MCExt == [n \in MCName |-> IF n = ".." THEN "" ELSE Made(n)[3]]

-----------------------------------------------------------------------------
Matcher(kind, value) == [kind |-> kind, value |-> value]
Rule(priority, value, groups) ==
  [priority |-> priority, matchers |-> <<Matcher("Suffix", value)>>, groups |-> groups]
Linked(id, fields) == [id |-> id, fields |-> fields]
Game(id, format, folder, assets, tables, rules) ==
  [id |-> id, format |-> format, minimum |-> 1, roots |-> <<Matcher("Prefix", folder)>>,
   detection |-> <<Matcher("Prefix", folder \o <<"db">>), Matcher("Prefix", folder)>>,
   assets |-> assets, tables |-> tables, rules |-> rules]
Table(suffix, name) == [suffix |-> suffix, name |-> name]
RefersTo(source, field, target, gaps) == [source |-> source, field |-> field, target |-> target, gaps |-> gaps]
Broad(fields) == [Rule(1, <<"group">>, <<Linked("all", fields)>>) EXCEPT !.matchers = @ \o <<Matcher("Contains", <<"content", "db">>)>>]
MCBuiltin ==
  <<Game("lists", "Rows", <<"else", "content">>,
         <<Rule(9, <<"db", "list">>, <<Linked("pair", <<"A", "B">>)>>)>>,
         <<Table(<<"db", "list">>, "List"), Table(<<"db", "group">>, "Skills")>>,
         <<RefersTo("List", "A", "Skills", {<<2, 2>>})>>),
    Game("tables", "DataTable", <<"ot", "content">>,
         <<Broad(<<"Bgm", "Icon">>), Rule(1, <<"group">>, << >>),
           Rule(9, <<"db", "group">>, <<Linked("battle_bgm", <<"Bgm", "Voice">>)>>)>>,
         <<Table(<<"db", "group">>, "Group"), Table(<<"db", "list">>, "List")>>,
         <<RefersTo("Group", "Voice", "List", {})>>)>>
Document(id, folder, groups) ==
  [schema |-> 1] @@ Game(id, "DataTable", folder, <<Rule(9, <<"db", "group">>, groups)>>, << >>, << >>)
MCExternal ==
  <<Document("mod", <<"mod", "content">>, <<Linked("sound", <<"Bgm", "Voice">>)>>),
    Document("other", <<"ot", "content">>, <<Linked("one", <<"Bgm">>)>>),
    Document("refused", <<"mod", "content">>, <<Linked("one", <<"Bgm">>), Linked("two", <<"Bgm", "Voice">>)>>)>>

-----------------------------------------------------------------------------
MCFixedSize == [t \in {"IntProperty"} |-> 4]
Data(v, size) == [kind |-> "data", data |-> v, size |-> size]
IntField(f, v) == [name |-> f, type |-> "IntProperty", tag |-> << >>, value |-> <<Data(v, 4)>>]
Flag(f, v) == [name |-> f, type |-> "BoolProperty", tag |-> <<Data(v, 1)>>, value |-> << >>]
NameValue(text, number) == [kind |-> "named", text |-> text, number |-> number]
Named(f, text, number) ==
  [name |-> f, type |-> "NameProperty", tag |-> << >>, value |-> <<NameValue(text, number)>>]
Sort(f, enum, text) ==
  [name |-> f, type |-> "EnumProperty", tag |-> <<NameValue(enum, 0)>>, value |-> <<NameValue(text, 0)>>]
Object(f, import) ==
  [name |-> f, type |-> "ObjectProperty", tag |-> << >>, value |-> <<[kind |-> "import", import |-> import]>>]

Texts == <<"None", "RowStruct", "IntProperty", "BoolProperty", "NameProperty", "EnumProperty",
           "ObjectProperty", "Bgm", "Voice", "Icon", "On", "Kind", "Row">>
MadeName(names, text, number) == [index |-> CHOOSE i \in DOMAIN names : names[i] = text, number |-> number]
Cells(names, cells) ==
  [i \in DOMAIN cells |-> LET c == cells[i] IN
     IF c.kind = "named" THEN [kind |-> "name", at |-> MadeName(names, c.text, c.number)] ELSE c]
MadeField(names, f) ==
  [name |-> MadeName(names, f.name, 0), type |-> MadeName(names, f.type, 0), tag |-> Cells(names, f.tag),
   size |-> ValueSize(Cells(names, f.value)), value |-> Cells(names, f.value)]
MadeTable(block, names, rows) ==
  [block |-> [tags |-> <<"RowStruct">>, size |-> block], count |-> Len(rows),
   rows |-> [i \in DOMAIN rows |->
     [name |-> MadeName(names, "Row", rows[i].number),
      fields |-> [j \in DOMAIN rows[i].fields |-> MadeField(names, rows[i].fields[j])]]]]
MadeHeader(names, imports, body) ==
  LET h == [names |-> [i \in DOMAIN names |-> [text |-> names[i], size |-> 2 + (i % 3)]],
            imports |-> imports, count |-> Len(names), exports |-> 1,
            tail |-> <<[id |-> "imports", size |-> 3 * Len(imports)], [id |-> "exports", size |-> 5],
                       [id |-> "depends", size |-> 2]>>]
  IN h @@ [total |-> HeaderLength(h),
           at |-> [id \in {"imports", "exports", "depends", "strings"} |->
                     IF id = "strings" THEN 0 ELSE Found(h, id)],
           serial |-> [size |-> body, offset |-> HeaderLength(h)], bulk |-> HeaderLength(h) + body]
Import(identity, outer) == [identity |-> identity, outer |-> outer]
Row(number, fields) == [number |-> number, fields |-> fields]
SizedTableFiles(block, folder, name, names, imports, rows) ==
  LET table == MadeTable(block, names, rows) IN
  <<[path |-> folder \o <<FileName(name, "uasset")>>,
     blob |-> [kind |-> "header", header |-> MadeHeader(names, imports, BodySize(table))]],
    [path |-> folder \o <<FileName(name, "uexp")>>, blob |-> [kind |-> "table", table |-> table]]>>
TableFiles(folder, name, names, imports, rows) == SizedTableFiles(20, folder, name, names, imports, rows)

Plain(path, n) == [path |-> path, blob |-> [kind |-> "plain", data |-> n]]
ListRow(order, value) == [order |-> order, value |-> value]
RowFiles(name, around, rows) ==
  <<[path |-> <<"Db", FileName(name, "uasset")>>, blob |-> [kind |-> "shell", package |-> name]],
    [path |-> <<"Db", FileName(name, "uexp")>>, blob |-> [kind |-> "rows", around |-> around, rows |-> rows]]>>
ListFiles(rows) == RowFiles("List", "around", rows)
AB(a, b) == ListRow(<<"A", "B">>, [A |-> a, B |-> b])
Pak(mount, files) == [mount |-> mount, files |-> files]

Root == <<"..">>
OtContent == <<"..", "Ot", "Content">>
OtDb == <<"..", "ot", "content", "Db">>
ElseContent == <<"..", "Else", "Content">>
ModContent == <<"..", "Mod", "Content">>
Imports1 == <<Import("sword", 0), Import("shield", 0)>>
Imports2 == <<Import("cup", 0), Import("shield", 0), Import("sword", 0)>>
Names2 == Texts \o <<"Vb", "Va", "Sort", "Boss">>
Rows1 == <<Row(1, <<IntField("Bgm", 1), Named("Voice", "Va", 0), Object("Icon", -1)>>), Row(2, <<Object("Icon", -2), Flag("On", 0)>>)>>
Rows2 == <<Row(1, <<IntField("Bgm", 2), Named("Voice", "Vb", 3), Object("Icon", -3)>>),
           Row(2, <<Object("Icon", -2), Flag("On", 1)>>),
           Row(3, <<Sort("Kind", "Sort", "Boss"), Object("Icon", -2)>>)>>
MCContents ==
  [table1 |-> Pak(OtContent, TableFiles(<<"Db">>, "Group", <<"Va">> \o Texts, Imports1, Rows1)),
   table2 |-> Pak(OtDb, TableFiles(<< >>, "Group", Names2, Imports2, Rows2)),
   \* Another number of fields in row 2, another row 3.
   table3 |-> Pak(Root, TableFiles(<<"Ot", "Content", "db">>, "group", Names2, Imports2,
                [Rows2 EXCEPT ![2] = Row(2, <<Object("Icon", 0)>>), ![3] = Row(3, <<IntField("Bgm", 7), Named("Voice", "Vb", 0)>>)])),
   \* Row 3 with an object that the first does not import.
   table4 |-> Pak(OtDb, TableFiles(<< >>, "Group", Names2, Imports2,
                [Rows2 EXCEPT ![3] = Row(3, <<Object("Icon", -1)>>)])),
   \* Row 1 with half of what is linked.
   table5 |-> Pak(OtContent, TableFiles(<<"Db">>, "Group", Texts, Imports1,
                [Rows1 EXCEPT ![1] = Row(1, <<IntField("Bgm", 1), Object("Icon", -1)>>)])),
   deep1 |-> Pak(OtDb, TableFiles(<< >>, "Group", <<"Va">> \o Texts, Imports1, Rows1)),
   mod1 |-> Pak(ModContent, TableFiles(<<"Db">>, "Group", <<"Va">> \o Texts, Imports1, Rows1)),
   mod2 |-> Pak(ModContent, TableFiles(<<"Db">>, "Group", Names2, Imports2, <<Rows2[1], Rows1[2]>>)),
   files1 |-> Pak(OtContent, <<Plain(<<"X">>, 1), Plain(<<"X.uasset">>, 2), Plain(<<"X.uexp">>, 3)>>),
   files2 |-> Pak(Root, <<Plain(<<"Ot", "Content", "x">>, 4), Plain(<<"Ot", "Content", "X.uexp">>, 3),
                          Plain(<<"Ot", "Content", "X.uasset">>, 2), Plain(<<"Ot", "List">>, 5)>>),
   files3 |-> Pak(OtContent, <<Plain(<<"x.uasset">>, 2), Plain(<<"x.ubulk">>, 3)>>),
   files4 |-> Pak(OtContent, <<Plain(<<"x.uasset">>, 6), Plain(<<"x.ubulk">>, 3), Plain(<<"List">>, 7)>>),
   list1 |-> Pak(ElseContent, ListFiles(<<"", 1>> :> AB(1, 1) @@ <<"", 2>> :> AB(1, 1))),
   list2 |-> Pak(ElseContent, ListFiles(<<"", 1>> :> AB(2, 11) @@ <<"", 2>> :> AB(11, 1)
                                        @@ <<"", 3>> :> AB(1, 1))),
   list3 |-> Pak(ElseContent, ListFiles(<<"", 1>> :> AB(1, 2) @@ <<"", 3>> :> AB(2, 2)
                                        @@ <<"", 2>> :> ListRow(<<"B", "A">>, [A |-> 1, B |-> 1]))),
   \* What the list refers to: the rows 1 and 2 of another, one of them each.
   refs1 |-> Pak(ElseContent, ListFiles(<<"", 1>> :> AB(1, 1) @@ <<"", 2>> :> AB(2, 1))
                   \o RowFiles("Group", "one", <<"", 1>> :> AB(0, 1))),
   refs2 |-> Pak(ElseContent, ListFiles(<<"", 1>> :> AB(2, 1) @@ <<"", 2>> :> AB(2, 1))
                   \o RowFiles("Group", "two", <<"", 2>> :> AB(0, 1))),
   refs3 |-> Pak(ElseContent, <<RowFiles("Group", "one", << >>)[1]>>),
   voices1 |-> Pak(OtContent, TableFiles(<<"Db">>, "Group", Texts, Imports1, <<Row(1, <<Named("Voice", "Row", 1)>>)>>)
                     \o SizedTableFiles(20, <<"Db">>, "List", Texts, Imports1, <<Row(1, <<IntField("Bgm", 1)>>)>>)),
   voices2 |-> Pak(OtContent, TableFiles(<<"Db">>, "Group", Texts, Imports1, <<Row(1, <<Named("Voice", "Row", 2)>>)>>)
                     \o SizedTableFiles(24, <<"Db">>, "List", Texts, Imports1, <<Row(2, <<IntField("Bgm", 1)>>)>>)),
   voices3 |-> Pak(OtContent, <<Plain(<<"Db", "List.uasset">>, 1), Plain(<<"Db", "List.uexp">>, 2)>>)]

Disk(a, b, c) == f1 :> a @@ f2 :> b @@ f3 :> c
MCDisks ==
  {Disk("table1", "table2", "table3"), Disk("table4", "table1", "files1"), Disk("table5", "table2", "list1"),
   Disk("files1", "files2", "files3"), Disk("list1", "list2", "list3"), Disk("mod1", "mod2", "list1"),
   Disk("files2", "files2", "files1"), Disk("refs1", "refs2", "files1"), Disk("refs1", "refs3", "files1"),
   Disk("voices1", "voices2", "list1"), Disk("voices1", "voices3", "list1")}
MCEditions ==
  [c \in DOMAIN MCContents |->
     CASE c = "table2" -> {"table4"} [] c = "files1" -> {"files4"} [] c = "files3" -> {"files4"}
       [] c = "list2" -> {"list3"} [] c = "files4" -> {"files3"} [] OTHER -> {}]
Ask(paths, carrier) == [paths |-> paths, carrier |-> carrier]
MCRequests == {Ask(<<f1, f2>>, f1), Ask(<<f3, f1, f2>>, f1), Ask(<<f1, f2>>, f3), Ask(<<f1, f1>>, f1)}

\* Two Paks of one table, both of them at its folder.
DeepDisks == {Disk("deep1", "table2", "list1")}
NoEditions == [c \in DOMAIN MCContents |-> {}]
OneRequest == {Ask(<<f1, f2>>, f1)}
=============================================================================
