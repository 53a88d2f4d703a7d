----------------------------- MODULE MCResolver -----------------------------
(* One small repository for each language's way of naming modules. *)
EXTENDS Explain

Plain(name) == Dotted(0, <<name>>)

\* Nodes at a depth and a line.
Def(kind, d, l, name) == [kind |-> kind, depth |-> d, line |-> l, name |-> name]
CallOf(kind, d, l, callee, name, object) ==
    [kind |-> kind, depth |-> d, line |-> l, argument |-> None,
     func |-> [kind |-> callee, name |-> name, object |-> object]]
B(name, alias) == [name |-> name, alias |-> alias]

\* The same program with its lines moved apart; and with a definition below it again.
Moved(tree) == [i \in DOMAIN tree |-> [tree[i] EXCEPT !.line = 2 * @ + 1]]
Below(tree, node) == Append(tree, [node EXCEPT !.line = Last(tree).line + 1])

MCPathOf ==
    <<<<"app">>, <<"pkg", "__init__">>, <<"pkg", "util">>,
      <<"web", "api", "index">>, <<"web", "main">>, <<"web", "ui", "api">>,
      <<"src", "lib">>, <<"src", "net">>, <<"src", "net", "tcp">>,
      <<"cmd", "main">>, <<"text", "trim">>, <<"util", "text", "trim">>>>

MCLanguageOf == [f \in 1..12 |-> IF f <= 3 THEN "python" ELSE IF f <= 6 THEN "typescript"
                                 ELSE IF f <= 9 THEN "rust" ELSE "go"]

MCRepos == {1..3, 4..6, 7..9, 10..12}

-----------------------------------------------------------------------------
PyDef(d, l, name) == Def("function_definition", d, l, name)
PyBare(d, l, name) == CallOf("call", d, l, "identifier", name, None)
PyMember(d, l, object, name) == CallOf("call", d, l, "attribute", name, Plain(object))
PyFrom(l, module, names) ==
    [kind |-> "import_from_statement", depth |-> 1, line |-> l, module |-> module, names |-> names]
PyImport(d, l, module, alias) ==
    [kind |-> "import_statement", depth |-> d, line |-> l, names |-> <<[module |-> module, alias |-> alias]>>]

\* `util` from the package or from its __init__, two imports of a line, methods and an inner
\* function, two calls on a line, calls at the module's level and to builtins, and up to
\* three symbols called send.
PyUtil == <<PyDef(1, 1, "send")>>
PyMethods ==
    <<Def("class_definition", 1, 1, "K"), PyDef(2, 2, "send"), PyDef(2, 3, "go"), PyMember(3, 4, "self", "send"),
      PyBare(3, 4, "send"), PyDef(3, 5, "send"), PyMember(4, 6, "self", "go"), PyDef(1, 7, "send")>>

PyVersions ==
    <<{<<PyFrom(1, Plain("pkg"), <<B("util", None), B("post", None)>>), PyFrom(2, Plain("os"), <<B("getcwd", None)>>),
         PyDef(1, 3, "run"), PyMember(2, 4, "util", "send"), PyMember(2, 4, "pkg", "send"), PyBare(2, 5, "print"),
         PyBare(3, 5, "send"), PyBare(2, 6, "getcwd"), PyBare(1, 7, "run")>>,
       <<PyFrom(1, Dotted(0, <<"pkg", "util">>), <<B("send", "post")>>), PyDef(1, 2, "run"), PyImport(2, 3, Plain("pkg"), "p"),
         PyBare(2, 4, "post"), PyMember(2, 4, "x", "_hide"), PyMember(2, 5, "p", "send"), PyDef(1, 6, "send")>>},
      {<<PyFrom(1, Dotted(1, <<"util">>), <<B("send", None)>>), PyDef(1, 2, "send"), PyDef(1, 3, "_hide"), PyBare(2, 4, "send")>>,
       <<PyFrom(1, Dotted(1, <<>>), <<B("util", None)>>), PyDef(1, 2, "util"), PyMember(2, 3, "util", "send")>>},
      {PyUtil, Below(PyUtil, PyUtil[1]), PyMethods, Moved(PyMethods)}>>

-----------------------------------------------------------------------------
TsDef(d, l, name) == Def("function_declaration", d, l, name)
TsConst(d, l, name, value) ==
    [kind |-> "variable_declarator", depth |-> d, line |-> l, name |-> name, value |-> value]
TsBare(d, l, name) == CallOf("call_expression", d, l, "identifier", name, None)
TsMember(d, l, object, name) == CallOf("call_expression", d, l, "member_expression", name, Plain(object))
TsRequire(d, l, module) == [TsBare(d, l, "require") EXCEPT !.argument = module]
TsImport(l, module, bindings) ==
    [kind |-> "import_statement", depth |-> 1, line |-> l, module |-> module, bindings |-> bindings]
Bind(kind, name, alias) == [kind |-> kind, name |-> name, alias |-> alias]

\* A directory with an index file, two files called api, imports of every form, and a class.
TsApi == <<TsDef(1, 1, "load"), TsBare(2, 1, "save"), TsConst(1, 2, "save", "arrow_function"), TsBare(2, 2, "load")>>
TsStore ==
    <<Def("class_declaration", 1, 1, "Store"), Def("method_definition", 2, 2, "save"), TsMember(3, 3, "this", "load"),
      TsMember(3, 3, "console", "log"), Def("method_definition", 2, 4, "load"), TsDef(1, 5, "save")>>

TsVersions ==
    <<{TsApi, Moved(TsApi),
       <<TsImport(1, Dotted(1, <<"..", "ui", "api">>), <<Bind("import_specifier", "save", None)>>),
         TsDef(1, 2, "load"), TsBare(2, 3, "save")>>},
      {<<TsConst(1, 1, "api", "call_expression"), TsRequire(2, 1, Dotted(1, <<"api">>)),
         TsDef(1, 2, "main"), TsMember(2, 3, "api", "load"), TsBare(2, 4, "save")>>,
       <<TsImport(1, Plain("react"), <<Bind("identifier", "save", None), Bind("namespace_import", "r", None)>>),
         TsImport(2, Dotted(1, <<"polyfill">>), <<>>),
         TsDef(1, 3, "main"), TsBare(2, 4, "save"), TsMember(2, 4, "r", "save"), TsBare(2, 5, "load"), TsDef(1, 6, "load")>>},
      {<<TsDef(1, 1, "save")>>, TsStore, Below(TsStore, TsDef(1, 0, "load"))}>>

-----------------------------------------------------------------------------
RsDef(d, l, name) == Def("function_item", d, l, name)
RsImpl(d, l, type) == [kind |-> "impl_item", depth |-> d, line |-> l, type |-> type]
RsBare(d, l, name) == CallOf("call_expression", d, l, "identifier", name, None)
RsMember(d, l, object, name) == CallOf("call_expression", d, l, "field_expression", name, Plain(object))
RsScoped(d, l, path, name) == CallOf("call_expression", d, l, "scoped_identifier", name, path)
RsUse(l, path, group, alias) ==
    [kind |-> "use_declaration", depth |-> 1, line |-> l, path |-> path, group |-> group, alias |-> alias]
Item(path, alias, group) == [path |-> path, alias |-> alias, group |-> group]
Crate(parts) == Dotted(1, parts)

\* A module and a directory of its name; associated functions, also of one type in two
\* modules; a use of a module itself, alone and in a group within a group.
RsSocket(use) ==
    <<use, RsImpl(1, 2, <<"Socket">>), RsDef(2, 3, "open"), RsMember(3, 4, "self", "close"), RsDef(2, 5, "close"),
      RsDef(1, 6, "connect")>>
RsTwice ==
    <<Def("mod_item", 1, 1, "a"), RsImpl(2, 2, <<"m", "Socket">>), RsDef(3, 3, "open"), RsBare(4, 3, "connect"),
      Def("mod_item", 1, 4, "b"), RsImpl(2, 5, <<"Socket">>), RsDef(3, 6, "open"), RsDef(4, 7, "open"), RsBare(5, 8, "Some"),
      RsScoped(5, 8, Plain("Socket"), "open"), RsDef(1, 9, "connect")>>
Self == Item(<<"self">>, None, None)

RsVersions ==
    <<{<<RsUse(1, Crate(<<"net">>), <<Item(<<"connect">>, None, None), Item(<<"Socket">>, "Sock", None)>>, None),
         RsDef(1, 2, "start"), RsBare(2, 3, "connect"), RsScoped(2, 4, Plain("Sock"), "open")>>,
       <<RsUse(1, Crate(<<"net", "tcp", "connect">>), None, "dial"), RsUse(2, Plain("log"), None, None),
         RsDef(1, 3, "start"), RsBare(2, 4, "dial"), RsScoped(2, 5, Plain("Socket"), "open"),
         RsScoped(2, 5, Plain("Pool"), "open"), RsScoped(2, 6, Crate(<<"net", "tcp">>), "connect"), RsImpl(1, 7, <<"Socket">>), RsDef(2, 8, "open")>>},
      {RsSocket(RsUse(1, Dotted(0, <<"std", "io">>), <<Self, Item(<<"Read">>, None, None)>>, None)),
       RsSocket(RsUse(1, Plain("std"), <<Item(<<"io">>, None, <<[path |-> <<"self">>, alias |-> None],
                                                                [path |-> <<"Read">>, alias |-> None]>>),
                                         Item(<<"fmt">>, None, None)>>, None)),
       <<RsUse(1, Crate(<<"start">>), None, None), RsDef(1, 2, "open"), RsBare(2, 3, "start")>>},
      {<<RsDef(1, 1, "connect")>>, RsTwice, Moved(RsTwice)}>>

-----------------------------------------------------------------------------
GoDef(d, l, name) == Def("function_declaration", d, l, name)
GoMethod(d, l, receiver, name) ==
    [kind |-> "method_declaration", depth |-> d, line |-> l, name |-> name, receiver |-> receiver]
GoBare(d, l, name) == CallOf("call_expression", d, l, "identifier", name, None)
GoMember(d, l, object, name) == CallOf("call_expression", d, l, "selector_expression", name, Plain(object))
GoImport(l, parts, alias) ==
    [kind |-> "import_spec", depth |-> 2, line |-> l, module |-> Dotted(0, parts), alias |-> alias]

\* An import path of which a suffix is a directory here; methods of two generic types.
GoMaps ==
    <<Def("type_spec", 1, 1, "Map"), GoMethod(1, 2, <<"m", "Map[K", "V]">>, "Trim"),
      GoMethod(1, 3, <<"c", "Cache[K", "V]">>, "Trim"), GoBare(2, 4, "cut"), GoBare(2, 4, "len"), GoDef(1, 5, "cut")>>

GoVersions ==
    <<{<<GoImport(1, <<"ex", "util", "text">>, None), GoDef(1, 2, "main"), GoMember(2, 3, "text", "Trim"), GoBare(2, 4, "cut")>>,
       <<GoImport(1, <<"fmt">>, "f"), GoImport(2, <<"text">>, "_"), GoDef(1, 3, "main"), GoMember(2, 4, "f", "Trim"),
         GoMember(2, 5, "text", "cut"), GoBare(2, 5, "cut"), GoDef(1, 6, "cut")>>},
      {<<GoDef(1, 1, "Trim")>>, GoMaps, Moved(GoMaps), Below(GoMaps, GoMaps[3])},
      {<<GoDef(1, 1, "Trim"), GoDef(1, 2, "cut"), GoBare(2, 3, "cut")>>, <<GoDef(1, 1, "cut")>>}>>

MCVersions == PyVersions \o TsVersions \o RsVersions \o GoVersions

-----------------------------------------------------------------------------
\* Any fixed order does for the hashes, and the alphabet's for the names.
MCIdBefore(c, d) == c # d /\ c = CHOOSE s \in {c, d} : TRUE

MCNames == <<"Read", "Sock", "api", "close", "connect", "dial", "f", "getcwd", "post", "save", "self", "util">>
Place(name) == IF name \in ToSet(MCNames) THEN CHOOSE k \in DOMAIN MCNames : MCNames[k] = name ELSE 0
MCTextBefore(i, j) == Place(i[2]) < Place(j[2])
=============================================================================
