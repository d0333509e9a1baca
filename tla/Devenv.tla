------------------------------- MODULE Devenv -------------------------------
(* What neals reads from a project's devenv.nix and writes into it           *)
(* (common/devenv.rs).                                                       *)
(*                                                                           *)
(* A file is the syntax tree rnix makes of it, with the wrappers (function   *)
(* head, with, let) of the top-level attribute set already removed:          *)
(*   top     "attrset", or "other" if what remains is not an attribute set   *)
(*   items   its bindings, in order                                          *)
(*   option  the text "options.neals" occurs somewhere in the file           *)
(* A binding has a path (a sequence of keys; Dynamic is a key with an        *)
(* interpolation) and a value. A value is a nested set of bindings, a        *)
(* literal, or something only Nix can evaluate. Names are members of small   *)
(* sets: which of them are well formed is a constant.                        *)
EXTENDS Integers, Sequences, SequencesExt

CONSTANTS ValidName,    \* the names is_valid_project_name accepts
          ValidSocket,  \* the strings is_valid_socket_file accepts
          Dynamic,      \* an attribute key with an interpolation
          NoName

Path == Seq(STRING) \ {<<>>}

Keys == {"neals", "name", "services", "imports"}   \* the keys that neals writes

ASSUME KeyAssumption ==
    /\ Keys \subseteq STRING /\ Dynamic \in STRING \ Keys
    /\ ValidName \subseteq STRING /\ NoName \notin ValidName

MaxPort == 65535
Tcp == "tcp"

is_valid_project_name(n) == n \in ValidName
is_valid_service_name(n) == is_valid_project_name(n)
is_valid_socket_file(s) == s \in ValidSocket \ {Tcp}

NixStr(s) == [kind |-> "str", str |-> s]
NixInt(n) == [kind |-> "int", int |-> n]
NixBool(b) == [kind |-> "bool", bool |-> b]
List == [kind |-> "list"]
Overflow == [kind |-> "overflow"]   \* an integer that does not fit in 64 bits
Expr == [kind |-> "expr"]           \* a variable, a call, an interpolation, a float

Bind(path, value) == [path |-> path, value |-> value]
File(top, items, option) == [top |-> top, items |-> items, option |-> option]

-----------------------------------------------------------------------------
(* collect_neals_literals *)

IsStatic(path) == \A i \in DOMAIN path : path[i] # Dynamic

IsLiteral(v) == v.kind \in {"str", "int", "bool"}
IsSet(v) == v.kind = "set"

\* Variant: the walk does not enter a nested set.
UnderFlat(b) == IF IsStatic(b.path) /\ ~IsSet(b.value) THEN {b} ELSE {}

\* walk_attrset: what is not a set, each with its full path. Bindings whose path is
\* dynamic are skipped, and all that is below them. What a walk of a nested set
\* finds, the set carries as an attribute.
Under(b) ==
    IF ~IsStatic(b.path) THEN {}
    ELSE IF IsSet(b.value) THEN {Bind(b.path \o l.path, l.value) : l \in b.value.leaves}
    ELSE {b}

Leaves(items) == UNION {Under(items[i]) : i \in DOMAIN items}

\* insert_lit: a path that has a literal already.
Clash(b, d) ==
    \E l \in Under(b), m \in Under(d) :
        l.path = m.path /\ IsLiteral(l.value) /\ IsLiteral(m.value)

insert_lit_fails(items) ==
    \/ \E i \in DOMAIN items :
          IsStatic(items[i].path) /\ IsSet(items[i].value) /\ items[i].value.repeats
    \/ \E i, j \in DOMAIN items : i # j /\ Clash(items[i], items[j])

AttrSet(items) == [kind |-> "set", items |-> items,
                   leaves |-> Leaves(items), repeats |-> insert_lit_fails(items)]

top_level_attrset(file) == IF file.top = "attrset" THEN file.items ELSE <<>>
FileLeaves(file) == Leaves(top_level_attrset(file))

requires_literal(path) ==
    Len(path) >= 3 /\ path[1] = "neals" /\ path[2] \in {"route", "services", "name"}

\* The errors of walk_attrset and insert_lit, which concern the whole file.
Unreadable(leaf) ==
    \/ leaf.value.kind = "overflow"
    \/ ~IsLiteral(leaf.value) /\ requires_literal(leaf.path)

\* collect_neals_literals: the literals below neals, as bindings without that key.
collect_neals_literals(file) ==
    LET leaves == FileLeaves(file)
        ours == {l \in leaves : IsLiteral(l.value) /\ l.path # <<>> /\ l.path[1] = "neals"}
    IN  [ok |-> ~insert_lit_fails(top_level_attrset(file)) /\ \A l \in leaves : ~Unreadable(l),
         lits |-> {Bind(Tail(l.path), l.value) : l \in ours}]

-----------------------------------------------------------------------------
(* neals.name *)

\* Variant: a name inside a set is not seen.
parse_neals_name_flat(file) ==
    LET named == {b \in ToSet(file.items) :
            b.path = <<"neals", "name">> /\ b.value.kind = "str" /\ b.value.str \in ValidName}
    IN  IF collect_neals_literals(file).ok /\ named # {}
        THEN (CHOOSE b \in named : TRUE).value.str ELSE NoName

parse_neals_name(file) ==
    LET c == collect_neals_literals(file)
        names == {l.value.str : l \in {m \in c.lits : m.path = <<"name">> /\ m.value.kind = "str"}}
        valid == {n \in names : is_valid_project_name(n)}
    IN  IF c.ok /\ valid # {} THEN CHOOSE n \in valid : TRUE ELSE NoName

\* resolve_project_name: `there` tells whether devenv.nix is a file, `folder` is
\* the name of the directory.
resolve_project_name(there, file, folder) ==
    LET named == IF there THEN parse_neals_name(file) ELSE NoName
    IN  CASE named # NoName -> [ok |-> TRUE, name |-> named, fallback |-> FALSE]
          [] OTHER -> [ok |-> is_valid_project_name(folder), name |-> folder, fallback |-> TRUE]

-----------------------------------------------------------------------------
(* neals.services and neals.route *)

ServicePaths(lits) == {l \in lits : Len(l.path) >= 2 /\ l.path[1] = "services"}
RoutePaths(lits) == {l \in lits : Len(l.path) = 2 /\ l.path[1] = "route"}

lit_port(v) == v.kind = "int" /\ v.int \in 1..MaxPort
lit_bool(v) == v.kind = "bool"
lit_str(v) == v.kind = "str"

\* A leaf that parse_neals_services accepts below services.
FieldOk(l) ==
    /\ is_valid_service_name(l.path[2])
    /\ Len(l.path) = 3
    /\ CASE l.path[3] = "port" -> lit_port(l.value)
         [] l.path[3] = "proxy" -> lit_bool(l.value)
         [] l.path[3] = "socket" -> lit_str(l.value) /\ is_valid_socket_file(l.value.str)
         [] OTHER -> FALSE

RouteOk(l) ==
    /\ is_valid_service_name(l.path[2])
    /\ lit_str(l.value)
    /\ l.value.str = Tcp \/ is_valid_socket_file(l.value.str)

\* ServiceDraft: the fields given for a service.
Fields(lits, s) == {l \in ServicePaths(lits) : l.path[2] = s}
Has(draft, field) == \E l \in draft : l.path[3] = field
Field(draft, field) == (CHOOSE l \in draft : l.path[3] = field).value

TcpDecl(s, port, proxy) == [service |-> s, kind |-> "tcp", port |-> port, proxy |-> proxy, socket |-> ""]
UnixDecl(s, socket) == [service |-> s, kind |-> "unix", port |-> 0, proxy |-> TRUE, socket |-> socket]

into_decl_fails(draft) ==
    \/ Has(draft, "port") = Has(draft, "socket")
    \/ /\ Has(draft, "socket") /\ Has(draft, "proxy")
       /\ ~Field(draft, "proxy").bool

into_decl(draft, s) ==
    IF Has(draft, "socket") THEN UnixDecl(s, Field(draft, "socket").str)
    ELSE TcpDecl(s, Field(draft, "port").int, Has(draft, "proxy") /\ Field(draft, "proxy").bool)

RouteDecl(l) == IF l.value.str = Tcp THEN TcpDecl(l.path[2], 0, TRUE)
                ELSE UnixDecl(l.path[2], l.value.str)

\* parse_neals_services; port 0 stands for no preferred port. The sorting by name
\* makes the result a set.
parse_neals_services(file) ==
    LET c == collect_neals_literals(file)
        drafted == {l.path[2] : l \in ServicePaths(c.lits)}
        routes == RoutePaths(c.lits)
        ok == /\ c.ok
              /\ \A l \in ServicePaths(c.lits) : FieldOk(l)
              /\ \A s \in drafted : ~into_decl_fails(Fields(c.lits, s))
              /\ \A l \in routes : RouteOk(l) /\ l.path[2] \notin drafted
    IN  [ok |-> ok,
         decls |-> IF ~ok THEN {}
                   ELSE {into_decl(Fields(c.lits, s), s) : s \in drafted}
                          \union {RouteDecl(l) : l \in routes}]

\* read_neals_services: no devenv.nix, no services.
read_neals_services(there, file) ==
    IF there THEN parse_neals_services(file) ELSE [ok |-> TRUE, decls |-> {}]

wants_proxy(decl) == decl.proxy
-----------------------------------------------------------------------------
(* neals init *)

\* Variant: only a set of that name counts.
has_neals_set(file) ==
    \E i \in DOMAIN top_level_attrset(file) : file.items[i].path = <<"neals">>

has_neals_config(file) ==
    \E i \in DOMAIN top_level_attrset(file) :
        LET path == file.items[i].path IN IsStatic(path) /\ path # <<>> /\ path[1] = "neals"

\* find_imports_list: the first binding of exactly `imports`, 0 if there is none.
ImportsAt(file) ==
    SelectInSeq(top_level_attrset(file), LAMBDA b : b.path = <<"imports">>)

ImportsBlock == Bind(<<"imports">>, List)
NealsBlock(name) ==
    Bind(<<"neals">>, AttrSet(<<Bind(<<"name">>, NixStr(name)), Bind(<<"services">>, AttrSet(<<>>))>>))

\* Variant: the stanza is all that is written.
inject_alone(file, name) ==
    [ok |-> is_valid_project_name(name), file |-> File("attrset", <<NealsBlock(name)>>, TRUE)]

\* inject_neals_stanza: the block goes behind the imports, which get the option,
\* or to the front with imports of its own.
inject_neals_stanza(file, name) ==
    LET at == ImportsAt(file)
        new == IF at = 0
               THEN (IF file.option THEN <<>> ELSE <<ImportsBlock>>)
                        \o <<NealsBlock(name)>> \o file.items
               ELSE InsertAt(file.items, at + 1, NealsBlock(name))
    IN  CASE ~is_valid_project_name(name) -> [ok |-> FALSE, file |-> file]
          [] has_neals_config(file) -> [ok |-> TRUE, file |-> file]
          [] file.top # "attrset" \/ (at # 0 /\ file.items[at].value.kind # "list") ->
                 [ok |-> FALSE, file |-> file]
          [] OTHER -> [ok |-> TRUE, file |-> File("attrset", new, TRUE)]
=============================================================================
