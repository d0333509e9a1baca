---------------------------- MODULE ProjectConfig ----------------------------
(* One project's devenv.nix while its user edits it, neals init writes into  *)
(* it (cli/init.rs) and other commands read it (Devenv).                     *)
EXTENDS Devenv

CONSTANTS Folder,       \* the name of the project's directory
          UserBindings, \* what the user may write
          Template,     \* the file `devenv init` creates
          MaxBindings   \* bound on the bindings written

\* What the user or `devenv init` writes at once nests at most one set.
IsBinding(b) == b = Bind(b.path, b.value) /\ b.path \in Path
ItemsOf(v) == IF IsSet(v) THEN ToSet(v.items) ELSE {}
Given == UserBindings \union ToSet(Template.items)

ASSUME BindingAssumption ==
    /\ Template = File(Template.top, Template.items, Template.option)
    /\ Template.items \in Seq(Given)
    /\ \A b \in Given :
          /\ IsBinding(b)
          /\ IsSet(b.value) => b.value.items \in Seq(ItemsOf(b.value))
                              /\ b.value = AttrSet(b.value.items)
          /\ \A c \in ItemsOf(b.value) : IsBinding(c) /\ ~IsSet(c.value)

VARIABLES there,        \* devenv.nix is a file
          file,         \* its content
          pc, new,      \* neals init: how far it is, the text it has and will write
          written,      \* history: the bindings of the template and the user's,
                      \* as they were written, in order
          spoilt        \* history: an init died while it wrote, or the user saved
                        \* the file between its reading and its writing

vars == <<there, file, pc, new, written, spoilt>>

Truncated == File("other", <<>>, FALSE)

Resolved == resolve_project_name(there, file, Folder)
Services == read_neals_services(there, file)

Init ==
    /\ there \in BOOLEAN
    /\ file \in IF there THEN {File(t, <<>>, o) : t \in {"attrset", "other"}, o \in BOOLEAN}
                ELSE {Truncated}
    /\ pc = "idle" /\ new = Truncated
    /\ written = <<>> /\ spoilt = FALSE

-----------------------------------------------------------------------------
(* The user. Regrouping an attribute set is writing the same attributes      *)
(* another way: a.b = v, a = { b = v; }, one set or two.                     *)

Items(items) == [file EXCEPT !.items = items]

Save(f) ==
    /\ there /\ file.top = "attrset" /\ pc # "opened"
    /\ file' = f
    /\ spoilt' = (spoilt \/ pc # "idle")
    /\ UNCHANGED <<there, pc, new>>

UserWrites(b) ==
    /\ Len(written) < MaxBindings
    /\ Save(Items(Append(file.items, b)))
    /\ written' = Append(written, b)

Wrap(i) ==
    LET b == file.items[i] IN
    /\ Len(b.path) >= 2
    /\ Save(Items([file.items EXCEPT ![i] =
                       Bind(<<Head(b.path)>>, AttrSet(<<Bind(Tail(b.path), b.value)>>))]))

Unwrap(i) ==
    LET b == file.items[i]
        inner == b.value.items
    IN  /\ b.value.kind = "set" /\ Len(inner) = 1
        /\ Save(Items([file.items EXCEPT ![i] = Bind(b.path \o inner[1].path, inner[1].value)]))

Merge(i, j) ==
    LET a == file.items[i]
        b == file.items[j]
    IN  /\ i < j /\ a.path = b.path
        /\ a.value.kind = "set" /\ b.value.kind = "set"
        /\ Save(Items(RemoveAt([file.items EXCEPT ![i] =
                       Bind(a.path, AttrSet(a.value.items \o b.value.items))], j)))

\* While an init is under way the user only adds, which shows as much.
Regroup ==
    /\ pc = "idle"
    /\ \E i \in DOMAIN file.items :
          Wrap(i) \/ Unwrap(i) \/ (\E j \in DOMAIN file.items : Merge(i, j))
    /\ UNCHANGED written

-----------------------------------------------------------------------------
(* neals init *)

DevenvInit ==
    /\ pc = "idle" /\ ~there
    /\ there' = TRUE /\ file' = Template
    /\ written' = top_level_attrset(Template)
    /\ UNCHANGED <<pc, new, spoilt>>

\* init_in reads the text,
InitReads ==
    /\ pc = "idle" /\ there
    /\ ~has_neals_config(file)
    /\ pc' = "read" /\ new' = file
    /\ UNCHANGED <<there, file, written, spoilt>>

\* and for the name resolve_project_name reads the file once more.
InitNames ==
    LET injected == inject_neals_stanza(new, Resolved.name) IN
    /\ pc = "read"
    /\ Resolved.ok /\ injected.ok
    /\ pc' = "named" /\ new' = injected.file
    /\ UNCHANGED <<there, file, written, spoilt>>

\* fs::write opens with truncation, then writes.
InitOpens ==
    /\ pc = "named"
    /\ pc' = "opened" /\ file' = Truncated
    /\ UNCHANGED <<there, new, written, spoilt>>

InitWrites ==
    /\ pc = "opened"
    /\ pc' = "idle" /\ file' = new /\ new' = Truncated
    /\ UNCHANGED <<there, written, spoilt>>

\* It is killed, or returns an error.
InitDies ==
    /\ pc # "idle"
    /\ pc' = "idle" /\ new' = Truncated
    /\ spoilt' = (spoilt \/ pc = "opened")
    /\ UNCHANGED <<there, file, written>>

InitStep == InitReads \/ InitNames \/ InitOpens \/ InitWrites

Next ==
    \/ \E b \in UserBindings : UserWrites(b)
    \/ Regroup
    \/ DevenvInit
    \/ InitStep
    \/ InitDies

Spec == Init /\ [][Next]_vars

-----------------------------------------------------------------------------
(* Properties *)

\* The attributes somebody wrote, one by one; an empty set is one too.
Attributes(b) ==
    IF ItemsOf(b.value) = {} THEN {b}
    ELSE {Bind(b.path \o c.path, c.value) : c \in ItemsOf(b.value)}

Written == UNION {Attributes(b) : b \in ToSet(written)}

\* Those about a service, and those of them that neals passes over in silence: an
\* empty set, a key with an interpolation anywhere, an attribute below a route.
Mentions ==
    {a \in Written : /\ Len(a.path) >= 3 /\ a.path[1] = "neals"
                     /\ a.path[2] \in {"services", "route"}}
Overlooked(a) ==
    \/ ~IsStatic(a.path)
    \/ IsSet(a.value)
    \/ a.path[2] = "route" /\ Len(a.path) > 3

Noted == {a \in Mentions : ~Overlooked(a)}

\* The declaration says what the attribute says.
Carries(s, a) ==
    \/ /\ a.path[2] = "route"
       /\ IF a.value.str = Tcp THEN s.kind = "tcp" ELSE s.socket = a.value.str
    \/ /\ a.path[2] = "services" /\ Len(a.path) = 4
       /\ \/ a.path[4] = "port" /\ s.port = a.value.int
          \/ a.path[4] = "socket" /\ s.socket = a.value.str
          \/ a.path[4] = "proxy" /\ (s.proxy <=> a.value.bool)

\* A file that is not refused yields each service that somebody wrote an attribute
\* for, exactly once and no other, with what was written for it, however it has
\* been regrouped since and whatever init did to the file (parse_neals_services).
\* Except: the attributes that are passed over, and text that an init lost.
ServicesFound ==
    LET d == Services.decls IN
    there /\ ~spoilt /\ Services.ok =>
        /\ {s.service : s \in d} = {a.path[3] : a \in Noted}
        /\ \A s, t \in d : s.service = t.service => s = t
        /\ \A s \in d : \A a \in Noted : a.path[3] = s.service => Carries(s, a)
        /\ \A s \in d :
              /\ is_valid_service_name(s.service)
              /\ IF s.kind = "unix" THEN is_valid_socket_file(s.socket) /\ s.proxy
                 ELSE s.port \in 1..MaxPort \/ (s.port = 0 /\ s.proxy)

\* A project whose file gives it a good name, but that a mistake elsewhere in the
\* file makes neals register under the name of its folder, cannot be started
\* before the mistake is gone: the two readers of the file fail together.
MisnamedCannotStart ==
    /\ there
    /\ \E l \in FileLeaves(file) :
          /\ l.path = <<"neals", "name">> /\ l.value.kind = "str"
          /\ is_valid_project_name(l.value.str)
    /\ Resolved.fallback
    => ~Services.ok

\* However the user groups the attributes, the name and the services stay the same
\* (a step that only saves the file otherwise grouped leaves pc and written alone).
RegroupingIsNeutral ==
    [][UNCHANGED <<there, pc, written>> =>
          \A f \in {file'} :
             /\ resolve_project_name(there, f, Folder) = Resolved
             /\ read_neals_services(there, f) = Services]_vars

\* No step of neals init changes the name a project has, or its services: who
\* reads before, in between or after gets the same (cli/init.rs). Except when the
\* user's changes were overwritten.
InitIsNeutral ==
    [][pc' # pc /\ ~spoilt' =>
          \A f \in {file'} :
             /\ resolve_project_name(there, f, Folder).name = Resolved.name
             /\ read_neals_services(there, f).decls = Services.decls]_vars

\* Nothing that was written is lost, unless an init died between opening and writing
\* or overwrote what was saved after it had read.
UserTextKept ==
    pc # "opened" /\ ~spoilt =>
        Leaves(written) \subseteq FileLeaves(file)
=============================================================================
