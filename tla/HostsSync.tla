------------------------------ MODULE HostsSync ------------------------------
(* The neals block in the system's hosts file: nealsd writes its fragment    *)
(* and the mirror (daemon/hosts.rs), and whoever may write the file merges   *)
(* one of them into it (common/hosts.rs): nealsd itself, the service that    *)
(* neals-hosts-sync.path starts, or `sudo neals hosts apply`. The user edits *)
(* the same file. A text is a sequence of lines.                             *)
EXTENDS Integers, Sequences, SequencesExt

CONSTANTS Entry,      \* host entries, as render_host_block writes them
          UserLine,   \* lines the user may add
          Modes,      \* "system": nealsd mirrors, "direct": it may write the file
          MaxSyncs, MaxEdits, MaxDeaths   \* bounds

BEGIN_MARKER == "# BEGIN neals"
END_MARKER == "# END neals"
Blank == ""
NoFile == <<"no such file">>

\* What the user adds is neither a marker (UserUnmarks is about those), nor what
\* nealsd writes, nor blank.
ASSUME LineAssumption ==
    /\ Entry \intersect (UserLine \union {"localhost"}) = {}
    /\ (Entry \union UserLine) \intersect {BEGIN_MARKER, END_MARKER, Blank} = {}

VARIABLES mode,
          hosts,      \* the system's hosts file
          fragment,   \* the fragment in the state directory
          mirror,     \* /run/neals/hosts
          pc, block,  \* nealsd: how far sync_host_aliases is, what it renders
          applier,    \* who merges: how far it is, its block, what it will write
          due,        \* the path unit will start its service
          syncs, edits, deaths,
          user,       \* history: the lines the user has put into the file
          spoilt,     \* history: they may be lost (see the actions)
          disturbed   \* history: what nealsd last published may not get there

published == <<fragment, mirror, pc, block, syncs>>
vars == <<mode, hosts, published, applier, due, edits, deaths, user, spoilt, disturbed>>

Appliers == {"nealsd", "unit", "sudo"}
Busy(a) == applier[a].pc # "idle"
Idle == [pc |-> "idle", block |-> <<>>, merged |-> <<>>]

-----------------------------------------------------------------------------
(* The text *)

Line == Entry \union UserLine \union {"localhost", BEGIN_MARKER, END_MARKER, Blank}

render_host_block(entries) == <<BEGIN_MARKER>> \o entries \o <<END_MARKER>>

Renderings == {<<>>} \union {render_host_block(<<e>>) : e \in Entry}

Used(text, n) ==
    /\ n = 0 \/ text[n] # Blank
    /\ \A i \in (n + 1)..Len(text) : text[i] = Blank

TrimEnd(text) == SubSeq(text, 1, CHOOSE n \in 0..Len(text) : Used(text, n))

Put(text, line) == [text EXCEPT !.out = Append(@, line)]

\* Variant: the end marker is not looked for.
strip_line_to_end(text, line) ==
    IF line = BEGIN_MARKER THEN [text EXCEPT !.skipping = TRUE]
    ELSE IF text.skipping THEN text
    ELSE Put(text, line)

\* One turn of the loop of strip_neals_block.
strip_line(text, line) ==
    IF line = BEGIN_MARKER THEN [text EXCEPT !.skipping = TRUE]
    ELSE IF line = END_MARKER THEN [text EXCEPT !.skipping = FALSE]
    ELSE IF text.skipping THEN text
    ELSE Put(text, line)

\* What the loop has after each line.
StripLoop(existing) ==
    LET after[n \in 0..Len(existing)] ==
            IF n = 0 THEN [out |-> <<>>, skipping |-> FALSE]
            ELSE strip_line(after[n - 1], existing[n])
    IN  after

strip_neals_block(existing) == StripLoop(existing)[Len(existing)].out

\* The lines of a text that are in a set, in their order.
OnlyLoop(text, lines) ==
    LET after[n \in 0..Len(text)] ==
            IF n = 0 THEN <<>>
            ELSE IF text[n] \in lines THEN Append(after[n - 1], text[n]) ELSE after[n - 1]
    IN  after

Only(text, lines) == OnlyLoop(text, lines)[Len(text)]

\* Variant: what is kept is not trimmed, and grows with every merge.
merge_untrimmed(existing, b) ==
    strip_neals_block(existing)
        \o IF Contains(b, BEGIN_MARKER) THEN <<Blank>> \o TrimEnd(b) ELSE <<>>

merge_hosts_file(existing, b) ==
    TrimEnd(strip_neals_block(existing))
        \o IF Contains(b, BEGIN_MARKER) THEN <<Blank>> \o TrimEnd(b) ELSE <<>>

hosts_file_equivalent(a, b) == TrimEnd(a) = TrimEnd(b)

-----------------------------------------------------------------------------
\* A daemon starts without a sync: what an earlier one left is still there.
Init ==
    /\ mode \in Modes
    /\ \E left \in Renderings :
          /\ hosts = merge_hosts_file(<<"localhost">>, left)
          /\ fragment = left /\ disturbed = (left # <<>>)
    /\ user = <<"localhost">> /\ spoilt = FALSE
    /\ mirror = NoFile /\ block = <<>> /\ pc = "idle"
    /\ applier = [a \in Appliers |-> Idle] /\ due = FALSE
    /\ syncs = 0 /\ edits = 0 /\ deaths = 0

-----------------------------------------------------------------------------
(* sync_host_aliases *)

\* fs::write opens the fragment with truncation,
Sync ==
    /\ pc = "idle" /\ syncs < MaxSyncs
    /\ block' \in Renderings
    /\ pc' = "fragment" /\ fragment' = <<>> /\ syncs' = syncs + 1
    /\ UNCHANGED <<mode, hosts, mirror, applier, due, edits, deaths, user, spoilt, disturbed>>

\* then writes it.
WriteFragment ==
    /\ pc = "fragment"
    /\ pc' = "mirror" /\ fragment' = block
    /\ UNCHANGED <<mode, hosts, mirror, block, syncs, applier, due, edits, deaths, user, spoilt,
                   disturbed>>

\* Variant: a mirror that is there is taken for up to date.
MirrorOnce ==
    LET changes == mode = "system" /\ mirror = NoFile IN
    /\ pc = "mirror"
    /\ pc' = "apply"
    /\ IF changes THEN mirror' = block /\ due' = TRUE /\ disturbed' = Busy("sudo")
       ELSE UNCHANGED <<mirror, due, disturbed>>
    /\ UNCHANGED <<mode, hosts, fragment, block, syncs, applier, edits, deaths, user, spoilt>>

\* mirror_system_hosts_fragment: a rename, unless nothing changes. A change that
\* systemd sees starts the service again; while the service runs it may miss one.
Mirror ==
    LET changes == mode = "system" /\ mirror # block IN
    /\ pc = "mirror"
    /\ pc' = "apply"
    /\ IF changes
       THEN /\ mirror' = block
            /\ due' \in (IF applier["unit"].pc = "idle" THEN {TRUE} ELSE BOOLEAN)
            /\ disturbed' = (~due' \/ applier["sudo"].pc # "idle")
       ELSE UNCHANGED <<mirror, due, disturbed>>
    /\ UNCHANGED <<mode, hosts, fragment, block, syncs, applier, edits, deaths, user, spoilt>>

\* apply_hosts_file in the daemon. Without the right to write, its reading has no effect.
Apply ==
    /\ pc = "apply" /\ applier["nealsd"].pc = "idle"
    /\ IF mode = "direct"
       THEN /\ pc' = "applying"
            /\ applier' = [applier EXCEPT !["nealsd"] = [Idle EXCEPT !.pc = "block", !.block = block]]
            /\ disturbed' = (applier["sudo"].pc # "idle")
       ELSE pc' = "idle" /\ UNCHANGED <<applier, disturbed>>
    /\ UNCHANGED <<mode, hosts, fragment, mirror, block, syncs, due, edits, deaths, user, spoilt>>

-----------------------------------------------------------------------------
(* apply_hosts_fragment_file and apply_hosts_file *)

\* The path unit starts its service, the user the command: it reads its fragment.
ReadBlock(a, text) ==
    /\ ~Busy(a)
    /\ applier' = [applier EXCEPT ![a] =
                      [Idle EXCEPT !.pc = "block", !.block = IF text = NoFile THEN <<>> ELSE text]]

ServiceStarts ==
    /\ due /\ due' = FALSE
    /\ ReadBlock("unit", mirror)
    /\ disturbed' = (disturbed \/ Busy("sudo"))
    /\ UNCHANGED <<mode, hosts, published, edits, deaths, user, spoilt>>

SudoApply ==
    /\ ReadBlock("sudo", fragment)
    /\ edits < MaxEdits /\ edits' = edits + 1
    /\ disturbed' = (disturbed \/ Busy("unit") \/ Busy("nealsd") \/ pc = "fragment")
    /\ UNCHANGED <<mode, hosts, published, due, deaths, user, spoilt>>

\* Variant: the sync does not come back from the merge.
DoneStays(a) ==
    /\ applier' = [applier EXCEPT ![a] = Idle]
    /\ UNCHANGED <<pc, mode, fragment, mirror, block, syncs, due, edits, deaths, user>>

Done(a) ==
    /\ applier' = [applier EXCEPT ![a] = Idle]
    /\ pc' = IF a = "nealsd" THEN "idle" ELSE pc
    /\ UNCHANGED <<mode, fragment, mirror, block, syncs, due, edits, deaths, user>>

ReadExisting(a) ==
    \E merged \in {merge_hosts_file(hosts, applier[a].block)} :
    /\ applier[a].pc = "block"
    /\ IF hosts_file_equivalent(hosts, merged) THEN Done(a)
       ELSE /\ applier' = [applier EXCEPT ![a].pc = "read", ![a].merged = merged]
            /\ UNCHANGED <<mode, published, due, edits, deaths, user>>
    /\ UNCHANGED <<hosts, spoilt, disturbed>>

\* Variant: the file is opened without truncation.
OpenUntruncated(a) ==
    /\ applier[a].pc = "read"
    /\ applier' = [applier EXCEPT ![a].pc = "opened"]
    /\ UNCHANGED <<hosts, mode, published, due, edits, deaths, user, spoilt, disturbed>>

\* write_in_place: open with truncation, write from the start. If another has
\* written meanwhile, what is longer of its text stays behind.
OpenHosts(a) ==
    /\ applier[a].pc = "read"
    /\ applier' = [applier EXCEPT ![a].pc = "opened"]
    /\ hosts' = <<>>
    /\ UNCHANGED <<mode, published, due, edits, deaths, user, spoilt, disturbed>>

WriteHosts(a) ==
    \E text \in {applier[a].merged} :
    /\ applier[a].pc = "opened"
    /\ hosts' = text \o SubSeq(hosts, Len(text) + 1, Len(hosts))
    /\ spoilt' = (spoilt \/ \E b \in Appliers \ {a} : applier[b].pc \in {"read", "opened"})
    /\ Done(a)
    /\ UNCHANGED disturbed

\* It is killed: of the text it was writing, the file has a beginning.
Dies(a) ==
    /\ Busy(a) /\ deaths < MaxDeaths /\ deaths' = deaths + 1
    /\ \E k \in 0..Len(applier[a].merged) :
          hosts' = IF applier[a].pc = "opened" THEN SubSeq(applier[a].merged, 1, k) ELSE hosts
    /\ spoilt' = (spoilt \/ applier[a].pc = "opened")
    /\ disturbed' = TRUE
    /\ applier' = [applier EXCEPT ![a] = Idle]
    /\ pc' = IF a = "nealsd" THEN "idle" ELSE pc
    /\ UNCHANGED <<mode, fragment, mirror, block, syncs, due, edits, user>>

\* nealsd ends or is killed; systemd removes its runtime directory and starts it anew.
NealsdRestarts ==
    /\ pc \notin {"applying"} /\ deaths < MaxDeaths /\ deaths' = deaths + 1
    /\ pc' = "idle" /\ mirror' = NoFile /\ block' = <<>>
    /\ due' \in {due, FALSE} /\ disturbed' = TRUE
    /\ UNCHANGED <<mode, hosts, fragment, syncs, applier, edits, user, spoilt>>

-----------------------------------------------------------------------------
(* The user's editor replaces the file at once. *)

Edit(text) ==
    /\ edits < MaxEdits /\ edits' = edits + 1
    /\ hosts' = text
    /\ spoilt' = (spoilt \/ \E a \in Appliers : applier[a].pc \in {"read", "opened"})
    /\ UNCHANGED <<mode, published, applier, due, deaths>>

UserAdds(line) ==
    /\ Edit(Append(hosts, line))
    /\ user' = Append(user, line)
    /\ UNCHANGED disturbed

\* Removes the end marker: what follows the block counts as part of it.
UserUnmarks ==
    /\ Contains(hosts, END_MARKER)
    /\ edits < MaxEdits /\ edits' = edits + 1
    /\ hosts' = Only(hosts, Line \ {END_MARKER})
    /\ spoilt' = TRUE /\ disturbed' = TRUE
    /\ UNCHANGED <<mode, published, applier, due, deaths, user>>

-----------------------------------------------------------------------------
NealsdStep == Sync \/ WriteFragment \/ Mirror \/ Apply
ApplyStep(a) == ReadExisting(a) \/ OpenHosts(a) \/ WriteHosts(a)

Next ==
    \/ NealsdStep \/ NealsdRestarts
    \/ ServiceStarts \/ SudoApply
    \/ \E a \in Appliers : ApplyStep(a) \/ Dies(a)
    \/ \E line \in UserLine : UserAdds(line)
    \/ UserUnmarks

\* nealsd ends a sync it has begun, systemd starts what is due, a command runs.
Spec ==
    /\ Init /\ [][Next]_vars
    /\ WF_vars(WriteFragment \/ Mirror \/ Apply)
    /\ WF_vars(ServiceStarts)
    /\ \A a \in Appliers : WF_vars(ApplyStep(a))

-----------------------------------------------------------------------------
(* Properties *)

Texts == {hosts, fragment, block} \union {applier[a].merged : a \in Appliers}

TypeOK ==
    /\ mode \in Modes /\ pc \in {"idle", "fragment", "mirror", "apply", "applying"}
    /\ fragment \in Renderings /\ block \in Renderings /\ mirror \in Renderings \union {NoFile}
    /\ \A t \in Texts : ToSet(t) \subseteq Line
    /\ \A a \in Appliers : applier[a].pc \in {"idle", "block", "read", "opened"}
    /\ pc = "applying" <=> Busy("nealsd")
    /\ {due, spoilt, disturbed} \subseteq BOOLEAN

Markers(text) == Only(text, {BEGIN_MARKER, END_MARKER})

\* Whatever state the file is in, a merge leaves one whole block, or none when there
\* is nothing to publish, keeps what is outside, and a second merge changes nothing
\* (merge_hosts_file).
MergeIsSound ==
    \A b \in Renderings :
        LET m == merge_hosts_file(hosts, b) IN
        /\ Markers(m) = Markers(b)
        /\ hosts_file_equivalent(strip_neals_block(m), strip_neals_block(hosts))
        /\ merge_hosts_file(m, b) = m

Writing == \E a \in Appliers : applier[a].pc = "opened"
UserLines(text) == Only(text, UserLine \union {"localhost"})

\* The user's lines stay, in their order and outside the block, whatever nealsd
\* publishes and however often: unless a writer died or was overlapped by another
\* or by the user's editor, or the user broke the block (apply_hosts_file).
UserLinesKept ==
    ~Writing /\ ~spoilt => UserLines(strip_neals_block(hosts)) = user

\* No writer leaves a block that none of the two sides of the file knows: in a file
\* that is not being written there is at most one block, and it is one that was
\* published, as long as nothing was overlapped.
BlockIsWhole ==
    ~Writing /\ ~spoilt =>
        Only(hosts, Entry \union {BEGIN_MARKER, END_MARKER}) \in Renderings

\* What nealsd publishes gets into the file, without another sync: unless someone
\* else applied at the same time, a writer or the daemon died, the path unit missed
\* the change or the user broke the block (a later change heals all of these).
Applied ==
    /\ Markers(hosts) = Markers(block)
    /\ \E i \in 0..(Len(hosts) - Len(block)) : SubSeq(hosts, i + 1, i + Len(block)) = block

PublishedArrives ==
    (pc = "idle" /\ ~disturbed) ~> (pc # "idle" \/ disturbed \/ (Applied /\ ~Writing))
=============================================================================
