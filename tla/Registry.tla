-------------------------------- MODULE Registry --------------------------------
(***************************************************************************)
(* The registry of projects, projects.json, and the commands that change   *)
(* it: `neals register`, `unregister` and `prune`.  Every command is a     *)
(* process of its own; it loads the file, changes its copy, possibly after *)
(* a prompt, and saves the copy: it writes projects.json.tmp, a name all   *)
(* commands share, and renames it.  There is no lock.                      *)
(*                                                                         *)
(* A file is an inode with a content, because a command that opened        *)
(* projects.json.tmp goes on writing to the same inode after another       *)
(* command renamed it.  A registry is a function from names to paths (the  *)
(* order of the entries is left out); entries are taken to have texts of   *)
(* equal length, so that a longer text is one with more entries.           *)
(***************************************************************************)
EXTENDS FiniteSets, Naturals

CONSTANTS
    Name,           \* project names
    Path,           \* project directories
    Cli,            \* processes running a command
    Inode,          \* enough for the two files and what the commands hold open
    NoInode,
    Blank, Torn,    \* contents that do not parse: truncated, mixed
    Unknown,        \* what the registry table holds after a mishap
    Faults          \* what may go wrong: "crash", "write"

ASSUME RegistryAssumption ==
    /\ NoInode \notin Inode
    /\ Faults \subseteq {"crash", "write"}

VARIABLES
    file,           \* the inode projects.json names
    tmp,            \* the inode projects.json.tmp names
    content,        \* the content of each inode
    dirs,           \* the project directories that exist
    pc,             \* how far each command is
    cmd,            \* what it does
    mem,            \* its copy of the registry
    fd,             \* the inode it has open for writing
    missing,        \* history: paths a prune could have seen missing
    behind,         \* history: commands whose copy is older than projects.json
    lost,           \* history: such a copy was saved
    overlap,        \* history: a save began while another was under way
    broken          \* history: a command died or could not write

files == <<file, tmp, content>>
history == <<overlap, broken>>
vars == <<files, dirs, pc, cmd, mem, fd, missing, behind, lost, history>>

-----------------------------------------------------------------------------
Registries == UNION {[S -> Path] : S \in SUBSET Name}

NoProjects == [n \in {} |-> CHOOSE p \in Path : TRUE]

ASSUME ContentAssumption ==
    /\ Blank \notin Registries /\ Torn \notin Registries
    /\ Blank # Torn

Commands == [op : {"register"}, name : Name, path : Path]
              \union [op : {"unregister"}, name : Name]
              \union [op : {"prune"}]
              \union [op : {"none"}]

Nothing == [op |-> "none"]

Parses == file # NoInode => content[file] \in Registries

\* Registry::load
Loaded == IF file = NoInode THEN NoProjects ELSE content[file]

\* add and upsert
With(reg, n, p) ==
    [m \in DOMAIN reg \union {n} |-> IF m = n THEN p ELSE reg[m]]

Without(reg, n) == [m \in DOMAIN reg \ {n} |-> reg[m]]

\* Variant: partition's halves are mixed up.
KeepGhosts(reg) == [m \in {k \in DOMAIN reg : reg[k] \notin dirs} |-> reg[m]]

\* take_ghosts keeps what is_dir holds of.
TakeGhosts(reg) == [m \in {k \in DOMAIN reg : reg[k] \in dirs} |-> reg[m]]

HasGhosts(reg) == \E n \in DOMAIN reg : reg[n] \notin dirs

(***************************************************************************)
(* What a write at the beginning of a file can make of its content: the    *)
(* tail of a longer text stays behind the new one.                         *)
(***************************************************************************)
LandsAs(old, new) ==
    IF old = Blank THEN {new}
    ELSE IF old = Torn THEN {new, Torn}
    ELSE IF Cardinality(DOMAIN old) <= Cardinality(DOMAIN new) THEN {new}
    ELSE {Torn}

Saving(c) == pc[c] \in {"write", "rename"}

Init ==
    /\ file = NoInode /\ tmp = NoInode
    /\ content = [i \in Inode |-> Blank]
    /\ dirs \in SUBSET Path
    /\ pc = [c \in Cli |-> "idle"]
    /\ cmd = [c \in Cli |-> Nothing]
    /\ mem = [c \in Cli |-> NoProjects]
    /\ fd = [c \in Cli |-> NoInode]
    /\ missing = [c \in Cli |-> {}]
    /\ behind = {} /\ lost = FALSE
    /\ overlap = FALSE /\ broken = FALSE

-----------------------------------------------------------------------------
(* The commands *)

\* A command starts by loading the registry.
Starts(c, what, reg, next) ==
    /\ pc[c] = "idle"
    /\ pc' = [pc EXCEPT ![c] = next]
    /\ cmd' = [cmd EXCEPT ![c] = what]
    /\ mem' = [mem EXCEPT ![c] = reg]
    /\ missing' = [missing EXCEPT ![c] = IF what.op = "prune" THEN Path \ dirs ELSE {}]
    /\ UNCHANGED <<files, dirs, fd, behind, lost, history>>

(***************************************************************************)
(* cmd_register in directory p.  A name that is registered elsewhere needs *)
(* a confirmation; one that is registered here is left alone.              *)
(***************************************************************************)
Register(c, n, p) ==
    /\ p \in dirs
    /\ LET what == [op |-> "register", name |-> n, path |-> p] IN
        \/ /\ n \notin DOMAIN Loaded
           /\ Starts(c, what, With(Loaded, n, p), "open")
        \/ /\ n \in DOMAIN Loaded /\ Loaded[n] # p
           /\ Starts(c, what, Loaded, "prompt")

Unregister(c, n) ==
    /\ n \in DOMAIN Loaded
    /\ Starts(c, [op |-> "unregister", name |-> n], Without(Loaded, n), "open")

Prune(c) ==
    /\ HasGhosts(Loaded)
    /\ Starts(c, [op |-> "prune"], Loaded, "prompt")

(***************************************************************************)
(* The answer to the prompt.  prune looks for ghosts once more, but in the *)
(* registry it loaded before it asked.                                     *)
(***************************************************************************)
Confirm(c) ==
    /\ pc[c] = "prompt"
    /\ mem' = [mem EXCEPT ![c] =
                 IF cmd[c].op = "prune" THEN TakeGhosts(mem[c])
                 ELSE With(mem[c], cmd[c].name, cmd[c].path)]
    /\ pc' = [pc EXCEPT ![c] = "open"]
    /\ UNCHANGED <<files, dirs, cmd, fd, missing, behind, lost, history>>

\* The command ends; its exit closes what it had open.
Ends(c) ==
    /\ pc' = [pc EXCEPT ![c] = "idle"]
    /\ cmd' = [cmd EXCEPT ![c] = Nothing]
    /\ mem' = [mem EXCEPT ![c] = NoProjects]
    /\ fd' = [fd EXCEPT ![c] = NoInode]
    /\ missing' = [missing EXCEPT ![c] = {}]

\* Nobody else's copy is older for it.
Leaves(c) ==
    /\ Ends(c)
    /\ behind' = behind \ {c}
    /\ UNCHANGED lost

\* The registry is replaced: by a copy that may be older itself.
Replaces(c) ==
    /\ Ends(c)
    /\ behind' = {d \in Cli : pc[d] # "idle"} \ {c}
    /\ lost' = (lost \/ c \in behind)

Decline(c) ==
    /\ pc[c] = "prompt"
    /\ Leaves(c)
    /\ UNCHANGED <<files, dirs, history>>

Crash(c) ==
    /\ "crash" \in Faults
    /\ pc[c] # "idle"
    /\ Leaves(c)
    /\ broken' = TRUE
    /\ UNCHANGED <<files, dirs, overlap>>

-----------------------------------------------------------------------------
(* save_to *)

Free(i) == i # file /\ i # tmp /\ \A c \in Cli : fd[c] # i

\* Variant: the registry is written in place.
OpenInPlace(c) ==
    /\ pc[c] = "open"
    /\ \E i \in Inode :
        /\ IF file = NoInode THEN Free(i) ELSE i = file
        /\ file' = i
        /\ content' = [content EXCEPT ![i] = Blank]
        /\ fd' = [fd EXCEPT ![c] = i]
    /\ overlap' = (overlap \/ \E d \in Cli : Saving(d))
    /\ pc' = [pc EXCEPT ![c] = "write"]
    /\ UNCHANGED <<tmp, dirs, cmd, mem, missing, behind, lost, broken>>

\* fs::write creates the file or truncates what is there,
OpenTmp(c) ==
    /\ pc[c] = "open"
    /\ \E i \in Inode :
        /\ IF tmp = NoInode THEN Free(i) ELSE i = tmp
        /\ tmp' = i
        /\ content' = [content EXCEPT ![i] = Blank]
        /\ fd' = [fd EXCEPT ![c] = i]
    /\ overlap' = (overlap \/ \E d \in Cli : Saving(d))
    /\ pc' = [pc EXCEPT ![c] = "write"]
    /\ UNCHANGED <<file, dirs, cmd, mem, missing, behind, lost, broken>>

\* writes the text to the inode it opened, whatever that is called by now,
WriteTmp(c) ==
    /\ pc[c] = "write"
    /\ \E text \in LandsAs(content[fd[c]], mem[c]) :
        content' = [content EXCEPT ![fd[c]] = text]
    /\ fd' = [fd EXCEPT ![c] = NoInode]
    /\ pc' = [pc EXCEPT ![c] = "rename"]
    /\ UNCHANGED <<file, tmp, dirs, cmd, mem, missing, behind, lost, history>>

\* and may fail in the middle, which ends the command;
WriteFails(c) ==
    /\ "write" \in Faults
    /\ pc[c] = "write"
    /\ content' = [content EXCEPT ![fd[c]] = Torn]
    /\ Leaves(c)
    /\ broken' = TRUE
    /\ UNCHANGED <<file, tmp, dirs, overlap>>

\* An inode without a name that nobody has open is gone.
Unlinked(i) == i \in Inode /\ \A c \in Cli : fd[c] # i

Discard(i) ==
    content' = IF Unlinked(i) THEN [content EXCEPT ![i] = Blank] ELSE content

\* rename gives the registry's name to what projects.json.tmp is now.
Rename(c) ==
    /\ pc[c] = "rename"
    /\ tmp # NoInode
    /\ file' = tmp
    /\ tmp' = NoInode
    /\ Discard(file)
    /\ Replaces(c)
    /\ UNCHANGED <<dirs, history>>

\* Another command has renamed it already.
RenameFails(c) ==
    /\ pc[c] = "rename"
    /\ tmp = NoInode
    /\ Leaves(c)
    /\ UNCHANGED <<files, dirs, history>>

-----------------------------------------------------------------------------
(* The user makes and removes project directories. *)
MakeDir(p) ==
    /\ p \notin dirs
    /\ dirs' = dirs \union {p}
    /\ UNCHANGED <<files, pc, cmd, mem, fd, missing, behind, lost, history>>

RemoveDir(p) ==
    /\ p \in dirs
    /\ dirs' = dirs \ {p}
    /\ missing' = [c \in Cli |-> IF cmd[c].op = "prune" THEN missing[c] \union {p}
                                 ELSE missing[c]]
    /\ UNCHANGED <<files, pc, cmd, mem, fd, behind, lost, history>>

\* A registry that does not parse ends every command before it does anything.
Command(c) ==
    /\ Parses
    /\ \/ \E n \in Name : \/ \E p \in Path : Register(c, n, p)
                          \/ Unregister(c, n)
       \/ Prune(c)

Save(c) == OpenTmp(c) \/ WriteTmp(c) \/ WriteFails(c) \/ Rename(c) \/ RenameFails(c)

Next ==
    \/ \E c \in Cli : \/ Command(c) \/ Confirm(c) \/ Decline(c)
                      \/ Save(c) \/ Crash(c)
    \/ \E p \in Path : MakeDir(p) \/ RemoveDir(p)

Spec == Init /\ [][Next]_vars

-----------------------------------------------------------------------------
(* Properties *)

TypeOK ==
    /\ file \in Inode \union {NoInode}
    /\ tmp \in Inode \union {NoInode}
    /\ content \in [Inode -> Registries \union {Blank, Torn}]
    /\ dirs \subseteq Path
    /\ pc \in [Cli -> {"idle", "prompt", "open", "write", "rename"}]
    /\ cmd \in [Cli -> Commands]
    /\ mem \in [Cli -> Registries]
    /\ fd \in [Cli -> Inode \union {NoInode}]
    /\ missing \in [Cli -> SUBSET Path]
    /\ behind \subseteq Cli /\ lost \in BOOLEAN
    /\ overlap \in BOOLEAN /\ broken \in BOOLEAN

(***************************************************************************)
(* projects.json parses at every moment, also right after a command died   *)
(* or ran out of space anywhere in its save, unless two saves overlapped:  *)
(* prompts of other commands and leftovers of dead ones do no harm.        *)
(***************************************************************************)
ParsesUnlessOverlap == Parses \/ overlap

(***************************************************************************)
(* When all commands have ended and none died, no projects.json.tmp is     *)
(* left, even if saves overlapped and a rename failed.                     *)
(***************************************************************************)
LeavesNoTmp == (\A c \in Cli : pc[c] = "idle") /\ ~broken => tmp = NoInode

(***************************************************************************)
(* The commands implement the registry table: a save takes effect as a     *)
(* whole or not at all, whatever becomes of the command, until two saves   *)
(* overlap or an old copy is saved.                                        *)
(***************************************************************************)
Table == INSTANCE RegistryTable
    WITH table <- IF overlap \/ lost THEN Unknown ELSE Loaded
TableSpec == Table!Spec

(***************************************************************************)
(* A prune drops only entries whose path was missing at some time while it *)
(* ran, unless its copy was old or it saved while another command did.     *)
(***************************************************************************)
PruneDropsGhosts ==
    [][\A c \in Cli :
         cmd[c].op = "prune" /\ Rename(c) /\ Parses /\ Parses' /\ ~overlap /\ c \notin behind =>
           \A n \in DOMAIN Loaded \ DOMAIN Loaded' : Loaded[n] \in missing[c]]_vars
=============================================================================
