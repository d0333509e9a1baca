----------------------------- MODULE RegistryProofs -----------------------------
(***************************************************************************)
(* Proofs about Registry.tla, for every set of names, paths and commands.  *)
(* That projects.json parses is not inductive: it needs to know what       *)
(* projects.json.tmp holds at each step of a save, and that without an     *)
(* overlap only one command is in one. That a save takes effect as a whole *)
(* is the refinement of RegistryTable.tla; it needs to know besides what a *)
(* command's copy has to do with the file.                                 *)
(***************************************************************************)
EXTENDS Registry, TLAPS

\* The two names never denote the same file.
NamesApart == file = tmp => file = NoInode

\* Only a command in the middle of fs::write has a file open.
OpenToWrite == \A c \in Cli : IF pc[c] = "write" THEN fd[c] \in Inode
                              ELSE fd[c] = NoInode

\* Only register and prune ask.
Askers == \A c \in Cli : pc[c] = "prompt" => cmd[c].op \in {"register", "prune"}

OneSaves == \A c, d \in Cli : Saving(c) /\ Saving(d) => c = d

\* What the one save under way has made of projects.json.tmp.
TmpOfSave ==
    \A c \in Cli :
        /\ pc[c] = "write" => fd[c] = tmp /\ content[tmp] = Blank
        /\ pc[c] = "rename" => tmp # NoInode /\ content[tmp] \in Registries

InTurn == OneSaves /\ TmpOfSave /\ Parses

IInv ==
    /\ TypeOK
    /\ NamesApart
    /\ OpenToWrite
    /\ Askers
    /\ overlap \/ InTurn

-----------------------------------------------------------------------------
(* A function on a set of names is a registry. *)
LEMMA IsRegistry ==
    ASSUME NEW S \in SUBSET Name, NEW f \in [S -> Path]
    PROVE  f \in Registries
BY DEF Registries

(* The empty registry, add and upsert, remove, and take_ghosts give registries. *)
LEMMA RegistryOps ==
    /\ NoProjects \in Registries
    /\ \A reg \in Registries :
        /\ \A n \in Name, p \in Path : With(reg, n, p) \in Registries
        /\ \A n \in Name : Without(reg, n) \in Registries
        /\ TakeGhosts(reg) \in Registries
<1>1. NoProjects \in [{} -> Path]
  BY DEF NoProjects
<1>2. ASSUME NEW reg \in Registries
      PROVE /\ \A n \in Name, p \in Path : With(reg, n, p) \in Registries
            /\ \A n \in Name : Without(reg, n) \in Registries
            /\ TakeGhosts(reg) \in Registries
  <2>1. PICK S \in SUBSET Name : reg \in [S -> Path]
    BY <1>2 DEF Registries
  <2>2. ASSUME NEW n \in Name, NEW p \in Path
        PROVE With(reg, n, p) \in Registries
    <3>1. With(reg, n, p) \in [S \union {n} -> Path]
      BY <2>1, <2>2 DEF With
    <3> QED BY <3>1, <2>1, <2>2, IsRegistry
  <2>3. ASSUME NEW n \in Name
        PROVE Without(reg, n) \in Registries
    <3>1. Without(reg, n) \in [S \ {n} -> Path]
      BY <2>1 DEF Without
    <3> QED BY <3>1, <2>1, IsRegistry
  <2>4. TakeGhosts(reg) \in Registries
    <3>1. TakeGhosts(reg) \in [{k \in S : reg[k] \in dirs} -> Path]
      BY <2>1 DEF TakeGhosts
    <3> QED BY <3>1, <2>1, IsRegistry
  <2> QED BY <2>2, <2>3, <2>4
<1> QED BY <1>1, <1>2, IsRegistry

(* The registry a command loads is one. *)
LEMMA LoadedIsRegistry == ASSUME TypeOK, Parses PROVE Loaded \in Registries
BY RegistryOps DEF Loaded, Parses, TypeOK

(* Whatever a write leaves in a file is a content. *)
LEMMA LandsType ==
    ASSUME NEW old \in Registries \union {Blank, Torn}, NEW new \in Registries
    PROVE  /\ LandsAs(old, new) \subseteq Registries \union {Blank, Torn}
           /\ LandsAs(Blank, new) = {new}
BY DEF LandsAs

-----------------------------------------------------------------------------
(* The commands up to their save *)

LEMMA InitStep == Init => IInv
<1> SUFFICES ASSUME Init PROVE IInv
  OBVIOUS
<1>1. TypeOK
  BY RegistryOps DEF Init, TypeOK, Commands, Nothing
<1> QED BY <1>1 DEF Init, IInv, NamesApart, OpenToWrite, Askers, InTurn, OneSaves,
                    TmpOfSave, Saving, Parses

(* Loading starts a command without touching a file. *)
LEMMA StartsStep ==
    ASSUME IInv, NEW c \in Cli, NEW what \in Commands, NEW reg \in Registries,
           NEW next \in {"prompt", "open"}, Starts(c, what, reg, next),
           next = "prompt" => what.op \in {"register", "prune"}
    PROVE  IInv'
<1>1. TypeOK'
  BY DEF Starts, IInv, TypeOK, files, history
<1>2. Askers'
  BY DEF Starts, IInv, TypeOK, Askers
<1>3. \A d \in Cli : Saving(d)' => Saving(d) /\ pc'[d] = pc[d] /\ fd'[d] = fd[d]
  BY DEF Starts, IInv, TypeOK, Saving
<1>4. NamesApart' /\ OpenToWrite'
  BY DEF Starts, IInv, TypeOK, NamesApart, OpenToWrite, files
<1>5. InTurn => InTurn'
  BY <1>3 DEF Starts, InTurn, OneSaves, TmpOfSave, Saving, Parses, files
<1> QED BY <1>1, <1>2, <1>4, <1>5 DEF IInv, Starts, history

LEMMA CommandStep == ASSUME IInv, NEW c \in Cli, Command(c) PROVE IInv'
<1>1. TypeOK /\ Loaded \in Registries
  BY LoadedIsRegistry DEF Command, IInv
<1>2. ASSUME NEW n \in Name, NEW p \in Path, Register(c, n, p) PROVE IInv'
  <2> DEFINE what == [op |-> "register", name |-> n, path |-> p]
  <2>1. what \in Commands /\ what.op = "register"
    BY DEF Commands
  <2>2. With(Loaded, n, p) \in Registries
    BY <1>1, RegistryOps
  <2>3. Starts(c, what, With(Loaded, n, p), "open") \/ Starts(c, what, Loaded, "prompt")
    BY <1>2 DEF Register
  <2> QED BY <2>1, <2>2, <2>3, <1>1, StartsStep
<1>3. ASSUME NEW n \in Name, Unregister(c, n) PROVE IInv'
  <2> DEFINE what == [op |-> "unregister", name |-> n]
  <2>1. what \in Commands
    BY DEF Commands
  <2>2. Without(Loaded, n) \in Registries
    BY <1>1, RegistryOps
  <2>3. Starts(c, what, Without(Loaded, n), "open")
    BY <1>3 DEF Unregister
  <2> QED BY <2>1, <2>2, <2>3, StartsStep
<1>4. ASSUME Prune(c) PROVE IInv'
  <2> DEFINE what == [op |-> "prune"]
  <2>1. what \in Commands /\ what.op = "prune"
    BY DEF Commands
  <2>2. Starts(c, what, Loaded, "prompt")
    BY <1>4 DEF Prune
  <2> QED BY <2>1, <2>2, <1>1, StartsStep
<1> QED BY <1>2, <1>3, <1>4 DEF Command

LEMMA ConfirmStep == ASSUME IInv, NEW c \in Cli, Confirm(c) PROVE IInv'
<1>1. mem[c] \in Registries /\ cmd[c] \in Commands /\ cmd[c].op \in {"register", "prune"}
  BY DEF IInv, TypeOK, Askers, Confirm
<1>2. cmd[c].op = "register" => cmd[c].name \in Name /\ cmd[c].path \in Path
  BY <1>1 DEF Commands
<1>3. mem' \in [Cli -> Registries]
  BY <1>1, <1>2, RegistryOps DEF IInv, TypeOK, Confirm
<1>4. TypeOK'
  BY <1>3 DEF Confirm, IInv, TypeOK, files, history
<1>5. \A d \in Cli : Saving(d)' => Saving(d) /\ pc'[d] = pc[d] /\ fd'[d] = fd[d]
  BY DEF Confirm, IInv, TypeOK, Saving
<1>6. NamesApart' /\ OpenToWrite' /\ Askers'
  BY DEF Confirm, IInv, TypeOK, NamesApart, OpenToWrite, Askers, files
<1>7. InTurn => InTurn'
  BY <1>5 DEF Confirm, InTurn, OneSaves, TmpOfSave, Saving, Parses, files
<1> QED BY <1>4, <1>6, <1>7 DEF IInv, Confirm, history

(* A command that ends without having touched a file disturbs nobody. *)
LEMMA EndsStep ==
    ASSUME IInv, NEW c \in Cli, Leaves(c),
           broken' \in BOOLEAN, UNCHANGED <<files, dirs, overlap>>
    PROVE  IInv'
<1>1. TypeOK'
  BY RegistryOps DEF Leaves, Ends, IInv, TypeOK, files, Commands, Nothing
<1>2. \A d \in Cli : Saving(d)' => Saving(d) /\ pc'[d] = pc[d] /\ fd'[d] = fd[d]
  BY DEF Leaves, Ends, IInv, TypeOK, Saving
<1>3. NamesApart' /\ OpenToWrite' /\ Askers'
  BY DEF Leaves, Ends, IInv, TypeOK, NamesApart, OpenToWrite, Askers, files
<1>4. InTurn => InTurn'
  BY <1>2 DEF InTurn, OneSaves, TmpOfSave, Saving, Parses, files
<1> QED BY <1>1, <1>3, <1>4 DEF IInv

-----------------------------------------------------------------------------
(* save_to *)

LEMMA OpenTmpStep == ASSUME IInv, NEW c \in Cli, OpenTmp(c) PROVE IInv'
<1>1. PICK i \in Inode :
        /\ IF tmp = NoInode THEN Free(i) ELSE i = tmp
        /\ tmp' = i
        /\ content' = [content EXCEPT ![i] = Blank]
        /\ fd' = [fd EXCEPT ![c] = i]
  BY DEF OpenTmp
<1>2. i # file
  BY <1>1, RegistryAssumption DEF Free, IInv, NamesApart
<1>3. TypeOK'
  BY <1>1 DEF OpenTmp, IInv, TypeOK
<1>4. NamesApart' /\ OpenToWrite' /\ Askers'
  BY <1>1, <1>2 DEF OpenTmp, IInv, TypeOK, NamesApart, OpenToWrite, Askers
<1>5. ASSUME InTurn, ~overlap' PROVE InTurn'
  <2>1. \A d \in Cli : ~Saving(d)
    BY <1>5 DEF OpenTmp
  <2>2. \A d \in Cli : pc'[d] = IF d = c THEN "write" ELSE pc[d]
    BY DEF OpenTmp, IInv, TypeOK
  <2>3. OneSaves'
    BY <2>1, <2>2 DEF OneSaves, Saving
  <2>4. TmpOfSave'
    BY <1>1, <2>1, <2>2 DEF TmpOfSave, Saving, IInv, TypeOK
  <2>5. Parses'
    BY <1>1, <1>2, <1>5 DEF OpenTmp, InTurn, Parses, IInv, TypeOK
  <2> QED BY <2>3, <2>4, <2>5 DEF InTurn
<1>6. overlap => overlap'
  BY DEF OpenTmp
<1> QED BY <1>3, <1>4, <1>5, <1>6 DEF IInv

LEMMA WriteTmpStep == ASSUME IInv, NEW c \in Cli, WriteTmp(c) PROVE IInv'
<1>1. fd[c] \in Inode
  BY DEF WriteTmp, IInv, OpenToWrite
<1>2. PICK text \in LandsAs(content[fd[c]], mem[c]) :
        content' = [content EXCEPT ![fd[c]] = text]
  BY DEF WriteTmp
<1>3. /\ mem[c] \in Registries
      /\ content[fd[c]] \in Registries \union {Blank, Torn}
  BY <1>1 DEF IInv, TypeOK
<1>4. text \in Registries \union {Blank, Torn}
  BY <1>3, LandsType
<1>5. TypeOK'
  BY <1>2, <1>4 DEF WriteTmp, IInv, TypeOK, history
<1>6. NamesApart' /\ OpenToWrite' /\ Askers'
  BY DEF WriteTmp, IInv, TypeOK, NamesApart, OpenToWrite, Askers
<1>7. ASSUME InTurn PROVE InTurn'
  <2>1. fd[c] = tmp /\ content[tmp] = Blank /\ Saving(c)
    BY <1>7 DEF WriteTmp, InTurn, TmpOfSave, Saving
  <2>2. text \in Registries
    BY <1>2, <1>3, <2>1, LandsType
  <2>3. \A d \in Cli : pc'[d] = IF d = c THEN "rename" ELSE pc[d]
    BY DEF WriteTmp, IInv, TypeOK
  <2>4. OneSaves'
    BY <1>7, <2>1, <2>3 DEF InTurn, OneSaves, Saving
  <2>5. tmp \in Inode /\ tmp # NoInode /\ content'[tmp] = text
    BY <1>1, <1>2, <2>1, RegistryAssumption DEF IInv, TypeOK
  <2>6. TmpOfSave'
    BY <1>7, <2>1, <2>2, <2>3, <2>5 DEF WriteTmp, InTurn, OneSaves, TmpOfSave, Saving
  <2>7. file # tmp
    BY <2>5 DEF IInv, NamesApart
  <2>8. Parses'
    BY <1>2, <1>7, <2>1, <2>7 DEF WriteTmp, InTurn, Parses, IInv, TypeOK
  <2> QED BY <2>4, <2>6, <2>8 DEF InTurn
<1> QED BY <1>5, <1>6, <1>7 DEF IInv, WriteTmp, history

LEMMA WriteFailsStep == ASSUME IInv, NEW c \in Cli, WriteFails(c) PROVE IInv'
<1>1. TypeOK'
  BY RegistryOps DEF WriteFails, Leaves, Ends, IInv, TypeOK, Commands, Nothing
<1>2. NamesApart' /\ OpenToWrite' /\ Askers'
  BY DEF WriteFails, Leaves, Ends, IInv, TypeOK, NamesApart, OpenToWrite, Askers
<1>3. ASSUME InTurn PROVE InTurn'
  <2>1. fd[c] = tmp /\ Saving(c) /\ fd[c] \in Inode
    BY <1>3 DEF WriteFails, InTurn, TmpOfSave, Saving, IInv, OpenToWrite
  <2>2. \A d \in Cli : pc'[d] = IF d = c THEN "idle" ELSE pc[d]
    BY DEF WriteFails, Leaves, Ends, IInv, TypeOK
  <2>3. \A d \in Cli : ~Saving(d)'
    BY <1>3, <2>1, <2>2 DEF InTurn, OneSaves, Saving
  <2>4. file # tmp
    BY <2>1, RegistryAssumption DEF IInv, NamesApart
  <2>5. Parses'
    BY <1>3, <2>1, <2>4 DEF WriteFails, InTurn, Parses, IInv, TypeOK
  <2> QED BY <2>3, <2>5 DEF InTurn, OneSaves, TmpOfSave, Saving
<1> QED BY <1>1, <1>2, <1>3 DEF IInv, WriteFails

LEMMA RenameStep == ASSUME IInv, NEW c \in Cli, Rename(c) PROVE IInv'
<1>1. /\ content' \in [Inode -> Registries \union {Blank, Torn}]
      /\ \A i \in Inode : i # file => content'[i] = content[i]
  BY DEF Rename, Discard, IInv, TypeOK
<1>2. TypeOK'
  BY <1>1, RegistryOps DEF Rename, Replaces, Ends, IInv, TypeOK, Commands, Nothing, history
<1>3. NamesApart' /\ OpenToWrite' /\ Askers'
  BY DEF Rename, Replaces, Ends, IInv, TypeOK, NamesApart, OpenToWrite, Askers
<1>4. ASSUME InTurn PROVE InTurn'
  <2>1. Saving(c) /\ tmp \in Inode /\ tmp # file /\ content[tmp] \in Registries
    BY <1>4 DEF Rename, InTurn, TmpOfSave, Saving, IInv, TypeOK, NamesApart
  <2>2. \A d \in Cli : pc'[d] = IF d = c THEN "idle" ELSE pc[d]
    BY DEF Rename, Replaces, Ends, IInv, TypeOK
  <2>3. \A d \in Cli : ~Saving(d)'
    BY <1>4, <2>1, <2>2 DEF InTurn, OneSaves, Saving
  <2>4. Parses'
    BY <1>1, <2>1 DEF Rename, Parses
  <2> QED BY <2>3, <2>4 DEF InTurn, OneSaves, TmpOfSave, Saving
<1> QED BY <1>2, <1>3, <1>4 DEF IInv, Rename, history

(* Directories come and go without the registry. *)
LEMMA DirStep ==
    ASSUME IInv, NEW p \in Path, MakeDir(p) \/ RemoveDir(p) PROVE IInv'
<1>1. UNCHANGED <<file, tmp, content, pc, cmd, mem, fd, overlap, broken>>
  BY DEF MakeDir, RemoveDir, files, history
<1>2. TypeOK'
  BY <1>1 DEF MakeDir, RemoveDir, IInv, TypeOK
<1> QED BY <1>1, <1>2 DEF IInv, NamesApart, OpenToWrite, Askers, InTurn, OneSaves,
                          TmpOfSave, Saving, Parses

-----------------------------------------------------------------------------
(***************************************************************************)
(* The inductive invariant of the registry's files.                        *)
(***************************************************************************)
THEOREM RegistryInvariance == Spec => []IInv
<1>1. Init => IInv
  BY InitStep
<1>2. IInv /\ [Next]_vars => IInv'
  <2> SUFFICES ASSUME IInv, [Next]_vars PROVE IInv'
    OBVIOUS
  <2>1. CASE UNCHANGED vars
    BY <2>1 DEF vars, files, history, IInv, TypeOK, NamesApart, OpenToWrite, Askers,
                InTurn, OneSaves, TmpOfSave, Saving, Parses
  <2>2. ASSUME NEW c \in Cli, Command(c) PROVE IInv'
    BY <2>2, CommandStep
  <2>3. ASSUME NEW c \in Cli, Confirm(c) PROVE IInv'
    BY <2>3, ConfirmStep
  <2>4. ASSUME NEW c \in Cli, Decline(c) \/ Crash(c) \/ RenameFails(c) PROVE IInv'
    <3>1. /\ Leaves(c)
          /\ broken' \in BOOLEAN
          /\ UNCHANGED <<files, dirs, overlap>>
      BY <2>4 DEF Decline, Crash, RenameFails, history, IInv, TypeOK
    <3> QED BY <3>1, EndsStep
  <2>5. ASSUME NEW c \in Cli, OpenTmp(c) PROVE IInv'
    BY <2>5, OpenTmpStep
  <2>6. ASSUME NEW c \in Cli, WriteTmp(c) PROVE IInv'
    BY <2>6, WriteTmpStep
  <2>7. ASSUME NEW c \in Cli, WriteFails(c) PROVE IInv'
    BY <2>7, WriteFailsStep
  <2>8. ASSUME NEW c \in Cli, Rename(c) PROVE IInv'
    BY <2>8, RenameStep
  <2>9. ASSUME NEW p \in Path, MakeDir(p) \/ RemoveDir(p) PROVE IInv'
    BY <2>9, DirStep
  <2> QED BY <2>1, <2>2, <2>3, <2>4, <2>5, <2>6, <2>7, <2>8, <2>9 DEF Next, Save
<1> QED BY <1>1, <1>2, PTL DEF Spec

(***************************************************************************)
(* projects.json parses at every moment unless two saves overlapped: for   *)
(* any number of commands, prompts, deaths and failed writes.              *)
(***************************************************************************)
THEOREM RegistryParses == Spec => []ParsesUnlessOverlap
<1>1. IInv => ParsesUnlessOverlap
  BY DEF IInv, InTurn, ParsesUnlessOverlap
<1> QED BY <1>1, RegistryInvariance, PTL

\* Unless a command died, projects.json.tmp belongs to a save under way.
TmpOwned == ~broken /\ tmp # NoInode => \E c \in Cli : Saving(c)

(* No step leaves projects.json.tmp without a save. *)
LEMMA TmpOwnedStep == ASSUME IInv, TmpOwned, [Next]_vars PROVE TmpOwned'
<1>1. CASE UNCHANGED vars
  BY <1>1 DEF vars, files, history, TmpOwned, Saving
<1>2. ASSUME NEW c \in Cli, Command(c) \/ Confirm(c) \/ Decline(c) PROVE TmpOwned'
  <2>1. \A d \in Cli : Saving(d) => Saving(d)'
    BY <1>2 DEF Command, Register, Unregister, Prune, Starts, Confirm, Decline,
                Leaves, Ends,
                Saving, IInv, TypeOK
  <2>2. UNCHANGED <<files, history>>
    BY <1>2 DEF Command, Register, Unregister, Prune, Starts, Confirm, Decline
  <2> QED BY <2>1, <2>2 DEF TmpOwned, files, history
<1>3. ASSUME NEW c \in Cli, OpenTmp(c) \/ WriteTmp(c) PROVE TmpOwned'
  <2>1. Saving(c)'
    BY <1>3 DEF OpenTmp, WriteTmp, Saving, IInv, TypeOK
  <2> QED BY <2>1 DEF TmpOwned
<1>4. ASSUME NEW c \in Cli, Crash(c) \/ WriteFails(c) PROVE TmpOwned'
  BY <1>4 DEF Crash, WriteFails, TmpOwned
<1>5. ASSUME NEW c \in Cli, Rename(c) \/ RenameFails(c) PROVE TmpOwned'
  BY <1>5 DEF Rename, RenameFails, files, TmpOwned
<1>6. ASSUME NEW p \in Path, MakeDir(p) \/ RemoveDir(p) PROVE TmpOwned'
  BY <1>6 DEF MakeDir, RemoveDir, files, history, TmpOwned, Saving
<1> QED BY <1>1, <1>2, <1>3, <1>4, <1>5, <1>6 DEF Next, Save

(***************************************************************************)
(* When every command has ended and none died or failed to write, no       *)
(* projects.json.tmp is left, however the saves overlapped.                *)
(***************************************************************************)
THEOREM NoTmpLeft == Spec => []LeavesNoTmp
<1>1. Init => TmpOwned
  BY DEF Init, TmpOwned
<1>2. IInv /\ TmpOwned /\ [Next]_vars => TmpOwned'
  BY TmpOwnedStep
<1>3. TmpOwned => LeavesNoTmp
  BY DEF TmpOwned, LeavesNoTmp, Saving
<1> QED BY <1>1, <1>2, <1>3, RegistryInvariance, PTL DEF Spec

-----------------------------------------------------------------------------
(* What a command's copy has to do with the file *)

\* The table without the entries of some paths.
Dropped(reg, M) == [m \in {k \in DOMAIN reg : reg[k] \notin M} |-> reg[m]]

\* A copy is the registry, changed the way the command changes it.
Changed(c) ==
    \/ /\ cmd[c].op = "register"
       /\ mem[c] = With(Loaded, cmd[c].name, cmd[c].path)
    \/ /\ cmd[c].op = "unregister" /\ cmd[c].name \in DOMAIN Loaded
       /\ mem[c] = Without(Loaded, cmd[c].name)
    \/ /\ cmd[c].op = "prune"
       /\ \E M \in SUBSET missing[c] : mem[c] = Dropped(Loaded, M)

\* The copy of a command that is not behind, and what a save has written.
Fresh(c) ==
    ~overlap =>
      /\ pc[c] = "rename" => content[tmp] = mem[c]
      /\ pc[c] = "prompt" /\ c \notin behind => mem[c] = Loaded
      /\ pc[c] \in {"open", "write", "rename"} /\ c \notin behind => Changed(c)

\* A prune has seen, or could have, whatever is missing now.
MissingSeen ==
    \A c \in Cli : cmd[c].op = "prune" => Path \ dirs \subseteq missing[c]

Copies == MissingSeen /\ \A c \in Cli : Fresh(c)

LEMMA InitCopies == Init => Copies
  BY DEF Init, Copies, MissingSeen, Fresh, Nothing

LEMMA StepMissingSeen ==
    ASSUME IInv, MissingSeen, [Next]_vars
    PROVE  MissingSeen'
<1>1. cmd \in [Cli -> Commands] /\ missing \in [Cli -> SUBSET Path]
  BY DEF IInv, TypeOK
<1>2. CASE UNCHANGED <<cmd, missing, dirs>>
  BY <1>2 DEF MissingSeen
<1>3. ASSUME NEW c \in Cli, Command(c)
      PROVE  MissingSeen'
  <2>1. PICK what, reg, next : Starts(c, what, reg, next)
    BY <1>3 DEF Command, Register, Unregister, Prune
  <2> QED  BY <1>1, <2>1 DEF Starts, MissingSeen
<1>4. ASSUME NEW c \in Cli, Ends(c), UNCHANGED dirs
      PROVE  MissingSeen'
  BY <1>1, <1>4 DEF Ends, Nothing, MissingSeen
<1>5. ASSUME NEW p \in Path, MakeDir(p)
      PROVE  MissingSeen'
  BY <1>5 DEF MakeDir, MissingSeen
<1>6. ASSUME NEW p \in Path, RemoveDir(p)
      PROVE  MissingSeen'
  BY <1>1, <1>6 DEF RemoveDir, MissingSeen
<1>7. ASSUME NEW c \in Cli, Confirm(c) \/ OpenTmp(c) \/ WriteTmp(c)
      PROVE  MissingSeen'
  BY <1>2, <1>7 DEF Confirm, OpenTmp, WriteTmp
<1>8. ASSUME NEW c \in Cli, Decline(c) \/ Crash(c) \/ WriteFails(c) \/ Rename(c) \/ RenameFails(c)
      PROVE  MissingSeen'
  BY <1>4, <1>8 DEF Decline, Crash, WriteFails, Rename, RenameFails, Leaves, Replaces
<1>9. CASE UNCHANGED vars
  BY <1>2, <1>9 DEF vars
<1> QED  BY <1>3, <1>5, <1>6, <1>7, <1>8, <1>9 DEF Next, Save

-----------------------------------------------------------------------------
(* The registry changes by a rename only *)

LEMMA LoadedKept ==
    ASSUME IInv, [Next]_vars, ~overlap', ~ \E c \in Cli : Rename(c)
    PROVE  ~overlap /\ Loaded' = Loaded
<1>1. /\ content \in [Inode -> Registries \union {Blank, Torn}]
      /\ file \in Inode \union {NoInode}
  BY DEF IInv, TypeOK
<1>2. CASE UNCHANGED <<file, content, overlap>>
  BY <1>2 DEF Loaded
<1>3. ASSUME NEW c \in Cli, OpenTmp(c)
      PROVE  ~overlap /\ Loaded' = Loaded
  <2>1. PICK i \in Inode : /\ IF tmp = NoInode THEN Free(i) ELSE i = tmp
                           /\ content' = [content EXCEPT ![i] = Blank]
    BY <1>3 DEF OpenTmp
  <2>2. i # file /\ file' = file /\ ~overlap
    BY <1>3, <2>1, RegistryAssumption DEF OpenTmp, Free, IInv, NamesApart
  <2> QED  BY <1>1, <2>1, <2>2 DEF Loaded
<1>4. ASSUME NEW c \in Cli, WriteTmp(c) \/ WriteFails(c)
      PROVE  ~overlap /\ Loaded' = Loaded
  <2>1. ~overlap /\ file' = file /\ pc[c] = "write"
    BY <1>4 DEF WriteTmp, WriteFails, history
  <2>2. fd[c] = tmp /\ tmp \in Inode
    BY <2>1 DEF IInv, InTurn, TmpOfSave, OpenToWrite
  <2>3. fd[c] # file
    BY <2>2, RegistryAssumption DEF IInv, NamesApart
  <2>4. \A i \in Inode : i # fd[c] => content'[i] = content[i]
    BY <1>1, <1>4 DEF WriteTmp, WriteFails
  <2> QED  BY <1>1, <2>1, <2>3, <2>4 DEF Loaded
<1>5. ASSUME NEW c \in Cli, Command(c) \/ Confirm(c) \/ Decline(c) \/ Crash(c) \/ RenameFails(c)
      PROVE  UNCHANGED <<file, content, overlap>>
  BY <1>5 DEF Command, Register, Unregister, Prune, Starts, Confirm, Decline, Crash,
              RenameFails, files, history
<1>6. ASSUME NEW p \in Path, MakeDir(p) \/ RemoveDir(p)
      PROVE  UNCHANGED <<file, content, overlap>>
  BY <1>6 DEF MakeDir, RemoveDir, files, history
<1>7. CASE UNCHANGED vars
  BY <1>2, <1>7 DEF vars, files, history
<1> QED  BY <1>2, <1>3, <1>4, <1>5, <1>6, <1>7 DEF Next, Save

-----------------------------------------------------------------------------
(* The copies stay what they are *)

\* A command that a step is not about.
LEMMA OthersFresh ==
    ASSUME NEW d \in Cli, Fresh(d), ~overlap, Loaded' = Loaded,
           UNCHANGED <<pc[d], cmd[d], mem[d], missing[d]>>,
           d \notin behind' => d \notin behind,
           pc[d] = "rename" => content'[tmp'] = content[tmp]
    PROVE  Fresh(d)'
  BY DEF Fresh, Changed

\* A command starts, and asks or goes on.
LEMMA CommandFresh ==
    ASSUME IInv, Copies, NEW c \in Cli, Command(c), ~overlap, Loaded' = Loaded
    PROVE  \A d \in Cli : Fresh(d)'
<1>1. /\ pc \in [Cli -> {"idle", "prompt", "open", "write", "rename"}]
      /\ cmd \in [Cli -> Commands] /\ mem \in [Cli -> Registries]
      /\ missing \in [Cli -> SUBSET Path]
  BY DEF IInv, TypeOK
<1>2. ASSUME NEW d \in Cli, d # c
      PROVE  Fresh(d)'
  <2>1. UNCHANGED <<pc[d], cmd[d], mem[d], missing[d], behind, content, tmp>>
    BY <1>1, <1>2 DEF Command, Register, Unregister, Prune, Starts, files
  <2> QED  BY <2>1, OthersFresh DEF Copies
<1>3. ASSUME NEW n \in Name, NEW p \in Path, Register(c, n, p)
      PROVE  Fresh(c)'
  BY <1>1, <1>3 DEF Register, Starts, Fresh, Changed
<1>4. ASSUME NEW n \in Name, Unregister(c, n)
      PROVE  Fresh(c)'
  BY <1>1, <1>4 DEF Unregister, Starts, Fresh, Changed
<1>5. ASSUME Prune(c)
      PROVE  Fresh(c)'
  BY <1>1, <1>5 DEF Prune, Starts, Fresh
<1> QED  BY <1>2, <1>3, <1>4, <1>5 DEF Command

LEMMA ConfirmFresh ==
    ASSUME IInv, Copies, NEW c \in Cli, Confirm(c), ~overlap, Loaded' = Loaded
    PROVE  \A d \in Cli : Fresh(d)'
<1>1. /\ pc \in [Cli -> {"idle", "prompt", "open", "write", "rename"}]
      /\ mem \in [Cli -> Registries]
      /\ pc[c] = "prompt" /\ cmd[c].op \in {"register", "prune"}
      /\ pc' = [pc EXCEPT ![c] = "open"] /\ UNCHANGED <<cmd, missing, behind, content, tmp>>
  BY DEF IInv, TypeOK, Askers, Confirm, files
<1>2. ASSUME NEW d \in Cli, d # c
      PROVE  Fresh(d)'
  <2>1. UNCHANGED <<pc[d], cmd[d], mem[d], missing[d], behind, content, tmp>>
    BY <1>1, <1>2 DEF Confirm
  <2> QED  BY <2>1, OthersFresh DEF Copies
<1>3. ASSUME c \notin behind
      PROVE  Changed(c)'
  <2>1. mem[c] = Loaded
    BY <1>1, <1>3 DEF Copies, Fresh
  <2>2. CASE cmd[c].op = "register"
    <3>1. mem'[c] = With(mem[c], cmd[c].name, cmd[c].path)
      BY <1>1, <2>2 DEF Confirm
    <3> QED  BY <1>1, <2>1, <2>2, <3>1 DEF Changed
  <2>3. CASE cmd[c].op = "prune"
    <3>1. mem'[c] = TakeGhosts(mem[c])
      BY <1>1, <2>3 DEF Confirm
    <3>2. \A n \in DOMAIN mem[c] : mem[c][n] \in Path
      BY <1>1 DEF Registries
    <3>3. TakeGhosts(mem[c]) = Dropped(mem[c], Path \ dirs)
      BY <3>2 DEF TakeGhosts, Dropped
    <3>4. Path \ dirs \in SUBSET missing[c]
      BY <2>3 DEF Copies, MissingSeen
    <3> QED  BY <1>1, <2>1, <2>3, <3>1, <3>3, <3>4 DEF Changed
  <2> QED  BY <1>1, <2>2, <2>3
<1> QED  BY <1>1, <1>2, <1>3 DEF Fresh

\* A command that ends takes nothing with it.
LEMMA LeavesFresh ==
    ASSUME IInv, Copies, NEW c \in Cli, ~overlap, Loaded' = Loaded,
           Decline(c) \/ Crash(c) \/ WriteFails(c) \/ RenameFails(c)
    PROVE  \A d \in Cli : Fresh(d)'
<1>1. /\ pc \in [Cli -> {"idle", "prompt", "open", "write", "rename"}]
      /\ cmd \in [Cli -> Commands] /\ mem \in [Cli -> Registries]
      /\ missing \in [Cli -> SUBSET Path]
      /\ Leaves(c) /\ tmp' = tmp
  BY DEF IInv, TypeOK, Decline, Crash, WriteFails, RenameFails, files
<1>2. ASSUME NEW d \in Cli, d # c
      PROVE  Fresh(d)'
  <2>1. /\ UNCHANGED <<pc[d], cmd[d], mem[d], missing[d]>>
        /\ d \notin behind' => d \notin behind
    BY <1>1, <1>2 DEF Leaves, Ends
  <2>2. pc[d] = "rename" => content' = content
    <3>1. CASE WriteFails(c)
      <4>1. pc[d] # "rename"
        BY <1>2, <3>1 DEF WriteFails, Saving, IInv, InTurn, OneSaves
      <4> QED  BY <4>1
    <3>2. CASE Decline(c) \/ Crash(c) \/ RenameFails(c)
      BY <3>2 DEF Decline, Crash, RenameFails, files
    <3> QED  BY <3>1, <3>2
  <2> QED  BY <1>1, <2>1, <2>2, OthersFresh DEF Copies
<1>3. Fresh(c)'
  BY <1>1 DEF Leaves, Ends, Fresh
<1> QED  BY <1>2, <1>3

LEMMA WritingFresh ==
    ASSUME IInv, Copies, NEW c \in Cli, ~overlap, ~overlap', Loaded' = Loaded,
           OpenTmp(c) \/ WriteTmp(c)
    PROVE  \A d \in Cli : Fresh(d)'
<1>1. /\ pc \in [Cli -> {"idle", "prompt", "open", "write", "rename"}]
      /\ content \in [Inode -> Registries \union {Blank, Torn}]
      /\ UNCHANGED <<cmd, mem, missing, behind>>
  BY DEF IInv, TypeOK, OpenTmp, WriteTmp
<1>2. ASSUME NEW d \in Cli, d # c
      PROVE  Fresh(d)'
  <2>1. pc'[d] = pc[d]
    BY <1>1, <1>2 DEF OpenTmp, WriteTmp
  <2>2. pc[d] # "rename"
    <3>1. CASE OpenTmp(c)
      BY <3>1 DEF OpenTmp, Saving
    <3>2. CASE WriteTmp(c)
      BY <1>2, <3>2 DEF WriteTmp, Saving, IInv, InTurn, OneSaves
    <3> QED  BY <3>1, <3>2
  <2> QED  BY <1>1, <2>1, <2>2, OthersFresh DEF Copies
<1>3. CASE OpenTmp(c)
  <2>1. pc[c] = "open" /\ pc'[c] = "write"
    BY <1>1, <1>3 DEF OpenTmp
  <2> QED  BY <1>1, <1>2, <2>1 DEF Copies, Fresh, Changed
<1>4. CASE WriteTmp(c)
  <2>1. pc[c] = "write" /\ pc'[c] = "rename" /\ tmp' = tmp
    BY <1>1, <1>4 DEF WriteTmp
  <2>2. fd[c] = tmp /\ content[tmp] = Blank /\ tmp \in Inode
    BY <2>1 DEF IInv, InTurn, TmpOfSave, OpenToWrite
  <2>3. content'[tmp] = mem[c]
    BY <1>1, <1>4, <2>2 DEF WriteTmp, LandsAs
  <2> QED  BY <1>1, <1>2, <2>1, <2>3 DEF Copies, Fresh, Changed
<1> QED  BY <1>3, <1>4

\* After a rename every other copy is behind.
LEMMA RenameFresh ==
    ASSUME IInv, Copies, NEW c \in Cli, ~overlap, Rename(c)
    PROVE  \A d \in Cli : Fresh(d)'
<1>1. /\ pc \in [Cli -> {"idle", "prompt", "open", "write", "rename"}]
      /\ pc[c] = "rename" /\ pc' = [pc EXCEPT ![c] = "idle"]
      /\ behind' = {d \in Cli : pc[d] # "idle"} \ {c}
  BY DEF IInv, TypeOK, Rename, Replaces, Ends
<1>2. \A d \in Cli : d # c => pc[d] # "rename"
  BY <1>1 DEF Saving, IInv, InTurn, OneSaves
<1> QED  BY <1>1, <1>2 DEF Fresh

LEMMA StepCopies ==
    ASSUME IInv, Copies, [Next]_vars
    PROVE  Copies'
<1>1. MissingSeen'
  BY StepMissingSeen DEF Copies
<1>2. CASE overlap'
  BY <1>1, <1>2 DEF Copies, Fresh
<1>3. CASE ~overlap' /\ \E c \in Cli : Rename(c)
  <2>1. ~overlap
    BY <1>3 DEF Rename, history
  <2> QED  BY <1>1, <1>3, <2>1, RenameFresh DEF Copies
<1>4. CASE ~overlap' /\ ~ \E c \in Cli : Rename(c)
  <2>1. ~overlap /\ Loaded' = Loaded
    BY <1>4, LoadedKept
  <2>2. ASSUME NEW p \in Path, MakeDir(p) \/ RemoveDir(p), NEW d \in Cli
        PROVE  Fresh(d)'
    <3>1. /\ UNCHANGED <<pc, cmd, mem, behind, content, tmp>>
          /\ missing[d] \subseteq missing'[d]
      BY <2>2 DEF MakeDir, RemoveDir, files, IInv, TypeOK
    <3> QED  BY <2>1, <3>1 DEF Copies, Fresh, Changed
  <2>3. ASSUME UNCHANGED vars, NEW d \in Cli
        PROVE  Fresh(d)'
    BY <2>1, <2>3, OthersFresh DEF vars, files, Copies
  <2>4. \A d \in Cli : Fresh(d)'
    BY <1>4, <2>1, <2>2, <2>3, CommandFresh, ConfirmFresh, LeavesFresh, WritingFresh
       DEF Next, Save
  <2> QED  BY <1>1, <2>4 DEF Copies
<1> QED  BY <1>2, <1>3, <1>4

LEMMA CopiesHold == Spec => []Copies
<1>1. Init => Copies
  BY InitCopies
<1>2. IInv /\ Copies /\ [Next]_vars => Copies'
  BY StepCopies
<1> QED  BY <1>1, <1>2, RegistryInvariance, PTL DEF Spec

-----------------------------------------------------------------------------
(* The theorems *)

\* What a rename makes of the registry, when nothing was overtaken.
LEMMA RenameLoads ==
    ASSUME IInv, Copies, NEW c \in Cli, ~overlap, c \notin behind, Rename(c)
    PROVE  Loaded' = mem[c] /\ Changed(c) /\ cmd[c] \in Commands
<1>1. /\ pc[c] = "rename" /\ tmp \in Inode /\ file' = tmp /\ cmd[c] \in Commands
      /\ content \in [Inode -> Registries \union {Blank, Torn}]
  BY DEF Rename, IInv, TypeOK
<1>2. content[tmp] = mem[c] /\ Changed(c)
  BY <1>1 DEF Copies, Fresh
<1>3. content'[tmp] = content[tmp]
  BY <1>1 DEF Rename, Discard, IInv, NamesApart
<1> QED  BY <1>1, <1>2, <1>3, RegistryAssumption DEF Loaded

LEMMA RenameIsATableStep ==
    ASSUME IInv, Copies, NEW c \in Cli, ~overlap, c \notin behind, Rename(c), ~lost
    PROVE  Table!Next
<1>1. /\ Loaded' = mem[c] /\ Changed(c) /\ cmd[c] \in Commands
      /\ ~overlap' /\ ~lost'
  BY RenameLoads DEF Rename, Replaces, history
<1>2. CASE cmd[c].op = "register" /\ mem[c] = With(Loaded, cmd[c].name, cmd[c].path)
  <2>1. cmd[c].name \in Name /\ cmd[c].path \in Path
    BY <1>1, <1>2 DEF Commands
  <2>2. Table!Register(cmd[c].name, cmd[c].path)
    BY <1>1, <1>2 DEF Table!Register, With
  <2> QED  BY <2>1, <2>2 DEF Table!Next
<1>3. CASE /\ cmd[c].op = "unregister" /\ cmd[c].name \in DOMAIN Loaded
           /\ mem[c] = Without(Loaded, cmd[c].name)
  <2>1. cmd[c].name \in Name
    BY <1>1, <1>3 DEF Commands
  <2>2. Table!Unregister(cmd[c].name)
    BY <1>1, <1>3 DEF Table!Unregister, Without
  <2> QED  BY <2>1, <2>2 DEF Table!Next
<1>4. CASE /\ cmd[c].op = "prune"
           /\ \E M \in SUBSET missing[c] : mem[c] = Dropped(Loaded, M)
  <2>1. PICK M \in SUBSET missing[c] : mem[c] = Dropped(Loaded, M)
    BY <1>4
  <2>2. M \in SUBSET Path
    BY DEF IInv, TypeOK
  <2>3. Table!Prune(M)
    BY <1>1, <2>1 DEF Table!Prune, Dropped
  <2> QED  BY <2>2, <2>3 DEF Table!Next
<1> QED  BY <1>1, <1>2, <1>3, <1>4 DEF Changed

(***************************************************************************)
(* registry.rs: a save takes effect as a whole or not at all, and what it  *)
(* makes of the registry is what the command means, whatever else runs,    *)
(* dies or fails, until two saves overlap or an old copy is saved.         *)
(***************************************************************************)
THEOREM ImplementsTable == Spec => TableSpec
<1> DEFINE shown == IF overlap \/ lost THEN Unknown ELSE Loaded
<1>1. Init => Table!Init
  BY DEF Init, Table!Init, Loaded, NoProjects
<1>2. IInv /\ Copies /\ [Next]_vars => [Table!Next]_shown
  <2> SUFFICES ASSUME IInv, Copies, [Next]_vars
               PROVE  [Table!Next]_shown
    OBVIOUS
  <2>1. (overlap => overlap') /\ (lost => lost')
    <3>1. UNCHANGED lost \/ \E c \in Cli : Rename(c)
      BY DEF Next, Save, Command, Register, Unregister, Prune, Starts, Confirm, Decline, Leaves,
             OpenTmp, WriteTmp, WriteFails, RenameFails, Crash, MakeDir, RemoveDir, vars
    <3>2. UNCHANGED overlap \/ \E c \in Cli : OpenTmp(c)
      BY DEF Next, Save, Command, Register, Unregister, Prune, Starts, Confirm, Decline,
             WriteTmp, WriteFails, Rename, RenameFails, Crash, MakeDir, RemoveDir, vars, history
    <3>3. overlap => overlap'
      BY <3>2 DEF OpenTmp
    <3>4. lost => lost'
      BY <3>1 DEF Rename, Replaces
    <3> QED  BY <3>3, <3>4
  <2>2. CASE overlap' \/ lost'
    BY <2>2 DEF Table!Next, Table!Collide
  <2>3. CASE ~overlap' /\ ~lost' /\ ~ \E c \in Cli : Rename(c)
    BY <2>1, <2>3, LoadedKept
  <2>4. ASSUME NEW c \in Cli, Rename(c), ~overlap', ~lost'
        PROVE  Table!Next
    <3>1. ~overlap /\ ~lost /\ c \notin behind
      BY <2>1, <2>4 DEF Rename, Replaces
    <3> QED  BY <2>4, <3>1, RenameIsATableStep
  <2> QED  BY <2>2, <2>3, <2>4
<1> QED  BY <1>1, <1>2, RegistryInvariance, CopiesHold, PTL DEF Spec, TableSpec, Table!Spec

(***************************************************************************)
(* main.rs: a prune drops an entry only if its directory was missing at    *)
(* some moment while it ran, also across its prompt.                       *)
(***************************************************************************)
THEOREM PruneIsSafe == Spec => PruneDropsGhosts
<1>1. IInv /\ Copies /\ [Next]_vars =>
        [\A c \in Cli :
           cmd[c].op = "prune" /\ Rename(c) /\ Parses /\ Parses' /\ ~overlap /\ c \notin behind =>
             \A n \in DOMAIN Loaded \ DOMAIN Loaded' : Loaded[n] \in missing[c]]_vars
  <2> SUFFICES ASSUME IInv, Copies, NEW c \in Cli, cmd[c].op = "prune", Rename(c), ~overlap,
                      c \notin behind, NEW n \in DOMAIN Loaded \ DOMAIN Loaded'
               PROVE  Loaded[n] \in missing[c]
    OBVIOUS
  <2>1. Loaded' = mem[c] /\ Changed(c)
    BY RenameLoads
  <2>2. PICK M \in SUBSET missing[c] : mem[c] = Dropped(Loaded, M)
    BY <2>1 DEF Changed
  <2> QED  BY <2>1, <2>2 DEF Dropped
<1> QED  BY <1>1, RegistryInvariance, CopiesHold, PTL DEF Spec, PruneDropsGhosts

================================================================================
