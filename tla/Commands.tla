------------------------------ MODULE Commands ------------------------------
(***************************************************************************)
(* The commands a server knows (parse.c 334-560), which modules bring and    *)
(* take away (modules.c, m_module.c) and so do the pseudo blocks of the file *)
(* (conf_pseudo.c).  Commands are kept in a tree of their letters, whose     *)
(* nodes are counted, under the five low bits of each character, and looked *)
(* up by letters only: a pseudo command with a digit in it is put where no   *)
(* lookup for it, and so no removal, will go (parse.c 51-56).                *)
(*                                                                         *)
(* Notices to operators, the handlers, and the counts of STATS are left out.*)
(***************************************************************************)
EXTENDS Naturals, Sequences, FiniteSets, SequencesExt

CONSTANTS
    Modules,
    Core,       \* core_module_table
    Auto,       \* what the autoload directory has
    Resident,   \* MODULE_FLAG_NOUNLOAD
    Provides,   \* Provides[m]: the commands that its modinit adds
    Dir,        \* Dir[m]: the directory of m
    Key,        \* Key[c]: the low bits of the characters of c
    Odd,        \* the commands that are not letters only
    Files,      \* what the file may say: [paths, mods, pseudos], the last two in order
    MaxOps      \* bound: operator commands, rehashes and changes of the disk

VARIABLES
    up,       \* FALSE once the program has ended itself
    file,     \* ircd.conf
    disk,     \* the modules that can be opened
    paths,    \* modules_path
    mods,     \* modules_conf
    loaded,   \* modules_list
    pseudos,  \* pseudo_cmd_list: <<command, the read that made it>>
    tree,     \* msg_tree: node -> [msg, links]
    reads,
    ops,
    clashed   \* history: commands with a second provider, which is not in the tree

comVars == <<up, file, disk, paths, mods, loaded, pseudos, tree, reads, ops, clashed>>

\* What holds a command: <<m>> of a module, <<c, r>> of a pseudo block
NoMsg == << >>
Root == << >>
Nodes(c) == {SubSeq(Key[c], 1, n) : n \in 1..Len(Key[c])}
ChildOf(x, y) == Len(y) = Len(x) + 1 /\ SubSeq(y, 1, Len(x)) = x

-----------------------------------------------------------------------------
(* The tree *)

\* find_command, which stops at a character that is not a letter
Find(t, c) == IF c \in Odd \/ Key[c] \notin DOMAIN t THEN NoMsg ELSE t[Key[c]].msg

\* add_msg_element makes the nodes that are not there; each counts in the one above.
AddElement(t, c, p) ==
  LET new == Nodes(c) \ DOMAIN t
      old(x) == IF x \in DOMAIN t THEN t[x] ELSE [msg |-> NoMsg, links |-> 0]
      more(x) == Cardinality({y \in new : ChildOf(x, y)}) + (IF x = Key[c] THEN 1 ELSE 0)
  IN  [x \in DOMAIN t \cup new |->
         [msg |-> IF x = Key[c] THEN p ELSE old(x).msg, links |-> old(x).links + more(x)]]

\* del_msg_element frees from the last letter up the nodes that nothing counts on any more.
DelElement(t, c) ==
  LET gone == {x \in Nodes(c) : \A y \in Nodes(c) : Len(y) >= Len(x) => t[y].links = 1}
      less(x) == \/ \E y \in gone : ChildOf(x, y)
                 \/ x = Key[c]
  IN  [x \in DOMAIN t \ gone |->
         [msg |-> IF x = Key[c] THEN NoMsg ELSE t[x].msg,
          links |-> IF less(x) THEN t[x].links - 1 ELSE t[x].links]]

\* mod_add_cmd keeps the first; mod_del_cmd goes by the name.
AddCmd(t, c, p) == IF Find(t, c) # NoMsg THEN t ELSE AddElement(t, c, p)
DelCmd(t, c) == IF Find(t, c) = NoMsg THEN t ELSE DelElement(t, c)

AddAll(t, cs, p) == FoldSet(LAMBDA c, s : AddCmd(s, c, p), t, cs)
DelAll(t, cs) == FoldSet(LAMBDA c, s : DelCmd(s, c), t, cs)

-----------------------------------------------------------------------------
(* Modules.  s: [tree, loaded, clashed, ok] *)

Now == [tree |-> tree, loaded |-> loaded, clashed |-> clashed, ok |-> TRUE]
Taken(t, cs) == {c \in cs : Find(t, c) # NoMsg}

\* load_a_module: a module that is there is not loaded again.
LoadModule(s, m) ==
  IF m \in s.loaded THEN s
  ELSE IF m \notin disk THEN [s EXCEPT !.ok = FALSE]
  ELSE [s EXCEPT !.loaded = @ \cup {m}, !.tree = AddAll(@, Provides[m], <<m>>),
                !.clashed = @ \cup Taken(s.tree, Provides[m])]
\* unload_one_module: modexit, then the code is gone.
UnloadModule(s, m) ==
  [s EXCEPT !.loaded = @ \ {m}, !.tree = DelAll(@, Provides[m])]

\* load_one_module, along the paths of the file
LoadOne(s, m, dirs) == IF Dir[m] \in dirs THEN LoadModule(s, m) ELSE [s EXCEPT !.ok = FALSE]
\* Modules without a directory that is searched, or that cannot be opened, are passed over.
LoadAuto(s, order) ==
  FoldLeft(LAMBDA r, m : [LoadModule(r, m) EXCEPT !.ok = TRUE], s, order)
\* modules_conf was built from its head.
LoadConf(s, names, dirs) ==
  FoldLeft(LAMBDA r, m : [LoadOne(r, m, dirs) EXCEPT !.ok = TRUE], s, Reverse(names))
\* load_core_modules ends the program where one fails.
LoadCore(s) ==
  FoldSet(LAMBDA m, r : IF r.ok THEN LoadModule(r, m) ELSE r, s, Core)
Become(s) == /\ tree' = s.tree /\ loaded' = s.loaded /\ clashed' = s.clashed

-----------------------------------------------------------------------------
(* Pseudo commands *)

\* pseudo_register, for the blocks of the file in turn
Registered(s, f, r) ==
  LET put[n \in 0..Len(f.pseudos)] ==
        IF n = 0 THEN s
        ELSE LET q == put[n - 1]
                 c == f.pseudos[n]
             IN  IF Find(q.tree, c) # NoMsg THEN [q EXCEPT !.clashed = @ \cup {c}]
                 ELSE [q EXCEPT !.tree = AddCmd(@, c, <<c, r>>),
                                !.pseudos = @ \cup {<<c, r>>}]
  IN  put[Len(f.pseudos)]

\* Faulty variant: the commands stay where they are.
PseudoClearKept(t) == t
\* pseudo_clear
PseudoClear(t) == DelAll(t, {p[1] : p \in pseudos})

\* read_conf_files, as far as commands go
ReadFile(t, f, r) ==
  LET s == Registered([tree |-> t, pseudos |-> {}, clashed |-> clashed], f, r)
  IN  /\ pseudos' = s.pseudos /\ paths' = f.paths /\ mods' = f.mods /\ reads' = r
      /\ LET q == LoadConf([tree |-> s.tree, loaded |-> loaded, clashed |-> s.clashed,
                            ok |-> TRUE], f.mods, f.paths)
         IN  Become(q)

-----------------------------------------------------------------------------
\* A start: the file, with its pseudo commands, comes before the modules.
Init ==
  /\ up = TRUE /\ file \in Files /\ disk = Modules /\ reads = 1 /\ ops = 0
  /\ paths = file.paths /\ mods = file.mods
  /\ \E order \in SetToAllKPermutations(Auto) :
       LET empty == [x \in {Root} |-> [msg |-> NoMsg, links |-> 0]]
           s == Registered([tree |-> empty, pseudos |-> {}, clashed |-> {}], file, 1)
           begun == [tree |-> s.tree, loaded |-> {}, clashed |-> s.clashed, ok |-> TRUE]
           all == LoadCore(LoadConf(LoadAuto(begun, order), file.mods, file.paths))
       IN  /\ Len(order) = Cardinality(Auto)
           /\ tree = all.tree /\ loaded = all.loaded /\ clashed = all.clashed
           /\ pseudos = s.pseudos

Step == up /\ ops < MaxOps /\ ops' = ops + 1

\* MODULE LOAD
Load(m) ==
  /\ Step /\ m \notin loaded /\ UNCHANGED <<up, file, disk, paths, mods, pseudos, reads>>
  /\ Become(LoadOne(Now, m, paths))

\* MODULE UNLOAD
Unload(m) ==
  /\ Step /\ m \in loaded \ (Core \cup Resident)
  /\ Become(UnloadModule(Now, m))
  /\ UNCHANGED <<up, file, disk, paths, mods, pseudos, reads>>

\* MODULE RELOAD: a core module that cannot be found again ends the program.
Reload(m) ==
  /\ Step /\ m \in loaded \ Resident
  /\ UNCHANGED <<file, disk, paths, mods, pseudos, reads>>
  /\ LET s == LoadOne(UnloadModule(Now, m), m, paths)
     IN  Become(s) /\ up' = (s.ok \/ m \notin Core)

\* MODULE RELOAD *
ReloadAll ==
  /\ Step /\ UNCHANGED <<file, disk, paths, mods, pseudos, reads>>
  /\ LET bare == FoldSet(LAMBDA m, r : UnloadModule(r, m), Now, loaded \ Resident)
     IN  \E order \in SetToAllKPermutations(Auto) :
           LET s == LoadCore(LoadConf(LoadAuto(bare, order), mods, paths))
           IN  Len(order) = Cardinality(Auto) /\ Become(s) /\ up' = s.ok

\* REHASH, of a file that may have changed: conf_rehash
Rehash ==
  /\ Step /\ UNCHANGED <<up, disk>>
  /\ file' \in Files
  /\ ReadFile(PseudoClear(tree), file', reads + 1)

\* A module is installed or taken away, under a server that runs.
Install(m) == /\ Step /\ m \notin disk /\ disk' = disk \cup {m}
              /\ UNCHANGED <<up, file, paths, mods, loaded, pseudos, tree, reads, clashed>>
Erase(m) ==  /\ Step /\ m \in disk /\ disk' = disk \ {m}
             /\ UNCHANGED <<up, file, paths, mods, loaded, pseudos, tree, reads, clashed>>

Next == \/ \E m \in Modules : Load(m) \/ Unload(m) \/ Reload(m) \/ Install(m) \/ Erase(m)
        \/ ReloadAll \/ Rehash

Spec == Init /\ [][Next]_comVars

-----------------------------------------------------------------------------
Providers == {<<m>> : m \in Modules} \cup ((DOMAIN Key) \X Nat)

TypeOK ==
  /\ up \in BOOLEAN /\ file \in Files /\ disk \subseteq Modules /\ loaded \subseteq Modules
  /\ \A x \in DOMAIN tree : tree[x].links \in Nat /\ tree[x].msg \in Providers \cup {NoMsg}
  /\ Root \in DOMAIN tree /\ reads \in Nat /\ ops \in 0..MaxOps
  /\ clashed \subseteq DOMAIN Key /\ \A p \in pseudos : p[2] = reads

\* The count of a node is that of what hangs on it, so that a node is there as long as
\* it is needed, and no longer (parse.c 456-480: "Count of all pointers"); but for a
\* pseudo command that is not made of letters, which each rehash counts again.
LinksRight ==
  \A x \in DOMAIN tree :
    /\ \/ tree[x].links = Cardinality({y \in DOMAIN tree : ChildOf(x, y)})
                          + (IF tree[x].msg = NoMsg THEN 0 ELSE 1)
       \/ \E c \in Odd : Key[c] = x
    /\ x # Root => tree[x].links > 0 /\ SubSeq(x, 1, Len(x) - 1) \in DOMAIN tree

\* No command is that of a module whose code is gone, or of a pseudo block that was
\* freed, though removal goes by name and never looks whose command it removes; but for
\* a pseudo command that is not made of letters (conf_pseudo.c 118-141).
NoStale ==
  \A x \in DOMAIN tree :
    \/ tree[x].msg \in {<<m>> : m \in loaded} \cup pseudos \cup {NoMsg}
    \/ \E c \in Odd : Key[c] = x

\* Every command of a module that is loaded, and of a pseudo block, is found, unless two
\* of them have had the same one: then the removal of either removes it, and pseudo_clear
\* meets a command that is not there, where it asserts that it is (conf_pseudo.c 126).
Available ==
  /\ \A m \in loaded : \A c \in Provides[m] : Find(tree, c) # NoMsg \/ c \in clashed
  /\ \A p \in pseudos : Find(tree, p[1]) # NoMsg \/ p[1] \in clashed \cup Odd

\* A server that runs has its core modules (modules.c 359-382, m_module.c 150-165).
CoreThere == up => Core \subseteq loaded
=============================================================================
