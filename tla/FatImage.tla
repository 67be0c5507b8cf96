------------------------------ MODULE FatImage ------------------------------
(***************************************************************************)
(* The whole of create_fat32_image in ostest/private/fat_image.py: between *)
(* the layout of the FAT and the assignment of clusters (FatLayout),       *)
(* _build_tree makes a tree of the manifest and _assign_short_names gives  *)
(* every node its 8.3 name.  One step per entry of the manifest and per    *)
(* node named.                                                             *)
(*                                                                         *)
(* What a FAT driver does with the names is the subject, so they keep      *)
(* their characters, over a small alphabet: "a" is the lower case of "A",  *)
(* "+" is legal in a long name only.  A name is its base and its extension *)
(* (_split_filename), and a number in the Catalogue, which lists the names *)
(* in the order of sorted_children.                                        *)
(***************************************************************************)
EXTENDS FatLayout, SequencesExt

CONSTANTS Catalogue,     \* the names: [legal, base, ext]
          Jobs,          \* the program's inputs: [sectors, files]
          Width,         \* characters of an 8.3 name's base
          ExtWidth,      \* and of its extension
          Radix,         \* of the number in an alias
          MaxSuffix,     \* the last number tried
          LfnUnits       \* characters of a name in one long-name entry

Name == [legal : BOOLEAN, base : Seq(STRING), ext : Seq(STRING)]

\* An entry of a manifest: a path of names, whether its source is a regular file,
\* and the file's size.
Entry == [path : Seq(DOMAIN Catalogue) \ {<<>>}, regular : BOOLEAN, size : Nat]

ASSUME ImageAssumption ==
    /\ Catalogue \in Seq(Name)
    /\ Jobs \subseteq [sectors : ImageSizes, files : Seq(Entry)]
    /\ {Width, ExtWidth, LfnUnits} \subseteq Nat \ {0}
    /\ Radix \in 2..10 /\ MaxSuffix \in Nat

VARIABLES entries,       \* the manifest's files
          added,         \* entries processed by _build_tree
          nodes,         \* the tree, by path of keys: [name, dir, size]
          short,         \* short_name of the nodes named so far
          raised         \* which of the two raised: "none", "entry" or "alias"

nameVars == <<entries, added, nodes, short, raised>>
imageVars == <<vars, nameVars>>

Upper(c) == CASE c = "a" -> "A" [] c = "b" -> "B" [] OTHER -> c
UpperAll(s) == [i \in DOMAIN s |-> Upper(s[i])]
Take(s, n) == SubSeq(s, 1, IF Len(s) < n THEN Len(s) ELSE n)

VALID_SHORT_CHARS == {"A", "B", "_", "~", "0", "1"}
RESERVED_SHORT_NAMES == {<<"B", "B">>}

\* casefold, and the path of keys under which children dictionaries hold a node.
Key(name) == [base |-> UpperAll(Catalogue[name].base), ext |-> UpperAll(Catalogue[name].ext)]
KeyPath(path) == [i \in DOMAIN path |-> Key(path[i])]

ImageInit ==
    /\ Init
    /\ \E job \in Jobs : totalSectors = job.sectors /\ entries = job.files
    /\ added = 0
    /\ nodes = [p \in {<<>>} |-> [name |-> 0, dir |-> TRUE, size |-> 0]]
    /\ short = [p \in {} |-> <<>>]
    /\ raised = "none"

-----------------------------------------------------------------------------
(***************************************************************************)
(* _build_tree.                                                            *)
(***************************************************************************)

\* The directories on the way to an entry.
Way(path) == {SubSeq(path, 1, n) : n \in 1..(Len(path) - 1)}

\* Mutant: a path may go through a file.
EntryFits_ThroughFile(e) ==
    /\ \A i \in DOMAIN e.path : Catalogue[e.path[i]].legal
    /\ KeyPath(e.path) \notin DOMAIN nodes
    /\ e.regular

\* No ValueError is raised for the entry.
EntryFits(e) ==
    /\ \A i \in DOMAIN e.path : Catalogue[e.path[i]].legal
    /\ \A w \in Way(e.path) : KeyPath(w) \in DOMAIN nodes => nodes[KeyPath(w)].dir
    /\ KeyPath(e.path) \notin DOMAIN nodes
    /\ e.regular

\* Missing directories take the spelling of the entry that made them.
AddEntry ==
    /\ pc = "tree" /\ added < Len(entries)
    /\ LET e == entries[added + 1]
           file == KeyPath(e.path)
       IN  /\ EntryFits(e)
           /\ nodes' = [p \in DOMAIN nodes \cup {KeyPath(w) : w \in Way(e.path)} \cup {file} |->
                          IF p \in DOMAIN nodes THEN nodes[p]
                          ELSE [name |-> e.path[Len(p)], dir |-> p # file,
                                size |-> IF p = file THEN e.size ELSE 0]]
    /\ added' = added + 1
    /\ UNCHANGED <<vars, entries, short, raised>>

RefuseEntry ==
    /\ RejectTree
    /\ added < Len(entries) /\ ~EntryFits(entries[added + 1])
    /\ raised' = "entry"
    /\ UNCHANGED <<entries, added, nodes, short>>

-----------------------------------------------------------------------------
(***************************************************************************)
(* _walk_preorder and _assign_short_names.                                 *)
(***************************************************************************)
ChildrenOf(d) == {p \in DOMAIN nodes : p # <<>> /\ Front(p) = d}
Dirs == {p \in DOMAIN nodes : nodes[p].dir}

\* A directory comes before what it holds; of two children of one directory, and of
\* what they hold, directories come first and then the order of the names.
Before(p, q) ==
    \/ IsStrictPrefix(p, q)
    \/ \E k \in DOMAIN p \cap DOMAIN q :
           LET a == SubSeq(p, 1, k)
               b == SubSeq(q, 1, k)
           IN  /\ a # b /\ Front(a) = Front(b)
               /\ IF a \in Dirs <=> b \in Dirs THEN nodes[a].name < nodes[b].name
                  ELSE a \in Dirs

Walk ==
    [i \in 1..Cardinality(DOMAIN nodes) |->
        CHOOSE p \in DOMAIN nodes : Cardinality({q \in DOMAIN nodes : Before(q, p)}) = i - 1]

\* What one character becomes in a short name, and a whole part.
Sanitized(c) ==
    CASE Upper(c) \in VALID_SHORT_CHARS -> <<Upper(c)>>
      [] c \in {" ", "."} -> <<>>
      [] OTHER -> <<"_">>
Sanitize(part) ==
    LET result[n \in 0..Len(part)] ==
            IF n = 0 THEN <<>> ELSE result[n - 1] \o Sanitized(part[n])
    IN  result[Len(part)]

ShortName(base, ext) == [base |-> Take(base, Width), ext |-> Take(Sanitize(ext), ExtWidth)]
Direct(n) == ShortName(Sanitize(n.base), n.ext)

DirectlyRepresentable(n, used) ==
    /\ Sanitize(n.base) # <<>>
    /\ Len(n.base) <= Width /\ Len(n.ext) <= ExtWidth
    /\ \A i \in DOMAIN (n.base \o n.ext) : Upper((n.base \o n.ext)[i]) \in VALID_SHORT_CHARS
    /\ UpperAll(n.base) \notin RESERVED_SHORT_NAMES
    /\ Direct(n) \notin used

Suffix(number) ==
    LET digit == <<"0", "1", "2", "3", "4", "5", "6", "7", "8", "9">>
        digits[k \in 0..MaxSuffix] ==
            (IF k < Radix THEN <<>> ELSE digits[k \div Radix]) \o <<digit[(k % Radix) + 1]>>
    IN  <<"~">> \o digits[number]

Candidate(n, number) ==
    LET clean == Sanitize(n.base)
        stem == IF clean = <<>> THEN <<"_">> ELSE clean
    IN  ShortName(Take(stem, Width - Len(Suffix(number))) \o Suffix(number), n.ext)

\* Mutant: only names that need no alias are remembered.
FreeAliases_ForgetsAliases(n, used) ==
    {number \in 1..MaxSuffix :
        /\ Candidate(n, number) \notin {s \in used : \A i \in DOMAIN s.base : s.base[i] # "~"}
        /\ Candidate(n, number).base \notin RESERVED_SHORT_NAMES}

\* The numbers whose alias is free in the directory.
FreeAliases(n, used) ==
    {number \in 1..MaxSuffix :
        /\ Candidate(n, number) \notin used
        /\ Candidate(n, number).base \notin RESERVED_SHORT_NAMES}

AllNamed == DOMAIN short = DOMAIN nodes \ {<<>>}

\* The next child: its directory is named and so are its siblings before it, whose
\* names are the used ones.  Directories do not share that set, so the order in which
\* their children are taken does not matter.
Nameable(p) ==
    /\ p \in DOMAIN nodes \ (DOMAIN short \cup {<<>>})
    /\ Front(p) \in DOMAIN short \cup {<<>>}
    /\ \A q \in ChildrenOf(Front(p)) : nodes[q].name < nodes[p].name => q \in DOMAIN short

\* The name it gets: its own if that is one, else the first free alias, or none.
NewName(p) ==
    LET n == Catalogue[nodes[p].name]
        used == {short[q] : q \in DOMAIN short \cap ChildrenOf(Front(p))}
    IN  IF DirectlyRepresentable(n, used) THEN {Direct(n)}
        ELSE {Candidate(n, k) : k \in {k \in FreeAliases(n, used) :
                                          \A l \in FreeAliases(n, used) : k <= l}}

NameNode ==
    /\ pc = "tree" /\ added = Len(entries)
    /\ \E p \in {p \in DOMAIN nodes : Nameable(p)} : \E name \in NewName(p) :
           short' = [q \in DOMAIN short \cup {p} |-> IF q = p THEN name ELSE short[q]]
    /\ UNCHANGED <<vars, entries, added, nodes, raised>>

NoAliasLeft ==
    /\ RejectTree
    /\ added = Len(entries)
    /\ \E p \in DOMAIN nodes : Nameable(p) /\ NewName(p) = {}
    /\ raised' = "alias"
    /\ UNCHANGED <<entries, added, nodes, short>>

NeedsLfn(p) == Catalogue[nodes[p].name].base # short[p].base
               \/ Catalogue[nodes[p].name].ext # short[p].ext

LfnEntryCount(n) ==
    CeilDiv(Len(n.base) + (IF n.ext = <<>> THEN 0 ELSE 1 + Len(n.ext)) + 1, LfnUnits)

\* The label in the root, "." and ".." elsewhere, and the children.
DirectoryEntryCount(d) ==
    (IF d = <<>> THEN 1 ELSE 2)
    + MapThenSumSet(LAMBDA p : 1 + (IF NeedsLfn(p) THEN LfnEntryCount(Catalogue[nodes[p].name])
                                    ELSE 0), ChildrenOf(d))

LayoutTree(walk) ==
    [i \in DOMAIN walk |->
        [dir |-> walk[i] \in Dirs,
         amount |-> IF walk[i] \in Dirs THEN DirectoryEntryCount(walk[i]) ELSE nodes[walk[i]].size]]

\* The tree goes to _assign_clusters.
HandOver ==
    /\ added = Len(entries) /\ AllNamed
    /\ tree' = LayoutTree(Walk)
    /\ BuildTree
    /\ UNCHANGED nameVars

Layout ==
    /\ Probe \/ FinishSearch \/ AssignNode \/ FinishAssign \/ ChainNode \/ FinishChain \/ Ended
    /\ UNCHANGED nameVars

ImageNext == AddEntry \/ RefuseEntry \/ NameNode \/ NoAliasLeft \/ HandOver \/ Layout

ImageSpec == ImageInit /\ [][ImageNext]_imageVars /\ WF_imageVars(ImageNext)

-----------------------------------------------------------------------------
(***************************************************************************)
(* Properties.                                                             *)
(***************************************************************************)

\* Type invariant of what this module adds.
ImageTypeOK ==
    /\ [sectors |-> totalSectors, files |-> entries] \in Jobs /\ added \in 0..Len(entries)
    /\ \A p \in DOMAIN nodes : p # <<>> => Front(p) \in Dirs
    /\ \A p \in DOMAIN nodes : nodes[p].dir \in BOOLEAN /\ nodes[p].size \in Nat
    /\ DOMAIN short \subseteq DOMAIN nodes \ {<<>>}
    /\ raised \in {"none", "entry", "alias"}

\* What makes a manifest a file system, in whatever order it lists its files: names
\* and sources are good, no two destinations are equal but for case, and none lies
\* below another.
Compatible ==
    /\ \A i \in DOMAIN entries : /\ entries[i].regular
                                 /\ \A j \in DOMAIN entries[i].path : Catalogue[entries[i].path[j]].legal
    /\ \A i, j \in DOMAIN entries :
           i # j => ~IsPrefix(KeyPath(entries[i].path), KeyPath(entries[j].path))

\* _build_tree refuses exactly the manifests that are no file system, although it
\* looks at each entry only against the ones before it.
ManifestAcceptedExactly ==
    /\ raised = "entry" => ~Compatible
    /\ added = Len(entries) => Compatible

\* A driver scans a directory for the first entry whose long or short name is the
\* one it looks for, case aside.
Found(d, key) ==
    LET hit(p) == Key(nodes[p].name) = key \/ short[p] = key
        hits == {p \in ChildrenOf(d) : hit(p)}
    IN  IF hits = {} THEN <<>>
        ELSE CHOOSE p \in hits : \A q \in hits : nodes[p].name <= nodes[q].name

\* A destination component that looks like an alias may be taken for one: the file
\* "A~1" is hidden by a file whose alias is A~1.
LooksLikeAlias(name) == Contains(Catalogue[name].base, "~")

\* In the image written every file is found under its destination, and every node
\* under its 8.3 name: no alias hides a file or another alias, whichever names share
\* a directory, as long as no destination itself looks like an alias.
DestinationsAreFound ==
    (/\ pc = "written"
     /\ \A i \in DOMAIN entries : \A j \in DOMAIN entries[i].path :
            ~LooksLikeAlias(entries[i].path[j])) =>
        /\ \A i \in DOMAIN entries :
               LET keys == KeyPath(entries[i].path)
                   at[n \in 0..Len(keys)] == IF n = 0 THEN <<>> ELSE Found(at[n - 1], keys[n])
               IN  at[Len(keys)] = keys /\ nodes[keys].size = entries[i].size
        /\ \A p \in DOMAIN short : Found(Front(p), short[p]) = p

=============================================================================
