-------------------------------- MODULE TreeRead --------------------------------
(***************************************************************************)
(* ReadAdministrative and ReadUntracked: a snapshot reads a whole tree of  *)
(* directories, or the selected leaves of one, object after object, while  *)
(* others change it.  Every object is looked at before, around and after   *)
(* what is read of it, and all of them once more at the end.               *)
(*                                                                         *)
(* Objects have identities: a directory that was opened stays the same     *)
(* object when it is renamed or removed.  "at" is the modification time:   *)
(* the change that made the object what it is.  Somebody who restores the  *)
(* modification time of what he changed is left out, as the plan of the    *)
(* readers leaves him out, and so are permission bits, the portability of  *)
(* names and the text limits.                                              *)
(***************************************************************************)
EXTENDS Naturals, Sequences, FiniteSetsExt, SequencesExt

CONSTANTS
  Objects,     \* identities
  Above, Top,  \* the root is the directory of this name in that one
  Names,       \* names in a directory, in their order
  Nowhere,     \* no object
  FirstTrees,  \* the file system when a reader begins
  Selections,  \* selected leaves, Whole for ReadAdministrative
  Required,    \* names of the nonempty files a root must have
  MaxEntries,  \* limits of the readers
  MaxBytes,
  MaxSize,     \* bound: of a file
  MaxDepth,    \* bound: of the tree
  MaxChanges   \* bound: changes by others

Self == 0 \* the name "." of an opened directory

Kinds == {"dir", "file", "link"}
Nodes == [kind : Kinds, size : Nat, at : Nat, child : [Names -> Objects \cup {Nowhere}]]

VARIABLES
  node,       \* the file system
  selection,  \* what is read
  pc, checks, \* the reader's next step, and what it compares before that
  root,       \* the root as it was opened
  stack,      \* directories being read, outermost first
  here,       \* the entry at hand
  seen,       \* observations to make again
  entries,    \* the result
  bytes,      \* read so far
  reserved,   \* names enumerated so far
  then,       \* the file system when it began to look again (history)
  changes     \* changes by others

reader == <<selection, pc, checks, root, stack, here, seen, entries, bytes, reserved, then>>
vars == <<node, changes, reader>>

Whole == {<<>>}
Administrative == selection = Whole

--------------------------------------------------------------------------------
(* The file system.                                                        *)
Look(d, n) == IF n = Self THEN d ELSE node[d].child[n]

Stat(i) == [ino |-> i, kind |-> node[i].kind, size |-> node[i].size, at |-> node[i].at]

(* What opening a name gives: a link leads anywhere below the root.        *)
Opens(d, n) == IF Look(d, n) = Nowhere THEN {}
               ELSE IF node[Look(d, n)].kind = "link" THEN Objects \ {Above}
               ELSE {Look(d, n)}

Paths == UNION {[1..k -> Names] : k \in 0..MaxDepth}

(* The object a path leads to.                                              *)
Reached(fs, from, path) ==
  LET down[k \in 0..Len(path)] ==
        IF k = 0 THEN from
        ELSE IF down[k - 1] = Nowhere THEN Nowhere
        ELSE fs[down[k - 1]].child[path[k]]
  IN  down[Len(path)]

(* No path is longer than the bound; that of a directory below itself would *)
(* have no end.                                                            *)
Shallow(fs) == \A i \in {d \in Objects : fs[d].kind = "dir"}, path \in [1..MaxDepth + 1 -> Names] :
                 Reached(fs, i, path) = Nowhere

Contents(fs, i) == IF fs[i].kind = "dir" THEN <<>>
                   ELSE [k \in 1..fs[i].size |-> <<i, fs[i].at>>]

Entry(path, kind, data) == [path |-> path, kind |-> kind, data |-> data]

(* selectUntrackedReadPaths: no leaf lies below another, and leaves and    *)
(* their parents are within the limit.                                     *)
NoneBelowAnother(leaves) == \A a, b \in leaves : IsPrefix(a, b) => a = b

WithParents(leaves) == {q \in Paths \ {<<>>} : \E leaf \in leaves : IsPrefix(q, leaf)}

Selectable(chosen) == \/ chosen = Whole
                      \/ /\ NoneBelowAnother(chosen)
                         /\ Cardinality(WithParents(chosen)) <= MaxEntries

(* What is to be read of a file system.                                    *)
Wanted(path) == Administrative \/ path \in WithParents(selection)

TreeOf(fs) ==
  {Entry(path, fs[Reached(fs, root, path)].kind, Contents(fs, Reached(fs, root, path))) :
     path \in {q \in Paths : Wanted(q) /\ Reached(fs, root, q) # Nowhere}}

--------------------------------------------------------------------------------
(* Comparing an object with what it was.                                   *)
Compare(d, n, information) == [dir |-> d, name |-> n, information |-> information]

Observation(d, n, information, directory, text) ==
  [dir |-> d, name |-> n, information |-> information, directory |-> directory, text |-> text]

Found(d, n, path) ==
  [dir |-> d, name |-> n, path |-> path, information |-> Stat(Look(d, n)),
   handle |-> Nowhere, data |-> <<>>]

NothingAtHand == [dir |-> Nowhere]

(* A directory being read: names still to list, names still to read.       *)
Frame(d, names) == [path |-> here.path, dir |-> d, information |-> here.information,
                    unlisted |-> Names, names |-> names]

(* The children of a selected parent.                                      *)
Chosen(path) == IF Administrative THEN {}
                ELSE {n \in Names : Wanted(Append(path, n))}

Inner == Last(stack)
InnerBecomes(frame) == Append(Front(stack), frame)

Start(fs, chosen) ==
  /\ node = fs /\ selection = chosen
  /\ pc = "observeRoot" /\ checks = <<>> /\ root = Nowhere /\ stack = <<>>
  /\ here = NothingAtHand /\ seen = <<>> /\ entries = {} /\ bytes = 0 /\ reserved = 1
  /\ then = fs /\ changes = 0

(* Only directories have children.                                         *)
ChildlessLeaves(fs) == \A i \in Objects, n \in Names : fs[i].kind # "dir" => fs[i].child[n] = Nowhere

ASSUME TreeReadAssumption ==
  /\ Above \in Objects /\ Nowhere \notin Objects
  /\ Top \in Names /\ Names \subseteq Nat \ {Self} /\ IsFiniteSet(Names)
  /\ \A fs \in FirstTrees :
       /\ fs \in [Objects -> Nodes] /\ \A i \in Objects : fs[i].at = 0
       /\ ChildlessLeaves(fs) /\ Shallow(fs)
  /\ \A chosen \in Selections :
       chosen = Whole \/ (IsFiniteSet(chosen) /\ chosen \subseteq Paths \ {<<>>})
  /\ MaxEntries \in Nat \ {0} /\ MaxBytes \in Nat
  /\ MaxSize \in Nat /\ MaxDepth \in Nat /\ MaxChanges \in Nat

Init == \E fs \in FirstTrees, chosen \in {s \in Selections : Selectable(s)} : Start(fs, chosen)

--------------------------------------------------------------------------------
Finished == {"ok", "error"}
Ready(step) == pc = step /\ checks = <<>>

(* Any step may fail, of itself or because an object is not what it was:   *)
(* no partial result.                                                      *)
Fail == /\ pc \notin Finished /\ pc' = "error"
        /\ checks' = <<>> /\ root' = Nowhere /\ stack' = <<>>
        /\ here' = NothingAtHand /\ seen' = <<>> /\ entries' = {} /\ bytes' = 0 /\ reserved' = 1
        /\ then' = node
        /\ UNCHANGED <<selection, node, changes>>

(* checkPath, checkFile, checkRootPath: one comparison.                    *)
Check == /\ checks # <<>>
         /\ LET c == Head(checks) IN /\ Look(c.dir, c.name) # Nowhere
                                     /\ Stat(Look(c.dir, c.name)) = c.information
         /\ checks' = Tail(checks)
         /\ UNCHANGED <<selection, root, pc, stack, here, seen, entries, bytes, reserved, then,
                        node, changes>>

ObserveRoot == /\ Ready("observeRoot")
               /\ Look(Above, Top) # Nowhere /\ Stat(Look(Above, Top)).kind = "dir"
               /\ here' = Found(Above, Top, <<>>) /\ pc' = "openRoot"
               /\ UNCHANGED <<selection, root, checks, stack, seen, entries, bytes, reserved,
                              then, node, changes>>

OpenRoot ==
  /\ Ready("openRoot")
  /\ \E opened \in Opens(Above, Top) :
       /\ checks' = <<Compare(opened, Self, here.information), Compare(Above, Top, here.information)>>
       /\ root' = opened
       /\ stack' = <<Frame(opened, Chosen(<<>>))>>
       /\ seen' = <<Observation(opened, Self, here.information, Nowhere, <<>>)>>
  /\ entries' = IF Administrative THEN {Entry(<<>>, "dir", <<>>)} ELSE {}
  /\ pc' = IF Administrative THEN "openList" ELSE "collect"
  /\ UNCHANGED <<selection, here, bytes, reserved, then, node, changes>>

(* directoryNames: the names come one after the other, and each reserves   *)
(* its entry.                                                              *)
OpenList == /\ Ready("openList")
            /\ checks' = <<Compare(Inner.dir, Self, Inner.information)>> /\ pc' = "list"
            /\ UNCHANGED <<selection, root, stack, here, seen, entries, bytes, reserved, then,
                           node, changes>>

ListName ==
  /\ Ready("list") /\ Inner.unlisted # {}
  /\ LET n == Min(Inner.unlisted)
         listed == IF Look(Inner.dir, n) = Nowhere THEN {} ELSE {n}
     IN  /\ reserved + Cardinality(listed) <= MaxEntries
         /\ reserved' = reserved + Cardinality(listed)
         /\ stack' = InnerBecomes([Inner EXCEPT !.unlisted = @ \ {n}, !.names = @ \cup listed])
  /\ UNCHANGED <<selection, root, pc, checks, here, seen, entries, bytes, then, node, changes>>

EndList == /\ Ready("list") /\ Inner.unlisted = {}
           /\ checks' = [k \in 1..2 |-> Compare(Inner.dir, Self, Inner.information)]
           /\ pc' = "walk"
           /\ UNCHANGED <<selection, root, stack, here, seen, entries, bytes, reserved, then,
                          node, changes>>

(* The next name in order, observed: an object of the kind is then read in *)
(* the given way.                                                          *)
Observe(kind, next) ==
  /\ Inner.names # {}
  /\ LET n == Min(Inner.names)
     IN  /\ Look(Inner.dir, n) # Nowhere /\ Stat(Look(Inner.dir, n)).kind = kind
         /\ here' = Found(Inner.dir, n, Append(Inner.path, n))
         /\ stack' = InnerBecomes([Inner EXCEPT !.names = @ \ {n}])
         /\ checks' = IF kind = "link" THEN <<Compare(Inner.dir, n, Stat(Look(Inner.dir, n)))>>
                                       ELSE <<>>
  /\ pc' = next
  /\ UNCHANGED <<selection, root, seen, entries, bytes, reserved, then, node, changes>>

(* walk: files and directories, no links.                                  *)
Walk == /\ Ready("walk") /\ stack # <<>>
        /\ Observe("file", "openFile") \/ Observe("dir", "openDirectory")

(* collect: a parent must be a directory, a leaf a file or a link.         *)
Collect ==
  /\ Ready("collect") /\ stack # <<>> /\ Inner.names # {}
  /\ IF Append(Inner.path, Min(Inner.names)) \in selection
     THEN Observe("file", "openFile") \/ Observe("link", "readLink")
     ELSE Observe("dir", "openDirectory")

EntriesNext == IF Administrative THEN "walk" ELSE "collect"

Leave == /\ Ready(EntriesNext) /\ stack # <<>> /\ Inner.names = {}
         /\ stack' = Front(stack)
         /\ pc' = IF Len(stack) = 1 THEN "validate" ELSE EntriesNext
         /\ UNCHANGED <<selection, root, checks, here, seen, entries, bytes, reserved, then,
                        node, changes>>

OpenDirectory ==
  /\ Ready("openDirectory")
  /\ \E child \in Opens(here.dir, here.name) :
       /\ checks' = <<Compare(child, Self, here.information),
                      Compare(here.dir, here.name, here.information)>>
       /\ stack' = Append(stack, Frame(child, Chosen(here.path)))
       /\ seen' = Append(seen, Observation(here.dir, here.name, here.information, child, <<>>))
  /\ entries' = entries \cup {Entry(here.path, "dir", <<>>)}
  /\ pc' = IF Administrative THEN "openList" ELSE "collect"
  /\ UNCHANGED <<selection, root, here, bytes, reserved, then, node, changes>>

(* fileData                                                                *)
OpenFile ==
  /\ Ready("openFile") /\ here.information.size <= MaxBytes - bytes
  /\ \E file \in Opens(here.dir, here.name) :
       /\ here' = [here EXCEPT !.handle = file]
       /\ checks' = <<Compare(file, Self, here.information),
                      Compare(here.dir, here.name, here.information)>>
  /\ pc' = "readFile"
  /\ UNCHANGED <<selection, root, stack, seen, entries, bytes, reserved, then, node, changes>>

ReadPart ==
  /\ Ready("readFile") /\ Len(here.data) < here.information.size
  /\ Len(here.data) < node[here.handle].size \* shortened otherwise
  /\ here' = [here EXCEPT !.data = Append(@, <<here.handle, node[here.handle].at>>)]
  /\ UNCHANGED <<selection, root, pc, checks, stack, seen, entries, bytes, reserved, then,
                 node, changes>>

ReadEnd ==
  /\ Ready("readFile") /\ Len(here.data) = here.information.size
  /\ node[here.handle].size <= here.information.size \* grown otherwise
  /\ checks' = <<Compare(here.handle, Self, here.information),
                 Compare(here.dir, here.name, here.information)>>
  /\ pc' = "charge"
  /\ UNCHANGED <<selection, root, stack, here, seen, entries, bytes, reserved, then, node, changes>>

(* Mutant: the bytes of a file are not counted.                            *)
ChargeUncounted ==
  /\ Ready("charge")
  /\ entries' = entries \cup {Entry(here.path, "file", here.data)}
  /\ seen' = Append(seen, Observation(here.dir, here.name, here.information, Nowhere, <<>>))
  /\ pc' = EntriesNext
  /\ UNCHANGED <<selection, root, checks, stack, here, bytes, reserved, then, node, changes>>

Charge ==
  /\ Ready("charge")
  /\ entries' = entries \cup {Entry(here.path, "file", here.data)}
  /\ bytes' = bytes + Len(here.data)
  /\ seen' = Append(seen, Observation(here.dir, here.name, here.information, Nowhere, <<>>))
  /\ pc' = EntriesNext
  /\ UNCHANGED <<selection, root, checks, stack, here, reserved, then, node, changes>>

(* linkText                                                                *)
TextOf(d, n) == Contents(node, Look(d, n))
IsLink(d, n) == Look(d, n) # Nowhere /\ node[Look(d, n)].kind = "link"

ReadLink ==
  /\ Ready("readLink") /\ IsLink(here.dir, here.name)
  /\ LET text == TextOf(here.dir, here.name)
     IN  /\ entries' = entries \cup {Entry(here.path, "link", text)}
         /\ seen' = Append(seen, Observation(here.dir, here.name, here.information, Nowhere, text))
  /\ checks' = <<Compare(here.dir, here.name, here.information)>>
  /\ pc' = "collect"
  /\ UNCHANGED <<selection, root, stack, here, bytes, reserved, then, node, changes>>

--------------------------------------------------------------------------------
(* validateAdministrativeEntries; the root path is compared last.          *)
Validate ==
  /\ Ready("validate")
  /\ Administrative => \A n \in Required : \E e \in entries :
                         e.path = <<n>> /\ e.kind = "file" /\ e.data # <<>>
  /\ seen' = Append(seen, Observation(Above, Top, seen[1].information, Nowhere, <<>>))
  /\ then' = node /\ pc' = "again"
  /\ UNCHANGED <<selection, root, checks, stack, here, entries, bytes, reserved, node, changes>>

(* Mutant: directories are not looked at again.                            *)
FilesAgain(o) ==
  IF o.information.kind = "dir" THEN <<>> ELSE <<Compare(o.dir, o.name, o.information)>>

(* What an observation is compared with.                                   *)
Again(o) ==
  <<Compare(o.dir, o.name, o.information)>>
  \o (IF o.directory # Nowhere THEN <<Compare(o.directory, Self, o.information)>> ELSE <<>>)
  \o (IF o.text # <<>> THEN <<Compare(o.dir, o.name, o.information)>> ELSE <<>>)

Revalidate ==
  /\ Ready("again") /\ seen # <<>>
  /\ checks' = Again(Head(seen))
  /\ IF Head(seen).text = <<>> THEN seen' = Tail(seen) /\ pc' = "again"
                               ELSE pc' = "linkAgain" /\ UNCHANGED seen
  /\ UNCHANGED <<selection, root, stack, here, entries, bytes, reserved, then, node, changes>>

ReadLinkAgain ==
  /\ Ready("linkAgain")
  /\ LET o == Head(seen) IN /\ IsLink(o.dir, o.name) /\ TextOf(o.dir, o.name) = o.text
                            /\ checks' = <<Compare(o.dir, o.name, o.information)>>
  /\ seen' = Tail(seen) /\ pc' = "again"
  /\ UNCHANGED <<selection, root, stack, here, entries, bytes, reserved, then, node, changes>>

Return == /\ Ready("again") /\ seen = <<>> /\ pc' = "ok"
          /\ UNCHANGED <<selection, root, checks, stack, here, seen, entries, bytes, reserved,
                         then, node, changes>>

Reads == \/ Fail \/ Check \/ ObserveRoot \/ OpenRoot \/ OpenList \/ ListName \/ EndList
         \/ Walk \/ Collect \/ Leave \/ OpenDirectory \/ OpenFile \/ ReadPart \/ ReadEnd
         \/ Charge \/ ReadLink \/ Validate \/ Revalidate \/ ReadLinkAgain \/ Return

--------------------------------------------------------------------------------
(* The others.                                                             *)
Change == /\ pc \notin Finished /\ changes < MaxChanges
          /\ changes' = changes + 1 /\ UNCHANGED reader

Write(i, size) ==
  /\ Change /\ node[i].kind = "file"
  /\ node' = [node EXCEPT ![i].size = size, ![i].at = changes']

Unlink(d, n) ==
  /\ Change /\ node[d].kind = "dir" /\ Look(d, n) # Nowhere
  /\ node' = [node EXCEPT ![d].child[n] = Nowhere, ![d].at = changes']

(* A new object, or one that was moved away: in a free place or instead of *)
(* what is there, and not below itself.                                    *)
Unlinked(i) == \A d \in Objects, n \in Names : Look(d, n) # i

Put(d, n, i) ==
  /\ Change /\ node[d].kind = "dir" /\ i # Above /\ Unlinked(i)
  /\ node' = [node EXCEPT ![d].child[n] = i, ![d].at = changes']
  /\ Shallow(node')

Others == \/ \E i \in Objects, size \in 0..MaxSize : Write(i, size)
          \/ \E d \in Objects, n \in Names : Unlink(d, n)
          \/ \E d, i \in Objects, n \in Names : Put(d, n, i)

Next == Reads \/ Others

Spec == Init /\ [][Next]_vars

--------------------------------------------------------------------------------
(* A snapshot is of one moment: what a reader returns is the tree that was *)
(* there when it began to look again, every name, kind and content, however *)
(* the tree was changed before, between and after (read_administrative.go: *)
(* 121-133, read_untracked.go:112-133).                                    *)
TreeOfOneMoment == pc = "ok" => entries = TreeOf(then)

(* A reader holds no more than its limits, whatever the files grow to and  *)
(* the directories fill up with while they are read (read_administrative.go: *)
(* 212-216, 257; read_untracked_data.go:12).                               *)
Parts == UNION {{e} \X DOMAIN e.data : e \in {x \in entries : x.kind = "file"}}

Held == Cardinality(Parts) + (IF pc \in {"readFile", "charge"} THEN here.information.size ELSE 0)

WithinLimits == Held <= MaxBytes /\ Cardinality(entries) <= MaxEntries
================================================================================
