----------------------------- MODULE TreeReadProofs -----------------------------
(***************************************************************************)
(* The two readers on any file system, with any limits and any number of   *)
(* changes.                                                                *)
(***************************************************************************)
EXTENDS TreeRead, FiniteSetTheorems, SequenceTheorems, WellFoundedInduction, TLAPS

(* Types.                                                                  *)
Information  == [ino : Objects, kind : Kinds, size : Nat, at : Nat]
Part         == Objects \X Nat
Frames       == [path : Seq(Names), dir : Objects, information : Information,
                 unlisted : SUBSET Names, names : SUBSET Names]
Observations == [dir : Objects, name : Names \cup {Self}, information : Information,
                 directory : Objects \cup {Nowhere}, text : Seq(Part)]
Comparisons  == [dir : Objects, name : Names \cup {Self}, information : Information]
HereAt       == [dir : Objects, name : Names, path : Seq(Names), information : Information,
                 handle : Objects \cup {Nowhere}, data : Seq(Part)]
Entries      == [path : Seq(Names), kind : Kinds, data : Seq(Part)]

(* Where an object is at hand, where directories are being read, and where *)
(* the reader looks again.                                                 *)
AtHand  == {"openDirectory", "openFile", "readFile", "charge", "readLink"}
Inside  == {"openList", "list", "walk", "collect"} \cup AtHand
Reading == Inside \cup {"validate"}
Looking == {"again", "linkAgain", "ok"}

TypeOK ==
  /\ node \in [Objects -> Nodes] /\ then \in [Objects -> Nodes]
  /\ selection \in Selections /\ Selectable(selection)
  /\ pc \in {"observeRoot", "openRoot", "error"} \cup Reading \cup Looking
  /\ checks \in Seq(Comparisons) /\ root \in Objects \cup {Nowhere}
  /\ stack \in Seq(Frames) /\ seen \in Seq(Observations)
  /\ pc \in AtHand \cup {"openRoot"} => here \in HereAt
  /\ entries \subseteq Entries
  /\ bytes \in Nat /\ reserved \in Nat /\ changes \in Nat

(* The file system: a later change has a later time, and what was there    *)
(* when the reader began to look again is what is there, or has changed.   *)
WorldInv ==
  /\ ChildlessLeaves(node) /\ Shallow(node)
  /\ \A i \in Objects : /\ node[i].at <= changes /\ then[i].at <= node[i].at
                        /\ then[i].at = node[i].at => then[i] = node[i]

(* An observation tells what the object was when it had that time.         *)
Tells(fs, information) ==
  LET i == information.ino
  IN  /\ information.at <= fs[i].at
      /\ information.at = fs[i].at =>
           information = [ino |-> i, kind |-> fs[i].kind, size |-> fs[i].size, at |-> fs[i].at]

Told(fs, s) == \A k \in DOMAIN s : Tells(fs, s[k].information)

ToldInv ==
  /\ Told(node, seen) /\ Told(node, checks) /\ Told(node, stack)
  /\ pc \in AtHand \cup {"openRoot"} => Tells(node, here.information)
  /\ pc \in Looking => Told(then, seen) /\ Told(then, checks)

(* Where the reader is, what is at hand there, and what is still to be     *)
(* listed and read.                                                        *)
PlaceShape ==
  /\ pc \in Inside <=> stack # <<>>
  /\ pc \in Reading => root \in Objects
  /\ pc \in Reading \cup {"linkAgain"} => seen # <<>>
  /\ pc \in {"openList", "list", "walk"} => Administrative
  /\ pc \in {"collect", "readLink"} => ~Administrative

HereShape ==
  /\ pc = "openRoot" => here.path = <<>>
  /\ pc \in {"openRoot", "openDirectory"} => here.information.kind = "dir"
  /\ pc \in {"openFile", "readFile", "charge"} => here.information.kind = "file"
  /\ pc = "readLink" => here.information.kind = "link"
  /\ pc = "openFile" => here.data = <<>>
  /\ pc \in {"readFile", "charge"} => Len(here.data) <= here.information.size /\ here.handle \in Objects
  /\ pc = "charge" => Len(here.data) = here.information.size
  /\ pc \in AtHand => /\ here.dir = Inner.dir /\ here.path = Append(Inner.path, here.name)
                      /\ Wanted(here.path)

ListShape ==
  \A k \in DOMAIN stack :
    /\ Administrative => stack[k].unlisted = {} \/ (pc \in {"openList", "list"} /\ k = Len(stack))
    /\ \A n \in stack[k].names : Wanted(Append(stack[k].path, n))

EntriesWanted == \A e \in entries : Wanted(e.path)

ShapeInv == PlaceShape /\ HereShape /\ ListShape /\ EntriesWanted

--------------------------------------------------------------------------------
(* The reader is not deceived: nothing it observed has changed, and the    *)
(* handles it still has to compare are of what it observed.                *)
SeenObjects == {seen[k].information.ino : k \in DOMAIN seen}

Undeceived ==
  /\ \A k \in DOMAIN seen : node[seen[k].information.ino].at = seen[k].information.at
  /\ \A k \in DOMAIN checks : checks[k].name = Self => checks[k].dir = checks[k].information.ino

(* A path leads to an object through objects that were observed.           *)
Leads(fs, from, objects, path, i) ==
  \E c \in [0..Len(path) -> objects] :
    /\ c[0] = from /\ c[Len(path)] = i
    /\ \A k \in 1..Len(path) : fs[c[k - 1]].child[path[k]] = c[k]

LedTo(path, i) == Leads(node, root, SeenObjects, path, i)

(* What the reader has still to do in a directory, and the paths it has    *)
(* read or is reading.                                                     *)
Left(f) == f.names \cup (IF Administrative THEN f.unlisted ELSE {})

PathsOfEntries == {e.path : e \in entries}
Read == PathsOfEntries \cup (IF pc \in AtHand THEN {here.path} ELSE {})

(* Every name wanted in directory i has been, is, or will be read.         *)
Complete(path, i, read, left) ==
  \A n \in Names : node[i].child[n] # Nowhere /\ Wanted(Append(path, n)) =>
                     n \in left \/ Append(path, n) \in read

FrameGood(f) == f.dir = f.information.ino /\ LedTo(f.path, f.dir) /\ Complete(f.path, f.dir, Read, Left(f))

FramesGood == \A k \in DOMAIN stack : FrameGood(stack[k])

HereGood ==
  pc \in AtHand =>
    /\ node[here.dir].child[here.name] = here.information.ino
    /\ pc \in {"readFile", "charge"} =>
         /\ here.handle = here.information.ino
         /\ \A k \in DOMAIN here.data : /\ here.data[k][1] = here.information.ino
                                        /\ here.information.at <= here.data[k][2]
                                        /\ here.data[k][2] <= node[here.information.ino].at

EntryGood(e) ==
  \E i \in SeenObjects : LedTo(e.path, i) /\ e.kind = node[i].kind /\ e.data = Contents(node, i)

EntriesGood == \A e \in entries : EntryGood(e)

(* The directories that were entered and were not left have a frame, the   *)
(* others are settled.                                                     *)
Entered == {<<>>} \cup {e.path : e \in {x \in entries : x.kind = "dir"}}

Settled(path) == \E i \in SeenObjects : LedTo(path, i) /\ Complete(path, i, PathsOfEntries, {})

LeftGood == \A path \in Entered : (\E k \in DOMAIN stack : stack[k].path = path) \/ Settled(path)

RootGood == root = seen[1].information.ino /\ (Administrative => <<>> \in PathsOfEntries)

(* What was read so far is a part of the tree there is.                    *)
Good == RootGood /\ FramesGood /\ HereGood /\ EntriesGood /\ LeftGood

ReadInv == pc \in Reading /\ Undeceived => Good

(* What is still to be looked at decides whether it is the tree there was. *)
Unchanged(fs, s) == \A k \in DOMAIN s : fs[s[k].information.ino].at = s[k].information.at

AgainInv ==
  /\ pc \in Looking /\ Unchanged(then, seen) /\ Unchanged(then, checks) => entries = TreeOf(then)
  /\ pc = "ok" => seen = <<>> /\ checks = <<>>

--------------------------------------------------------------------------------
(* The limits.  What is still to be read of a file was free when it was    *)
(* opened.                                                                 *)
BytesInv ==
  /\ bytes <= MaxBytes
  /\ pc \in {"readFile", "charge"} => bytes + here.information.size <= MaxBytes
  /\ IsFiniteSet(Parts) /\ Cardinality(Parts) <= bytes

(* The names that wait to be read in the directories being read, and the   *)
(* paths they give.                                                        *)
Waiting(frames) == {w \in (DOMAIN frames) \X Names : w[2] \in frames[w[1]].names}

PathOf(frames, w) == Append(frames[w[1]].path, w[2])

(* ReadAdministrative: every name that was, is or will be read has its     *)
(* reservation.                                                            *)
Reservations == Cardinality(entries) + Cardinality(Waiting(stack)) + (IF pc \in AtHand THEN 1 ELSE 0)

ReservedInv ==
  /\ 1 <= reserved /\ reserved <= MaxEntries
  /\ Administrative => IsFiniteSet(entries) /\ Reservations <= reserved

(* ReadUntracked: no selected path is read twice.  The paths that wait lie *)
(* apart, and nothing was read of them or below them.                      *)
ApartFrom(p, q) == ~IsPrefix(p, q) /\ ~IsPrefix(q, p)

Untouched(read, path) == \A e \in read : ~IsPrefix(path, e.path)

WaitOnce(frames, read) ==
  \A v \in Waiting(frames) :
    /\ Untouched(read, PathOf(frames, v))
    /\ \A w \in Waiting(frames) : v # w => ApartFrom(PathOf(frames, v), PathOf(frames, w))

HereOnce(frames, read, path) ==
  /\ Untouched(read, path)
  /\ \A w \in Waiting(frames) : ApartFrom(PathOf(frames, w), path)

OnceInv ==
  ~Administrative =>
    /\ \A e, f \in entries : e.path = f.path => e = f
    /\ WaitOnce(stack, entries)
    /\ pc \in AtHand => HereOnce(stack, entries, here.path)

--------------------------------------------------------------------------------
(* Numbers, sequences and names.                                           *)
LEMMA LeastNatural ==
  ASSUME NEW T \in SUBSET Nat, T # {}
  PROVE  \E m \in T : \A k \in T : m <= k
<1>1. \E m \in T : \A k \in T : <<k, m>> \notin OpToRel(<, Nat)
  BY NatLessThanWellFounded, WFMin
<1>2. PICK m \in T : \A k \in T : <<k, m>> \notin OpToRel(<, Nat)
  BY <1>1
<1>3. \A k \in T : k < m => <<k, m>> \in OpToRel(<, Nat)
  BY DEF OpToRel
<1>4. \A k \in T : ~(k < m)
  BY <1>2, <1>3
<1>5. \A k \in T : k \in Nat /\ m \in Nat
  OBVIOUS
<1>6. \A k \in T : m <= k
  BY <1>4, <1>5
<1>. QED BY <1>6

(* What holds first and is handed on holds everywhere.                     *)
LEMMA HandedOn ==
  ASSUME NEW S, NEW n \in Nat, 0 \in S, \A k \in 0..n : k # n /\ k \in S => k + 1 \in S
  PROVE  0..n \subseteq S
<1>. DEFINE T == {k \in 0..n : k \notin S}
<1>. SUFFICES ASSUME T # {} PROVE FALSE
  OBVIOUS
<1>1. PICK m \in T : \A k \in T : m <= k
  <2>1. T \in SUBSET Nat
    OBVIOUS
  <2>. HIDE DEF T
  <2>. QED BY <2>1, LeastNatural
<1>2. m # 0 /\ m \in 0..n /\ m \notin S
  BY <1>1
<1>3. m - 1 \in 0..n /\ m - 1 # n /\ m - 1 \notin T
  <2>1. m - 1 \in 0..n /\ m - 1 # n /\ ~(m <= m - 1)
    BY <1>2
  <2>. HIDE DEF T
  <2>. QED BY <2>1, <1>1
<1>4. m - 1 \in S
  BY <1>3
<1>5. (m - 1) + 1 \in S
  BY <1>3, <1>4
<1>. QED BY <1>2, <1>5

LEMMA MinIsThere ==
  ASSUME NEW S \in SUBSET Names, S # {}
  PROVE  Min(S) \in S
<1>1. S \in SUBSET Nat
  BY TreeReadAssumption
<1>2. \E m \in S : \A k \in S : m <= k
  BY <1>1, LeastNatural
<1>. QED BY <1>2 DEF Min

LEMMA LastOf ==
  ASSUME NEW S, NEW s \in Seq(S), s # <<>>
  PROVE  /\ Len(s) \in Nat \ {0} /\ Last(s) = s[Len(s)] /\ Last(s) \in S
         /\ Front(s) \in Seq(S) /\ Len(Front(s)) = Len(s) - 1
         /\ \A k \in 1..(Len(s) - 1) : Front(s)[k] = s[k]
<1>1. Len(s) \in Nat \ {0} /\ \A k \in 1..Len(s) : s[k] \in S
  BY EmptySeq
<1>2. Len(s) - 1 \in Int /\ 1 \in Int /\ \A k \in 1..(Len(s) - 1) : s[k] \in S
  BY <1>1
<1>3. /\ Front(s) \in Seq(S)
      /\ Len(Front(s)) = IF 1 <= Len(s) - 1 THEN (Len(s) - 1) - 1 + 1 ELSE 0
      /\ \A k \in 1..((Len(s) - 1) - 1 + 1) : Front(s)[k] = s[1 + k - 1]
  BY <1>2, SubSeqProperties DEF Front
<1>4. ASSUME NEW n \in Nat \ {0}
      PROVE  /\ ~(1 <= n - 1) => n - 1 = 0
             /\ (n - 1) - 1 + 1 = n - 1
             /\ \A k \in 1..(n - 1) : 1 + k - 1 = k
  OBVIOUS
<1>5. Len(Front(s)) = Len(s) - 1
  BY <1>1, <1>3, <1>4
<1>6. \A k \in 1..(Len(s) - 1) : Front(s)[k] = s[k]
  BY <1>1, <1>3, <1>4
<1>7. Last(s) = s[Len(s)] /\ Last(s) \in S
  BY <1>1 DEF Last
<1>. QED BY <1>1, <1>3, <1>5, <1>6, <1>7

LEMMA NewLast ==
  ASSUME NEW S, NEW s \in Seq(S), s # <<>>, NEW f \in S
  PROVE  LET t == Append(Front(s), f)
         IN  /\ t \in Seq(S) /\ Len(t) = Len(s) /\ t # <<>> /\ t[Len(s)] = f
             /\ Last(t) = f
             /\ \A k \in 1..Len(s) : k # Len(s) => t[k] = s[k]
<1>1. /\ Len(s) \in Nat \ {0} /\ Front(s) \in Seq(S) /\ Len(Front(s)) = Len(s) - 1
      /\ \A k \in 1..(Len(s) - 1) : Front(s)[k] = s[k]
  BY LastOf
<1>. QED BY <1>1 DEF Last

LEMMA Appended ==
  ASSUME NEW S, NEW s \in Seq(S), NEW f \in S
  PROVE  LET t == Append(s, f)
         IN  /\ t \in Seq(S) /\ Len(t) = Len(s) + 1 /\ t # <<>> /\ t[Len(s) + 1] = f
             /\ Last(t) = f
             /\ DOMAIN t = 1..(Len(s) + 1) /\ DOMAIN s = 1..Len(s)
             /\ \A k \in 1..Len(s) : t[k] = s[k]
BY DEF Last

LEMMA TailOf ==
  ASSUME NEW S, NEW s \in Seq(S), s # <<>>
  PROVE  /\ Tail(s) \in Seq(S) /\ Head(s) \in S /\ Head(s) = s[1] /\ 1 \in DOMAIN s
         /\ \A k \in DOMAIN Tail(s) : k + 1 \in DOMAIN s /\ Tail(s)[k] = s[k + 1]
         /\ \A k \in DOMAIN s : k # 1 => k - 1 \in DOMAIN Tail(s) /\ Tail(s)[k - 1] = s[k]
OBVIOUS

--------------------------------------------------------------------------------
(* Ways through a file system.                                             *)
Place == Objects \cup {Nowhere}

Child(fs, i, n) == IF i = Nowhere THEN Nowhere ELSE fs[i].child[n]

Way(fs, from, path, c) ==
  /\ c \in [0..Len(path) -> Place] /\ c[0] = from
  /\ \A k \in 1..Len(path) : c[k] = Child(fs, c[k - 1], path[k])

LEMMA ChildType ==
  ASSUME NEW fs \in [Objects -> Nodes], NEW i \in Place, NEW n \in Names
  PROVE  Child(fs, i, n) \in Place
BY DEF Child, Place, Nodes

(* The way decides where a path leads.                                     *)
LEMMA WayIsReached ==
  ASSUME NEW fs, NEW from, NEW path \in Seq(Names), NEW c, Way(fs, from, path, c)
  PROVE  Reached(fs, from, path) = c[Len(path)]
<1>. DEFINE n == Len(path)
            Down(d) == d = [k \in 0..n |-> IF k = 0 THEN from
                                           ELSE IF d[k - 1] = Nowhere THEN Nowhere
                                           ELSE fs[d[k - 1]].child[path[k]]]
            w == CHOOSE d : Down(d)
<1>1. n \in Nat
  OBVIOUS
<1>2. Down(c)
  BY <1>1 DEF Way, Child
<1>3. Down(w)
  BY <1>2
<1>4. Reached(fs, from, path) = w[n]
  BY DEF Reached
<1>. DEFINE S == {k \in 0..n : w[k] = c[k]}
<1>. HIDE DEF w
<1>5. 0 \in S
  BY <1>1, <1>2, <1>3
<1>6. ASSUME NEW k \in 0..n, k # n, k \in S PROVE k + 1 \in S
  <2>1. k + 1 \in 0..n /\ k + 1 # 0 /\ (k + 1) - 1 = k /\ w[k] = c[k]
    BY <1>1, <1>6
  <2>2. /\ w[k + 1] = IF w[k] = Nowhere THEN Nowhere ELSE fs[w[k]].child[path[k + 1]]
        /\ c[k + 1] = IF c[k] = Nowhere THEN Nowhere ELSE fs[c[k]].child[path[k + 1]]
    <3>1. ASSUME NEW d, Down(d)
          PROVE  d[k + 1] = IF d[(k + 1) - 1] = Nowhere THEN Nowhere
                            ELSE fs[d[(k + 1) - 1]].child[path[k + 1]]
      BY <2>1, <3>1
    <3>. HIDE DEF Down
    <3>. QED BY <1>2, <1>3, <2>1, <3>1
  <2>. QED BY <2>1, <2>2
<1>7. 0..n \subseteq S
  <2>. HIDE DEF S, n
  <2>. QED BY <1>1, <1>5, <1>6, HandedOn
<1>8. n \in S
  BY <1>1, <1>7
<1>. QED BY <1>4, <1>8

LEMMA WayExists ==
  ASSUME NEW fs \in [Objects -> Nodes], NEW from \in Place, NEW path \in Seq(Names)
  PROVE  \E c : Way(fs, from, path, c)
<1>. DEFINE n == Len(path)
            Leg(m, c) == /\ c \in [0..m -> Place] /\ c[0] = from
                         /\ \A k \in 1..m : c[k] = Child(fs, c[k - 1], path[k])
            S == {m \in 0..n : \E c : Leg(m, c)}
<1>1. n \in Nat
  OBVIOUS
<1>2. 0 \in S
  <2>1. Leg(0, [k \in 0..0 |-> from])
    OBVIOUS
  <2>. HIDE DEF Leg
  <2>. QED BY <1>1, <2>1
<1>3. ASSUME NEW m \in 0..n, m # n, m \in S PROVE m + 1 \in S
  <2>1. PICK c : Leg(m, c)
    BY <1>3
  <2>. DEFINE d == [k \in 0..(m + 1) |-> IF k = m + 1 THEN Child(fs, c[m], path[m + 1]) ELSE c[k]]
  <2>2. m \in Nat /\ m + 1 \in 1..n /\ path[m + 1] \in Names /\ c[m] \in Place
    BY <1>1, <1>3, <2>1
  <2>3. Child(fs, c[m], path[m + 1]) \in Place
    BY <2>2, ChildType
  <2>4. d \in [0..(m + 1) -> Place] /\ d[0] = from
    BY <2>1, <2>2, <2>3
  <2>5. ASSUME NEW k \in 1..(m + 1) PROVE d[k] = Child(fs, d[k - 1], path[k])
    <3>1. CASE k = m + 1
      BY <2>2, <3>1
    <3>2. CASE k # m + 1
      <4>1. k \in 1..m /\ k - 1 \in 0..(m + 1) /\ k - 1 # m + 1 /\ k \in 0..(m + 1)
        BY <2>2, <3>2
      <4>. QED BY <2>1, <3>2, <4>1
    <3>. QED BY <3>1, <3>2
  <2>6. Leg(m + 1, d)
    BY <2>4, <2>5
  <2>. HIDE DEF Leg, d
  <2>7. m + 1 \in 0..n
    BY <2>2
  <2>. QED BY <2>6, <2>7
<1>4. 0..n \subseteq S
  <2>. HIDE DEF S, n
  <2>. QED BY <1>1, <1>2, <1>3, HandedOn
<1>5. n \in S
  BY <1>1, <1>4
<1>. QED BY <1>5 DEF Way

(* A way that is nowhere stays nowhere.                                    *)
LEMMA NowhereStays ==
  ASSUME NEW fs, NEW from, NEW path \in Seq(Names), NEW c, Way(fs, from, path, c),
         NEW j \in 0..Len(path), c[j] = Nowhere
  PROVE  c[Len(path)] = Nowhere
<1>. DEFINE n == Len(path)
            S == {k \in 0..n : k >= j => c[k] = Nowhere}
<1>1. n \in Nat /\ j \in 0..n
  OBVIOUS
<1>2. 0 \in S
  <2>1. j = 0 => c[0] = Nowhere
    OBVIOUS
  <2>. QED BY <1>1, <2>1
<1>3. ASSUME NEW k \in 0..n, k # n, k \in S PROVE k + 1 \in S
  <2>1. k + 1 \in 1..n /\ k + 1 \in 0..n /\ (k + 1) - 1 = k
    BY <1>1, <1>3
  <2>2. c[k + 1] = Child(fs, c[k], path[k + 1])
    BY <2>1 DEF Way
  <2>3. CASE k >= j
    BY <1>3, <2>1, <2>2, <2>3 DEF Child
  <2>4. CASE ~(k >= j)
    <3>1. k + 1 >= j => k + 1 = j
      BY <1>1, <2>1, <2>4
    <3>. QED BY <2>1, <3>1
  <2>. QED BY <2>3, <2>4
<1>4. 0..n \subseteq S
  <2>. HIDE DEF S, n
  <2>. QED BY <1>1, <1>2, <1>3, HandedOn
<1>5. n \in S /\ n >= j
  BY <1>1, <1>4
<1>. QED BY <1>5

--------------------------------------------------------------------------------
(* Types of the parts.                                                     *)
LEMMA LookType ==
  ASSUME TypeOK, NEW d \in Objects, NEW n \in Names \cup {Self}
  PROVE  Look(d, n) \in Place /\ (n \in Names => Look(d, n) = node[d].child[n])
<1>1. n \in Names => n # Self
  BY TreeReadAssumption
<1>. QED BY <1>1 DEF Look, TypeOK, Nodes, Place

LEMMA StatType == ASSUME TypeOK, NEW i \in Objects PROVE Stat(i) \in Information
BY DEF Stat, TypeOK, Nodes, Information

LEMMA CompareType ==
  ASSUME NEW d \in Objects, NEW n \in Names \cup {Self}, NEW information \in Information
  PROVE  Compare(d, n, information) \in Comparisons
BY DEF Compare, Comparisons

LEMMA OpensType ==
  ASSUME TypeOK, NEW d \in Objects, NEW n \in Names
  PROVE  Opens(d, n) \subseteq Objects
BY LookType DEF Opens, Place

LEMMA ContentsType ==
  ASSUME NEW fs \in [Objects -> Nodes], NEW i \in Objects
  PROVE  Contents(fs, i) \in Seq(Part)
<1>1. fs[i].size \in Nat /\ <<i, fs[i].at>> \in Part
  BY DEF Nodes, Part
<1>2. [k \in 1..fs[i].size |-> <<i, fs[i].at>>] \in [1..fs[i].size -> Part]
  BY <1>1
<1>3. [k \in 1..fs[i].size |-> <<i, fs[i].at>>] \in Seq(Part)
  <2>. DEFINE f == [k \in 1..fs[i].size |-> <<i, fs[i].at>>]
  <2>. HIDE DEF f
  <2>1. f \in [1..fs[i].size -> Part]
    BY <1>2 DEF f
  <2>2. f \in Seq(Part)
    BY <1>1, <2>1, SeqDef
  <2>. QED BY <2>2 DEF f
<1>. QED BY <1>3 DEF Contents

LEMMA FoundType ==
  ASSUME TypeOK, NEW d \in Objects, NEW n \in Names, NEW path \in Seq(Names), Look(d, n) # Nowhere
  PROVE  /\ Found(d, n, path) \in HereAt
         /\ LET h == Found(d, n, path)
            IN  /\ h.dir = d /\ h.name = n /\ h.path = path /\ h.data = <<>>
                /\ h.information = Stat(Look(d, n)) /\ h.information.ino = Look(d, n)
                /\ Look(d, n) \in Objects
<1>1. Look(d, n) \in Objects
  BY LookType DEF Place
<1>2. Stat(Look(d, n)) \in Information
  BY <1>1, StatType
<1>. QED BY <1>1, <1>2 DEF Found, HereAt, Stat

LEMMA InnerOf ==
  ASSUME TypeOK, stack # <<>>
  PROVE  /\ Len(stack) \in Nat \ {0} /\ Len(stack) \in DOMAIN stack /\ Inner = stack[Len(stack)]
         /\ Inner \in Frames /\ DOMAIN stack = 1..Len(stack)
BY LastOf DEF Inner, TypeOK

(* The checks before an opened directory or file is used.                  *)
LEMMA TwoChecks ==
  ASSUME NEW c \in Comparisons, NEW d \in Comparisons
  PROVE  /\ <<c, d>> \in Seq(Comparisons) /\ DOMAIN <<c, d>> = {1, 2}
         /\ <<c, d>>[1] = c /\ <<c, d>>[2] = d
OBVIOUS

LEMMA OneCheck ==
  ASSUME NEW c \in Comparisons
  PROVE  <<c>> \in Seq(Comparisons) /\ DOMAIN <<c>> = {1} /\ <<c>>[1] = c
OBVIOUS

--------------------------------------------------------------------------------
(* Others.                                                                 *)
LEMMA ReadsFrame == Reads => UNCHANGED <<node, changes, selection>> /\ then' \in {then, node}
BY DEF Reads, Fail, Check, ObserveRoot, OpenRoot, OpenList, ListName, EndList, Walk, Collect,
       Observe, Leave, OpenDirectory, OpenFile, ReadPart, ReadEnd, Charge, ReadLink, Validate,
       Revalidate, ReadLinkAgain, Return

(* One object is changed, at a new time.                                   *)
Changed(d) ==
  /\ UNCHANGED reader /\ pc \notin Finished
  /\ changes' = changes + 1 /\ node' \in [Objects -> Nodes]
  /\ node'[d].at = changes + 1 /\ node'[d].kind = node[d].kind
  /\ \A i \in Objects \ {d} : node'[i] = node[i]

LEMMA WriteChanges ==
  ASSUME TypeOK, NEW i \in Objects, NEW size \in 0..MaxSize, Write(i, size)
  PROVE  Changed(i) /\ \A j \in Objects : node'[j].child = node[j].child
<1>1. size \in Nat /\ changes + 1 \in Nat
  BY TreeReadAssumption DEF TypeOK
<1>2. node' = [node EXCEPT ![i] = [node[i] EXCEPT !.size = size, !.at = changes + 1]]
  BY DEF Write, Change, TypeOK
<1>3. [node[i] EXCEPT !.size = size, !.at = changes + 1] \in Nodes
  BY <1>1 DEF Nodes, TypeOK
<1>4. node' \in [Objects -> Nodes]
  BY <1>2, <1>3 DEF TypeOK
<1>5. node'[i] = [node[i] EXCEPT !.size = size, !.at = changes + 1] /\ node[i] \in Nodes
  BY <1>2 DEF TypeOK
<1>6. node'[i].at = changes + 1 /\ node'[i].kind = node[i].kind /\ node'[i].child = node[i].child
  BY <1>5 DEF Nodes
<1>7. \A j \in Objects \ {i} : node'[j] = node[j]
  BY <1>2 DEF TypeOK
<1>8. UNCHANGED reader /\ pc \notin Finished /\ changes' = changes + 1
  BY DEF Write, Change
<1>. QED BY <1>4, <1>6, <1>7, <1>8 DEF Changed

LEMMA UnlinkChanges ==
  ASSUME TypeOK, NEW d \in Objects, NEW n \in Names, Unlink(d, n)
  PROVE  /\ Changed(d) /\ node[d].kind = "dir"
         /\ \A j \in Objects, m \in Names : node'[j].child[m] \in {node[j].child[m], Nowhere}
<1>1. changes + 1 \in Nat
  BY DEF TypeOK
<1>2. node' = [node EXCEPT ![d] = [node[d] EXCEPT !.child = [node[d].child EXCEPT ![n] = Nowhere],
                                                  !.at = changes + 1]]
  BY DEF Unlink, Change, TypeOK
<1>3. [node[d].child EXCEPT ![n] = Nowhere] \in [Names -> Objects \cup {Nowhere}]
  BY DEF Nodes, TypeOK
<1>4. [node[d] EXCEPT !.child = [node[d].child EXCEPT ![n] = Nowhere], !.at = changes + 1] \in Nodes
  BY <1>1, <1>3 DEF Nodes, TypeOK
<1>5. node' \in [Objects -> Nodes]
  BY <1>2, <1>4 DEF TypeOK
<1>6. /\ \A j \in Objects \ {d} : node'[j] = node[j]
      /\ node'[d].at = changes + 1 /\ node'[d].kind = node[d].kind
      /\ node'[d].child = [node[d].child EXCEPT ![n] = Nowhere]
  BY <1>2, <1>4 DEF Nodes, TypeOK
<1>7. \A m \in Names : node'[d].child[m] \in {node[d].child[m], Nowhere}
  BY <1>6 DEF Nodes, TypeOK
<1>. QED BY <1>5, <1>6, <1>7 DEF Unlink, Change, Changed

LEMMA PutChanges ==
  ASSUME TypeOK, NEW d \in Objects, NEW n \in Names, NEW i \in Objects, Put(d, n, i)
  PROVE  Changed(d) /\ node[d].kind = "dir" /\ Shallow(node')
<1>1. changes + 1 \in Nat
  BY DEF TypeOK
<1>2. node' = [node EXCEPT ![d] = [node[d] EXCEPT !.child = [node[d].child EXCEPT ![n] = i],
                                                  !.at = changes + 1]]
  BY DEF Put, Change, TypeOK
<1>3. node[d] \in Nodes /\ [node[d].child EXCEPT ![n] = i] \in [Names -> Objects \cup {Nowhere}]
  BY DEF Nodes, TypeOK
<1>4. [node[d] EXCEPT !.child = [node[d].child EXCEPT ![n] = i], !.at = changes + 1] \in Nodes
  BY <1>1, <1>3 DEF Nodes
<1>5. node' \in [Objects -> Nodes]
  BY <1>2, <1>4 DEF TypeOK
<1>6. /\ \A j \in Objects \ {d} : node'[j] = node[j]
      /\ node'[d].at = changes + 1 /\ node'[d].kind = node[d].kind
  BY <1>2, <1>4 DEF Nodes, TypeOK
<1>. QED BY <1>5, <1>6 DEF Put, Change, Changed

LEMMA OthersChange ==
  ASSUME TypeOK, Others
  PROVE  \E d \in Objects : Changed(d)
BY WriteChanges, UnlinkChanges, PutChanges DEF Others

(* A tree with fewer names is not deeper.                                  *)
LEMMA FewerChildren ==
  ASSUME NEW fs \in [Objects -> Nodes], NEW gs \in [Objects -> Nodes], Shallow(fs),
         \A i \in Objects : gs[i].kind = fs[i].kind,
         \A i \in Objects, n \in Names : gs[i].child[n] \in {fs[i].child[n], Nowhere}
  PROVE  Shallow(gs)
<1>. SUFFICES ASSUME NEW i \in Objects, gs[i].kind = "dir", NEW path \in [1..MaxDepth + 1 -> Names],
                     Reached(gs, i, path) # Nowhere
              PROVE  FALSE
  BY DEF Shallow
<1>1. path \in Seq(Names) /\ i \in Place
  BY TreeReadAssumption DEF Place
<1>2. PICK c : Way(gs, i, path, c)
  BY <1>1, WayExists
<1>3. c[Len(path)] # Nowhere
  BY <1>1, <1>2, WayIsReached
<1>4. \A j \in 0..Len(path) : c[j] \in Objects
  <2>1. \A j \in 0..Len(path) : c[j] # Nowhere
    BY <1>1, <1>2, <1>3, NowhereStays
  <2>. QED BY <1>2, <2>1 DEF Way, Place
<1>5. ASSUME NEW k \in 1..Len(path) PROVE c[k] = Child(fs, c[k - 1], path[k])
  <2>1. k - 1 \in 0..Len(path) /\ k \in 0..Len(path) /\ path[k] \in Names
    <3>1. Len(path) \in Nat /\ path[k] \in Names
      BY <1>1, ElementOfSeq, LenProperties
    <3>. QED BY <3>1
  <2>2. c[k - 1] \in Objects /\ c[k] \in Objects
    BY <1>4, <2>1
  <2>3. c[k - 1] # Nowhere /\ c[k] # Nowhere
    BY <2>2, TreeReadAssumption
  <2>4. c[k] = gs[c[k - 1]].child[path[k]]
    BY <1>2, <2>3 DEF Way, Child
  <2>. QED BY <2>1, <2>2, <2>3, <2>4 DEF Child
<1>6. Way(fs, i, path, c)
  BY <1>2, <1>5 DEF Way
<1>7. Reached(fs, i, path) # Nowhere
  BY <1>1, <1>3, <1>6, WayIsReached
<1>. QED BY <1>7 DEF Shallow

LEMMA WorldStep == TypeOK /\ WorldInv /\ [Next]_vars => WorldInv'
<1>. SUFFICES ASSUME TypeOK, WorldInv, [Next]_vars PROVE WorldInv'
  OBVIOUS
<1>1. CASE Reads \/ UNCHANGED vars
  <2>1. UNCHANGED <<node, changes>> /\ then' \in {then, node}
    BY <1>1, ReadsFrame DEF vars, reader
  <2>2. ChildlessLeaves(node') /\ Shallow(node')
    BY <2>1 DEF WorldInv
  <2>3. ASSUME NEW i \in Objects
        PROVE  /\ node'[i].at <= changes' /\ then'[i].at <= node'[i].at
               /\ then'[i].at = node'[i].at => then'[i] = node'[i]
    <3>1. node[i].at \in Nat
      BY DEF TypeOK, Nodes
    <3>2. /\ node[i].at <= changes /\ then[i].at <= node[i].at
          /\ then[i].at = node[i].at => then[i] = node[i]
      BY DEF WorldInv
    <3>. QED BY <2>1, <3>1, <3>2
  <2>. QED BY <2>2, <2>3 DEF WorldInv
<1>2. CASE Others
  <2>1. PICK d \in Objects : Changed(d)
    BY <1>2, OthersChange
  <2>2. then' = then
    BY <2>1 DEF Changed, reader
  <2>3. \A i \in Objects : /\ node'[i].at <= changes' /\ then'[i].at <= node'[i].at
                           /\ then'[i].at = node'[i].at => then'[i] = node'[i]
    <3>1. ASSUME NEW i \in Objects
          PROVE  /\ node'[i].at <= changes' /\ then'[i].at <= node'[i].at
                 /\ then'[i].at = node'[i].at => then'[i] = node'[i]
      <4>1. /\ node[i].at \in Nat /\ then[i].at \in Nat /\ changes \in Nat
            /\ node[i].at <= changes /\ then[i].at <= node[i].at
        BY DEF TypeOK, Nodes, WorldInv
      <4>2. CASE i = d
        BY <2>1, <2>2, <4>1, <4>2 DEF Changed
      <4>3. CASE i # d
        BY <2>1, <2>2, <4>1, <4>3 DEF Changed, WorldInv
      <4>. QED BY <4>2, <4>3
    <3>. QED BY <3>1
  <2>4. ASSUME NEW e \in Objects, NEW n \in Names, Unlink(e, n)
        PROVE  ChildlessLeaves(node') /\ Shallow(node')
    <3>1. /\ Changed(e) /\ node[e].kind = "dir"
          /\ \A j \in Objects, m \in Names : node'[j].child[m] \in {node[j].child[m], Nowhere}
      BY <2>4, UnlinkChanges
    <3>2. \A j \in Objects : node'[j].kind = node[j].kind
      BY <3>1 DEF Changed
    <3>3. Shallow(node')
      BY <3>1, <3>2, FewerChildren DEF WorldInv, TypeOK, Changed
    <3>. QED BY <3>1, <3>2, <3>3 DEF WorldInv, ChildlessLeaves
  <2>5. ASSUME NEW e \in Objects, NEW size \in 0..MaxSize, Write(e, size)
        PROVE  ChildlessLeaves(node') /\ Shallow(node')
    <3>1. Changed(e) /\ \A j \in Objects : node'[j].child = node[j].child
      BY <2>5, WriteChanges
    <3>2. \A j \in Objects : node'[j].kind = node[j].kind
      BY <3>1 DEF Changed
    <3>3. \A j \in Objects, m \in Names : node'[j].child[m] \in {node[j].child[m], Nowhere}
      BY <3>1
    <3>4. Shallow(node')
      BY <3>1, <3>2, <3>3, FewerChildren DEF WorldInv, TypeOK, Changed
    <3>. QED BY <3>1, <3>2, <3>4 DEF WorldInv, ChildlessLeaves
  <2>6. ASSUME NEW e \in Objects, NEW i \in Objects, NEW n \in Names, Put(e, n, i)
        PROVE  ChildlessLeaves(node') /\ Shallow(node')
    <3>1. Changed(e) /\ node[e].kind = "dir" /\ Shallow(node')
      BY <2>6, PutChanges
    <3>. QED BY <3>1 DEF WorldInv, ChildlessLeaves, Changed
  <2>. QED BY <1>2, <2>3, <2>4, <2>5, <2>6 DEF Others, WorldInv
<1>. QED BY <1>1, <1>2 DEF Next

--------------------------------------------------------------------------------
(* The steps of the reader keep the types.                                 *)
LEMMA NewInner ==
  ASSUME TypeOK, stack # <<>>, NEW f \in Frames
  PROVE  LET t == InnerBecomes(f)
         IN  /\ t \in Seq(Frames) /\ t # <<>> /\ Len(t) = Len(stack) /\ DOMAIN t = DOMAIN stack
             /\ t[Len(stack)] = f /\ Last(t) = f
             /\ \A k \in DOMAIN stack : k # Len(stack) => t[k] = stack[k]
<1>1. stack \in Seq(Frames) /\ DOMAIN stack = 1..Len(stack)
  BY DEF TypeOK
<1>. DEFINE t == Append(Front(stack), f)
<1>2. /\ t \in Seq(Frames) /\ Len(t) = Len(stack) /\ t # <<>> /\ t[Len(stack)] = f
      /\ Last(t) = f
      /\ \A k \in 1..Len(stack) : k # Len(stack) => t[k] = stack[k]
  BY <1>1, NewLast, ZenonT(30)
<1>3. InnerBecomes(f) = t
  BY DEF InnerBecomes
<1>. HIDE DEF t
<1>4. DOMAIN t = DOMAIN stack
  BY <1>1, <1>2, LenProperties
<1>. QED BY <1>1, <1>2, <1>3, <1>4

LEMMA FrameType ==
  ASSUME TypeOK, here \in HereAt, NEW d \in Objects, NEW names \in SUBSET Names
  PROVE  /\ Frame(d, names) \in Frames
         /\ LET f == Frame(d, names)
            IN  /\ f.path = here.path /\ f.dir = d /\ f.information = here.information
                /\ f.unlisted = Names /\ f.names = names
BY DEF Frame, Frames, HereAt

LEMMA ChosenType == ASSUME NEW path PROVE Chosen(path) \in SUBSET Names
BY DEF Chosen

LEMMA ObservationType ==
  ASSUME NEW d \in Objects, NEW n \in Names \cup {Self}, NEW information \in Information,
         NEW directory \in Objects \cup {Nowhere}, NEW text \in Seq(Part)
  PROVE  /\ Observation(d, n, information, directory, text) \in Observations
         /\ Observation(d, n, information, directory, text).information = information
BY DEF Observation, Observations

LEMMA EntryType ==
  /\ Entry(<<>>, "dir", <<>>) \in Entries
  /\ \A path \in Seq(Names) : Entry(path, "dir", <<>>) \in Entries
  /\ \A path \in Seq(Names), kind \in Kinds, data \in Seq(Part) : Entry(path, kind, data) \in Entries
<1>1. \A path \in Seq(Names), kind \in Kinds, data \in Seq(Part) : Entry(path, kind, data) \in Entries
  BY DEF Entry, Entries
<1>2. <<>> \in Seq(Names) /\ <<>> \in Seq(Part) /\ "dir" \in Kinds
  BY DEF Kinds
<1>. QED BY <1>1, <1>2

(* What a step that takes the next name does.                              *)
LEMMA Observed ==
  ASSUME TypeOK, stack # <<>>, NEW kind, NEW next, Observe(kind, next)
  PROVE  \E n \in Inner.names :
           LET f == [Inner EXCEPT !.names = @ \ {n}]
           IN  /\ n = Min(Inner.names) /\ n \in Names /\ Look(Inner.dir, n) \in Objects
               /\ node[Inner.dir].child[n] = Look(Inner.dir, n)
               /\ node[Look(Inner.dir, n)].kind = kind
               /\ here' = Found(Inner.dir, n, Append(Inner.path, n)) /\ here' \in HereAt
               /\ f \in Frames /\ stack' = InnerBecomes(f)
               /\ f.path = Inner.path /\ f.dir = Inner.dir /\ f.information = Inner.information
               /\ f.unlisted = Inner.unlisted /\ f.names = Inner.names \ {n}
               /\ checks' = IF kind = "link" THEN <<Compare(Inner.dir, n, Stat(Look(Inner.dir, n)))>>
                            ELSE <<>>
<1>. DEFINE n == Min(Inner.names)
<1>1. Inner \in Frames
  BY InnerOf
<1>2. n \in Inner.names /\ n \in Names
  BY <1>1, MinIsThere DEF Observe, Frames
<1>3. Look(Inner.dir, n) # Nowhere /\ Inner.dir \in Objects /\ Inner.path \in Seq(Names)
  BY <1>1 DEF Observe, Frames
<1>4. Look(Inner.dir, n) \in Objects /\ node[Inner.dir].child[n] = Look(Inner.dir, n)
  BY <1>2, <1>3, LookType DEF Place
<1>5. node[Look(Inner.dir, n)].kind = kind
  BY DEF Observe, Stat
<1>6. Append(Inner.path, n) \in Seq(Names)
  BY <1>2, <1>3
<1>7. Found(Inner.dir, n, Append(Inner.path, n)) \in HereAt
  BY <1>2, <1>3, <1>6, FoundType
<1>8. LET f == [Inner EXCEPT !.names = @ \ {n}]
      IN  /\ f \in Frames /\ f.path = Inner.path /\ f.dir = Inner.dir
          /\ f.information = Inner.information
          /\ f.unlisted = Inner.unlisted /\ f.names = Inner.names \ {n}
  BY <1>1 DEF Frames
<1>. HIDE DEF n
<1>. QED BY <1>2, <1>4, <1>5, <1>7, <1>8 DEF Observe, n

(* What a step that lists the next name does.                              *)
LEMMA ListedFrame ==
  ASSUME TypeOK, stack # <<>>, Inner.unlisted # {}
  PROVE  LET n == Min(Inner.unlisted)
             listed == IF Look(Inner.dir, n) = Nowhere THEN {} ELSE {n}
             f == [Inner EXCEPT !.unlisted = @ \ {n}, !.names = @ \cup listed]
         IN  /\ n \in Inner.unlisted /\ n \in Names
             /\ listed \subseteq Names /\ Cardinality(listed) \in Nat
             /\ f \in Frames /\ f.path = Inner.path /\ f.dir = Inner.dir
             /\ f.information = Inner.information
             /\ f.unlisted = Inner.unlisted \ {n} /\ f.names = Inner.names \cup listed
<1>. DEFINE n == Min(Inner.unlisted)
            listed == IF Look(Inner.dir, n) = Nowhere THEN {} ELSE {n}
<1>1. Inner \in Frames
  BY InnerOf
<1>2. n \in Inner.unlisted /\ n \in Names
  BY <1>1, MinIsThere DEF Frames
<1>3. listed \subseteq Names /\ Cardinality(listed) \in Nat
  <2>1. listed = {} \/ listed = {n}
    OBVIOUS
  <2>2. n \in Names
    BY <1>2
  <2>. HIDE DEF n, listed
  <2>3. CASE listed = {}
    BY <2>3, FS_EmptySet
  <2>4. CASE listed = {n}
    <3>1. Cardinality({n}) = 1
      BY FS_Singleton
    <3>. QED BY <2>2, <2>4, <3>1
  <2>. QED BY <2>1, <2>3, <2>4
<1>. HIDE DEF n, listed
<1>4. LET f == [Inner EXCEPT !.unlisted = @ \ {n}, !.names = @ \cup listed]
      IN  /\ f \in Frames /\ f.path = Inner.path /\ f.dir = Inner.dir
          /\ f.information = Inner.information
          /\ f.unlisted = Inner.unlisted \ {n} /\ f.names = Inner.names \cup listed
  BY <1>1, <1>3 DEF Frames
<1>. QED BY <1>2, <1>3, <1>4 DEF n, listed

LEMMA ObserveKeepsType ==
  ASSUME TypeOK, stack # <<>>, NEW kind, NEW next \in AtHand, Observe(kind, next)
  PROVE  TypeOK'
<1>1. PICK n \in Inner.names :
        LET f == [Inner EXCEPT !.names = @ \ {n}]
        IN  /\ n \in Names /\ Look(Inner.dir, n) \in Objects
            /\ here' \in HereAt /\ f \in Frames /\ stack' = InnerBecomes(f)
            /\ checks' = IF kind = "link" THEN <<Compare(Inner.dir, n, Stat(Look(Inner.dir, n)))>>
                         ELSE <<>>
  BY Observed
<1>2. stack' \in Seq(Frames)
  BY <1>1, NewInner
<1>3. Compare(Inner.dir, n, Stat(Look(Inner.dir, n))) \in Comparisons
  BY <1>1, CompareType, StatType, InnerOf DEF Frames
<1>4. checks' \in Seq(Comparisons)
  BY <1>1, <1>3, OneCheck
<1>. QED BY <1>1, <1>2, <1>4 DEF TypeOK, Observe, AtHand, Reading, Inside

LEMMA ReadsKeepType == TypeOK /\ ShapeInv /\ Reads => TypeOK'
<1>. SUFFICES ASSUME TypeOK, ShapeInv, Reads PROVE TypeOK'
  OBVIOUS
<1>. USE DEF AtHand, Inside, Reading, Looking
<1>0. selection' = selection /\ Selectable(selection) => Selectable(selection)'
  BY DEF Selectable, Whole, NoneBelowAnother, WithParents, Paths
<1>1. CASE Fail
  BY <1>1, <1>0 DEF TypeOK, Fail
<1>2. CASE Check
  <2>1. Tail(checks) \in Seq(Comparisons)
    BY <1>2, TailOf DEF TypeOK, Check
  <2>. QED BY <1>2, <1>0, <2>1 DEF TypeOK, Check
<1>3. CASE ObserveRoot
  <2>1. <<>> \in Seq(Names) /\ Above \in Objects /\ Top \in Names
    BY TreeReadAssumption
  <2>2. here' \in HereAt
    BY <1>3, <2>1, FoundType DEF ObserveRoot
  <2>. QED BY <1>3, <1>0, <2>2 DEF TypeOK, ObserveRoot
<1>4. CASE OpenRoot
  <2>1. PICK opened \in Opens(Above, Top) :
       /\ checks' = <<Compare(opened, Self, here.information), Compare(Above, Top, here.information)>>
       /\ root' = opened
       /\ stack' = <<Frame(opened, Chosen(<<>>))>>
       /\ seen' = <<Observation(opened, Self, here.information, Nowhere, <<>>)>>
    BY <1>4 DEF OpenRoot
  <2>2. here \in HereAt /\ here.information \in Information
    BY <1>4 DEF TypeOK, OpenRoot, Ready, HereAt
  <2>3. opened \in Objects /\ Above \in Objects /\ Top \in Names
    BY OpensType, TreeReadAssumption
  <2>4. checks' \in Seq(Comparisons)
    BY <2>1, <2>2, <2>3, CompareType, TwoChecks
  <2>5. stack' \in Seq(Frames)
    <3>1. Frame(opened, Chosen(<<>>)) \in Frames
      BY <2>2, <2>3, FrameType, ChosenType
    <3>. QED BY <2>1, <3>1
  <2>6. seen' \in Seq(Observations)
    <3>1. <<>> \in Seq(Part)
      OBVIOUS
    <3>2. Observation(opened, Self, here.information, Nowhere, <<>>) \in Observations
      BY <2>2, <2>3, <3>1, ObservationType
    <3>. QED BY <2>1, <3>2, EmptySeq, AppendProperties
  <2>7. entries' \subseteq Entries
    <3>1. entries' \subseteq {Entry(<<>>, "dir", <<>>)}
      BY <1>4 DEF OpenRoot
    <3>. QED BY <3>1, EntryType
  <2>. QED BY <1>4, <1>0, <2>1, <2>3, <2>4, <2>5, <2>6, <2>7 DEF TypeOK, OpenRoot
<1>5. CASE OpenList \/ EndList
  <2>1. Inner.dir \in Objects /\ Inner.information \in Information
    BY <1>5, InnerOf DEF OpenList, EndList, Ready, ShapeInv, PlaceShape, HereShape, Frames
  <2>2. Compare(Inner.dir, Self, Inner.information) \in Comparisons
    BY <2>1, CompareType
  <2>3. checks' \in Seq(Comparisons)
    <3>1. CASE OpenList
      BY <2>2, <3>1, OneCheck DEF OpenList
    <3>2. CASE EndList
      <4>. DEFINE c == Compare(Inner.dir, Self, Inner.information)
      <4>1. checks' = [k \in 1..2 |-> c]
        BY <3>2 DEF EndList
      <4>. HIDE DEF c
      <4>2. [k \in 1..2 |-> c] \in Seq(Comparisons)
        BY <2>2, SeqDef DEF c
      <4>. QED BY <4>1, <4>2
    <3>. QED BY <1>5, <3>1, <3>2
  <2>. QED BY <1>5, <1>0, <2>3 DEF TypeOK, OpenList, EndList
<1>6. CASE ListName
  <2>. DEFINE n == Min(Inner.unlisted)
              listed == IF Look(Inner.dir, n) = Nowhere THEN {} ELSE {n}
              f == [Inner EXCEPT !.unlisted = @ \ {n}, !.names = @ \cup listed]
  <2>1. stack # <<>> /\ Inner.unlisted # {}
    BY <1>6 DEF ListName, Ready, ShapeInv, PlaceShape, HereShape
  <2>2. Cardinality(listed) \in Nat /\ f \in Frames
    BY <2>1, ListedFrame
  <2>5. stack' \in Seq(Frames) /\ reserved' = reserved + Cardinality(listed)
    <3>1. stack' = InnerBecomes(f)
      BY <1>6 DEF ListName
    <3>2. reserved' = reserved + Cardinality(listed)
      BY <1>6 DEF ListName
    <3>. HIDE DEF n, listed, f
    <3>. QED BY <2>1, <2>2, <3>1, <3>2, NewInner
  <2>. HIDE DEF n, listed, f
  <2>. QED BY <1>6, <1>0, <2>2, <2>5 DEF TypeOK, ListName
<1>7. CASE Walk
  <2>1. stack # <<>>
    BY <1>7 DEF Walk
  <2>. QED BY <1>7, <2>1, ObserveKeepsType DEF Walk
<1>8. CASE Collect
  <2>1. stack # <<>>
    BY <1>8 DEF Collect
  <2>. QED BY <1>8, <2>1, ObserveKeepsType DEF Collect
<1>9. CASE Leave
  <2>1. Front(stack) \in Seq(Frames)
    BY <1>9, LastOf DEF TypeOK, Leave
  <2>. QED BY <1>9, <1>0, <2>1 DEF TypeOK, Leave, EntriesNext, Ready
<1>10. CASE OpenDirectory
  <2>1. PICK child \in Opens(here.dir, here.name) :
       /\ checks' = <<Compare(child, Self, here.information),
                      Compare(here.dir, here.name, here.information)>>
       /\ stack' = Append(stack, Frame(child, Chosen(here.path)))
       /\ seen' = Append(seen, Observation(here.dir, here.name, here.information, child, <<>>))
    BY <1>10 DEF OpenDirectory
  <2>2. /\ here \in HereAt /\ here.information \in Information /\ here.dir \in Objects
        /\ here.name \in Names /\ here.path \in Seq(Names)
    BY <1>10 DEF TypeOK, OpenDirectory, Ready, HereAt
  <2>3. child \in Objects
    BY <2>2, OpensType
  <2>4. checks' \in Seq(Comparisons)
    BY <2>1, <2>2, <2>3, CompareType, TwoChecks
  <2>5. stack' \in Seq(Frames)
    <3>1. Frame(child, Chosen(here.path)) \in Frames
      BY <2>2, <2>3, FrameType, ChosenType
    <3>. QED BY <2>1, <3>1, AppendProperties DEF TypeOK
  <2>6. seen' \in Seq(Observations)
    <3>1. <<>> \in Seq(Part)
      OBVIOUS
    <3>2. Observation(here.dir, here.name, here.information, child, <<>>) \in Observations
      BY <2>2, <2>3, <3>1, ObservationType
    <3>. QED BY <2>1, <3>2, AppendProperties DEF TypeOK
  <2>7. entries' \subseteq Entries
    <3>1. entries' = entries \cup {Entry(here.path, "dir", <<>>)}
      BY <1>10 DEF OpenDirectory
    <3>. QED BY <2>2, <3>1, EntryType DEF TypeOK
  <2>. QED BY <1>10, <1>0, <2>4, <2>5, <2>6, <2>7 DEF TypeOK, OpenDirectory
<1>11. CASE OpenFile
  <2>1. PICK file \in Opens(here.dir, here.name) :
       /\ here' = [here EXCEPT !.handle = file]
       /\ checks' = <<Compare(file, Self, here.information),
                      Compare(here.dir, here.name, here.information)>>
    BY <1>11 DEF OpenFile
  <2>2. /\ here \in HereAt /\ here.information \in Information /\ here.dir \in Objects
        /\ here.name \in Names
    BY <1>11 DEF TypeOK, OpenFile, Ready, HereAt
  <2>3. file \in Objects
    BY <2>2, OpensType
  <2>4. checks' \in Seq(Comparisons)
    BY <2>1, <2>2, <2>3, CompareType, TwoChecks
  <2>5. here' \in HereAt
    BY <2>1, <2>2, <2>3 DEF HereAt
  <2>. QED BY <1>11, <1>0, <2>4, <2>5 DEF TypeOK, OpenFile
<1>12. CASE ReadPart
  <2>1. here \in HereAt /\ here.handle \in Objects
    BY <1>12 DEF TypeOK, ReadPart, Ready, ShapeInv, PlaceShape, HereShape
  <2>2. <<here.handle, node[here.handle].at>> \in Part
    BY <2>1 DEF TypeOK, Nodes, Part
  <2>3. Append(here.data, <<here.handle, node[here.handle].at>>) \in Seq(Part)
    BY <2>1, <2>2 DEF HereAt
  <2>4. here' \in HereAt
    BY <1>12, <2>1, <2>3 DEF ReadPart, HereAt
  <2>. QED BY <1>12, <1>0, <2>4 DEF TypeOK, ReadPart
<1>13. CASE ReadEnd
  <2>1. /\ here \in HereAt /\ here.information \in Information /\ here.dir \in Objects
        /\ here.name \in Names /\ here.handle \in Objects
    BY <1>13 DEF TypeOK, ReadEnd, Ready, HereAt, ShapeInv, PlaceShape, HereShape
  <2>2. checks' \in Seq(Comparisons)
    BY <1>13, <2>1, CompareType, TwoChecks DEF ReadEnd
  <2>. QED BY <1>13, <1>0, <2>1, <2>2 DEF TypeOK, ReadEnd
<1>14. CASE Charge
  <2>1. /\ here \in HereAt /\ here.information \in Information /\ here.dir \in Objects
        /\ here.name \in Names /\ here.path \in Seq(Names) /\ here.data \in Seq(Part)
    BY <1>14 DEF TypeOK, Charge, Ready, HereAt
  <2>2. seen' \in Seq(Observations)
    <3>1. <<>> \in Seq(Part)
      OBVIOUS
    <3>2. Observation(here.dir, here.name, here.information, Nowhere, <<>>) \in Observations
      BY <2>1, <3>1, ObservationType
    <3>. QED BY <1>14, <3>2, AppendProperties DEF TypeOK, Charge
  <2>3. entries' \subseteq Entries
    BY <1>14, <2>1 DEF Charge, Entry, Entries, Kinds, TypeOK
  <2>4. bytes' \in Nat
    BY <1>14, <2>1, LenProperties DEF TypeOK, Charge
  <2>. QED BY <1>14, <1>0, <2>2, <2>3, <2>4 DEF TypeOK, Charge, EntriesNext
<1>15. CASE ReadLink
  <2>1. /\ here \in HereAt /\ here.information \in Information /\ here.dir \in Objects
        /\ here.name \in Names /\ here.path \in Seq(Names)
    BY <1>15 DEF TypeOK, ReadLink, Ready, HereAt
  <2>2. Look(here.dir, here.name) \in Objects
    BY <1>15, <2>1, LookType DEF ReadLink, IsLink, Place
  <2>3. TextOf(here.dir, here.name) \in Seq(Part)
    BY <2>2, ContentsType DEF TextOf, TypeOK
  <2>4. seen' \in Seq(Observations)
    <3>1. seen' = Append(seen, Observation(here.dir, here.name, here.information, Nowhere,
                                           TextOf(here.dir, here.name)))
      BY <1>15 DEF ReadLink
    <3>2. Observation(here.dir, here.name, here.information, Nowhere,
                      TextOf(here.dir, here.name)) \in Observations
      BY <2>1, <2>3, ObservationType
    <3>. QED BY <3>1, <3>2, AppendProperties DEF TypeOK
  <2>5. entries' \subseteq Entries
    <3>1. entries' = entries \cup {Entry(here.path, "link", TextOf(here.dir, here.name))}
      BY <1>15 DEF ReadLink
    <3>. QED BY <2>1, <2>3, <3>1 DEF Entry, Entries, Kinds, TypeOK
  <2>6. checks' \in Seq(Comparisons)
    BY <1>15, <2>1, CompareType, OneCheck DEF ReadLink
  <2>. QED BY <1>15, <1>0, <2>4, <2>5, <2>6 DEF TypeOK, ReadLink
<1>16. CASE Validate
  <2>1. seen[1].information \in Information
    <3>1. seen # <<>> /\ seen \in Seq(Observations)
      BY <1>16 DEF Validate, Ready, ShapeInv, PlaceShape, HereShape, TypeOK
    <3>2. Head(seen) \in Observations /\ Head(seen) = seen[1]
      BY <3>1, TailOf
    <3>. QED BY <3>2 DEF Observations
  <2>2. seen' \in Seq(Observations)
    <3>1. <<>> \in Seq(Part)
      OBVIOUS
    <3>2. Observation(Above, Top, seen[1].information, Nowhere, <<>>) \in Observations
      BY <2>1, <3>1, ObservationType, TreeReadAssumption
    <3>. QED BY <1>16, <3>2, AppendProperties DEF TypeOK, Validate
  <2>. QED BY <1>16, <1>0, <2>2 DEF TypeOK, Validate
<1>17. CASE Revalidate
  <2>1. Head(seen) \in Observations /\ Tail(seen) \in Seq(Observations)
    BY <1>17, TailOf DEF Revalidate, TypeOK
  <2>2. Again(Head(seen)) \in Seq(Comparisons)
    <3>. DEFINE o == Head(seen)
    <3>1. Compare(o.dir, o.name, o.information) \in Comparisons
      BY <2>1, CompareType DEF Observations
    <3>2. o.directory # Nowhere => Compare(o.directory, Self, o.information) \in Comparisons
      BY <2>1, CompareType DEF Observations
    <3>. HIDE DEF o
    <3>. QED BY <3>1, <3>2, OneCheck DEF Again, o
  <2>. QED BY <1>17, <1>0, <2>1, <2>2 DEF TypeOK, Revalidate
<1>18. CASE ReadLinkAgain
  <2>1. seen # <<>>
    BY <1>18 DEF ShapeInv, PlaceShape, HereShape, ReadLinkAgain, Ready
  <2>2. Head(seen) \in Observations /\ Tail(seen) \in Seq(Observations)
    BY <2>1, TailOf DEF TypeOK
  <2>3. checks' \in Seq(Comparisons) /\ seen' = Tail(seen)
    BY <1>18, <2>2, CompareType, OneCheck DEF ReadLinkAgain, Observations
  <2>. QED BY <1>18, <1>0, <2>2, <2>3 DEF TypeOK, ReadLinkAgain
<1>19. CASE Return
  BY <1>19, <1>0 DEF TypeOK, Return
<1>. QED BY <1>1, <1>2, <1>3, <1>4, <1>5, <1>6, <1>7, <1>8, <1>9, <1>10, <1>11, <1>12, <1>13,
            <1>14, <1>15, <1>16, <1>17, <1>18, <1>19 DEF Reads

LEMMA TypeStep == TypeOK /\ ShapeInv /\ [Next]_vars => TypeOK'
<1>. SUFFICES ASSUME TypeOK, ShapeInv, [Next]_vars PROVE TypeOK'
  OBVIOUS
<1>1. CASE Reads
  BY <1>1, ReadsKeepType
<1>2. CASE Others
  <2>1. PICK d \in Objects : Changed(d)
    BY <1>2, OthersChange
  <2>2. changes' \in Nat /\ node' \in [Objects -> Nodes] /\ UNCHANGED reader
    BY <2>1 DEF Changed, TypeOK
  <2>. QED BY <2>2 DEF TypeOK, reader, Selectable, Whole, NoneBelowAnother, WithParents, Paths
<1>3. CASE UNCHANGED vars
  BY <1>3 DEF TypeOK, vars, reader, Selectable, Whole, NoneBelowAnother, WithParents, Paths
<1>. QED BY <1>1, <1>2, <1>3 DEF Next

--------------------------------------------------------------------------------
(* What was observed was so.                                               *)
LEMMA TellsNow == ASSUME NEW i \in Objects, node[i].at \in Nat PROVE Tells(node, Stat(i))
BY DEF Tells, Stat

LEMMA ToldAppend ==
  ASSUME NEW fs, NEW S, NEW s \in Seq(S), NEW f \in S, Told(fs, s), Tells(fs, f.information)
  PROVE  Told(fs, Append(s, f))
<1>1. /\ DOMAIN Append(s, f) = 1..(Len(s) + 1) /\ DOMAIN s = 1..Len(s) /\ Len(s) \in Nat
      /\ Append(s, f)[Len(s) + 1] = f /\ \A k \in 1..Len(s) : Append(s, f)[k] = s[k]
  BY AppendProperties, LenProperties
<1>. QED BY <1>1 DEF Told

LEMMA ToldInner ==
  ASSUME NEW fs, TypeOK, stack # <<>>, NEW f \in Frames, Told(fs, stack), f.information = Inner.information
  PROVE  Told(fs, InnerBecomes(f))
<1>. DEFINE t == InnerBecomes(f)
<1>1. /\ DOMAIN t = DOMAIN stack /\ t[Len(stack)] = f
      /\ \A k \in DOMAIN stack : k # Len(stack) => t[k] = stack[k]
  BY NewInner
<1>2. Inner = stack[Len(stack)] /\ Len(stack) \in DOMAIN stack
  BY InnerOf
<1>. HIDE DEF t
<1>3. Told(fs, t)
  BY <1>1, <1>2 DEF Told
<1>. QED BY <1>3 DEF t

LEMMA ToldOne ==
  /\ \A fs : Told(fs, <<>>)
  /\ \A fs, f : Tells(fs, f.information) => Told(fs, <<f>>)
  /\ \A fs, f, g : Tells(fs, f.information) /\ Tells(fs, g.information) => Told(fs, <<f, g>>)
BY DEF Told

LEMMA ToldTail ==
  ASSUME NEW fs, NEW S, NEW s \in Seq(S), s # <<>>, Told(fs, s)
  PROVE  Told(fs, Tail(s)) /\ Tells(fs, Head(s).information)
BY TailOf DEF Told

(* What an observation is compared with again.                             *)
LEMMA AgainOf ==
  ASSUME NEW o \in Observations
  PROVE  /\ Again(o) \in Seq(Comparisons) /\ Again(o) # <<>>
         /\ 1 \in DOMAIN Again(o) /\ Again(o)[1].information = o.information
         /\ \A k \in DOMAIN Again(o) : Again(o)[k].information = o.information
<1>. DEFINE S == {x \in Comparisons : x.information = o.information}
            c == Compare(o.dir, o.name, o.information)
            s == IF o.directory # Nowhere THEN <<Compare(o.directory, Self, o.information)>> ELSE <<>>
            t == IF o.text # <<>> THEN <<c>> ELSE <<>>
<1>1. c \in S
  BY CompareType DEF Observations, Compare
<1>2. o.directory # Nowhere => Compare(o.directory, Self, o.information) \in S
  BY CompareType DEF Observations, Compare
<1>3. Again(o) = (<<c>> \o s) \o t
  BY DEF Again
<1>. HIDE DEF S, c
<1>4. <<c>> \in Seq(S) /\ s \in Seq(S) /\ t \in Seq(S)
  BY <1>1, <1>2
<1>. HIDE DEF s, t
<1>5. /\ <<c>> \o s \in Seq(S) /\ (<<c>> \o s)[1] = c /\ Len(<<c>> \o s) = 1 + Len(s)
  BY <1>4, ConcatProperties
<1>6. /\ Again(o) \in Seq(S) /\ Again(o)[1] = c /\ Len(Again(o)) = 1 + Len(s) + Len(t)
  BY <1>3, <1>4, <1>5, ConcatProperties
<1>7. 1 \in DOMAIN Again(o) /\ Again(o) # <<>>
  BY <1>4, <1>6
<1>8. \A k \in DOMAIN Again(o) : Again(o)[k] \in S
  BY <1>6
<1>9. Again(o) \in Seq(Comparisons)
  BY <1>6 DEF S
<1>. QED BY <1>1, <1>6, <1>7, <1>8, <1>9 DEF S

LEMMA TellsMore ==
  ASSUME TypeOK, WorldInv, NEW information \in Information, Tells(node, information), Others
  PROVE  Tells(node', information)
<1>. DEFINE i == information.ino
<1>1. i \in Objects /\ information.at \in Nat /\ node[i].at \in Nat /\ changes \in Nat
  BY DEF Information, TypeOK, Nodes
<1>2. information.at <= node[i].at /\ node[i].at <= changes
  BY <1>1 DEF Tells, WorldInv
<1>3. PICK d \in Objects : Changed(d)
  BY OthersChange
<1>4. CASE i # d
  BY <1>1, <1>3, <1>4 DEF Changed, Tells
<1>5. CASE i = d
  <2>1. node'[i].at = changes + 1
    BY <1>3, <1>5 DEF Changed
  <2>. QED BY <1>1, <1>2, <2>1 DEF Tells
<1>. QED BY <1>4, <1>5

LEMMA ToldMore ==
  ASSUME TypeOK, WorldInv, NEW s, \A k \in DOMAIN s : s[k].information \in Information,
         Told(node, s), Others
  PROVE  Told(node', s)
BY TellsMore DEF Told

LEMMA InformationOf ==
  ASSUME TypeOK
  PROVE  /\ \A k \in DOMAIN seen : seen[k] \in Observations /\ seen[k].information \in Information
         /\ \A k \in DOMAIN checks : checks[k] \in Comparisons /\ checks[k].information \in Information
         /\ \A k \in DOMAIN stack : stack[k] \in Frames /\ stack[k].information \in Information
         /\ pc \in AtHand \cup {"openRoot"} => here.information \in Information
<1>1. seen \in Seq(Observations) /\ checks \in Seq(Comparisons) /\ stack \in Seq(Frames)
  BY DEF TypeOK
<1>2. /\ \A k \in DOMAIN seen : seen[k] \in Observations
      /\ \A k \in DOMAIN checks : checks[k] \in Comparisons
      /\ \A k \in DOMAIN stack : stack[k] \in Frames
  BY <1>1
<1>3. pc \in AtHand \cup {"openRoot"} => here.information \in Information
  BY DEF TypeOK, HereAt
<1>. QED BY <1>2, <1>3 DEF Observations, Comparisons, Frames

LEMMA ToldStep == TypeOK /\ WorldInv /\ ShapeInv /\ ToldInv /\ [Next]_vars => ToldInv'
<1>. SUFFICES ASSUME TypeOK, WorldInv, ShapeInv, ToldInv, [Next]_vars PROVE ToldInv'
  OBVIOUS
<1>0. UNCHANGED vars => ToldInv'
  BY DEF ToldInv, Told, Tells, vars, reader
<1>1. CASE Others
  <2>1. UNCHANGED reader
    BY <1>1, OthersChange DEF Changed
  <2>2. Told(node', seen) /\ Told(node', checks) /\ Told(node', stack)
    BY <1>1, InformationOf, ToldMore DEF ToldInv
  <2>3. pc \in AtHand \cup {"openRoot"} => Tells(node', here.information)
    BY <1>1, InformationOf, TellsMore DEF ToldInv
  <2>. QED BY <2>1, <2>2, <2>3 DEF ToldInv, reader, Told, Tells
<1>. SUFFICES ASSUME Reads PROVE ToldInv'
  BY <1>0, <1>1 DEF Next
<1>2. node' = node /\ then' \in {then, node}
  BY ReadsFrame
<1>3. \A i \in Objects : Tells(node, Stat(i))
  BY TellsNow DEF TypeOK, Nodes
<1>4. /\ stack # <<>> => Inner \in Frames /\ Tells(node, Inner.information)
      /\ seen \in Seq(Observations) /\ checks \in Seq(Comparisons) /\ stack \in Seq(Frames)
  BY InnerOf DEF ToldInv, Told, TypeOK
<1>5. \A s : Told(node, s) => Told(node', s)
  BY <1>2
<1>6. \A x : Tells(node, x) => Tells(node', x)
  BY <1>2
<1>7. /\ Told(node, seen) /\ Told(node, checks) /\ Told(node, stack)
      /\ pc \in AtHand \cup {"openRoot"} => Tells(node, here.information)
      /\ pc \in Looking => Told(then, seen) /\ Told(then, checks)
  BY DEF ToldInv
<1>8. ASSUME NEW kind, NEW next \in AtHand, stack # <<>>, Observe(kind, next) PROVE ToldInv'
  <2>1. PICK n \in Inner.names :
           LET f == [Inner EXCEPT !.names = @ \ {n}]
           IN  /\ n \in Names /\ Look(Inner.dir, n) \in Objects
               /\ here' = Found(Inner.dir, n, Append(Inner.path, n))
               /\ f \in Frames /\ stack' = InnerBecomes(f) /\ f.information = Inner.information
               /\ checks' = IF kind = "link" THEN <<Compare(Inner.dir, n, Stat(Look(Inner.dir, n)))>>
                            ELSE <<>>
    BY <1>8, Observed
  <2>2. Told(node, stack')
    BY <1>7, <1>8, <2>1, ToldInner
  <2>3. here'.information = Stat(Look(Inner.dir, n)) /\ Tells(node, here'.information)
    BY <1>3, <2>1 DEF Found
  <2>4. Told(node, checks')
    BY <1>3, <2>1, ToldOne DEF Compare
  <2>5. pc' = next /\ seen' = seen /\ next \notin Looking
    BY <1>8 DEF Observe, AtHand, Looking
  <2>. QED BY <1>2, <1>7, <2>2, <2>3, <2>4, <2>5 DEF ToldInv
<1>11. CASE Fail
  BY <1>2, <1>11, ToldOne DEF Fail, ToldInv, AtHand, Looking
<1>12. CASE Check
  <2>1. Told(node, Tail(checks)) /\ (pc \in Looking => Told(then, Tail(checks)))
    BY <1>4, <1>7, <1>12, ToldTail DEF Check
  <2>. QED BY <1>2, <1>7, <1>12, <2>1 DEF Check, ToldInv
<1>13. CASE ObserveRoot
  <2>1. Tells(node, here'.information)
    BY <1>3, <1>13, LookType, TreeReadAssumption DEF ObserveRoot, Found, Place
  <2>. QED BY <1>2, <1>7, <1>13, <2>1 DEF ObserveRoot, ToldInv, Looking
<1>14. CASE OpenRoot
  <2>1. PICK opened \in Opens(Above, Top) :
       /\ checks' = <<Compare(opened, Self, here.information), Compare(Above, Top, here.information)>>
       /\ stack' = <<Frame(opened, Chosen(<<>>))>>
       /\ seen' = <<Observation(opened, Self, here.information, Nowhere, <<>>)>>
    BY <1>14 DEF OpenRoot
  <2>2. Tells(node, here.information)
    BY <1>7, <1>14 DEF OpenRoot, Ready
  <2>3. Told(node, checks') /\ Told(node, stack') /\ Told(node, seen')
    BY <2>1, <2>2, ToldOne DEF Compare, Frame, Observation
  <2>4. pc' \in {"openList", "collect"}
    BY <1>14 DEF OpenRoot
  <2>. QED BY <1>2, <2>3, <2>4 DEF ToldInv, AtHand, Looking
<1>15. CASE OpenList
  <2>1. stack # <<>>
    BY <1>15 DEF OpenList, Ready, ShapeInv, PlaceShape, HereShape, Inside
  <2>2. Told(node, checks')
    BY <1>4, <1>15, <2>1, ToldOne DEF OpenList, Compare
  <2>. QED BY <1>2, <1>7, <1>15, <2>2 DEF ToldInv, OpenList, AtHand, Looking
<1>16. CASE EndList
  <2>1. stack # <<>>
    BY <1>16 DEF EndList, Ready, ShapeInv, PlaceShape, HereShape, Inside
  <2>2. Told(node, checks')
    BY <1>4, <1>16, <2>1 DEF EndList, Compare, Told
  <2>. QED BY <1>2, <1>7, <1>16, <2>2 DEF ToldInv, EndList, AtHand, Looking
<1>17. CASE ListName
  <2>1. stack # <<>>
    BY <1>17 DEF ListName, Ready, ShapeInv, PlaceShape, HereShape, Inside
  <2>. DEFINE n == Min(Inner.unlisted)
              listed == IF Look(Inner.dir, n) = Nowhere THEN {} ELSE {n}
              f == [Inner EXCEPT !.unlisted = @ \ {n}, !.names = @ \cup listed]
  <2>2. stack' = InnerBecomes(f)
    BY <1>17 DEF ListName
  <2>3. f \in Frames /\ f.information = Inner.information
    BY <1>4, <1>17, <2>1, ListedFrame DEF ListName
  <2>. HIDE DEF f
  <2>4. Told(node, stack')
    BY <1>7, <2>1, <2>2, <2>3, ToldInner
  <2>. QED BY <1>2, <1>7, <1>17, <2>4 DEF ToldInv, ListName, AtHand, Looking
<1>18. CASE Walk
  BY <1>8, <1>18 DEF Walk, AtHand
<1>19. CASE Collect
  BY <1>8, <1>19 DEF Collect, AtHand
<1>20. CASE Leave
  <2>1. stack # <<>> /\ stack' = Front(stack)
    BY <1>20 DEF Leave
  <2>2. Told(node, Front(stack))
    <3>1. /\ Len(stack) \in Nat \ {0} /\ Front(stack) \in Seq(Frames)
          /\ Len(Front(stack)) = Len(stack) - 1
          /\ \A k \in 1..(Len(stack) - 1) : Front(stack)[k] = stack[k]
      BY <1>4, <2>1, LastOf
    <3>2. DOMAIN Front(stack) = 1..(Len(stack) - 1) /\ DOMAIN stack = 1..Len(stack)
      BY <1>4, <3>1, LenProperties
    <3>. QED BY <1>7, <3>1, <3>2 DEF Told
  <2>3. pc' \in {"validate", "walk", "collect"}
    BY <1>20 DEF Leave, EntriesNext
  <2>. QED BY <1>2, <1>7, <1>20, <2>1, <2>2, <2>3 DEF ToldInv, Leave, AtHand, Looking
<1>21. CASE OpenDirectory
  <2>1. PICK child \in Opens(here.dir, here.name) :
       /\ checks' = <<Compare(child, Self, here.information),
                      Compare(here.dir, here.name, here.information)>>
       /\ stack' = Append(stack, Frame(child, Chosen(here.path)))
       /\ seen' = Append(seen, Observation(here.dir, here.name, here.information, child, <<>>))
    BY <1>21 DEF OpenDirectory
  <2>2. here \in HereAt /\ Tells(node, here.information)
    BY <1>7, <1>21 DEF TypeOK, OpenDirectory, Ready, AtHand
  <2>3. child \in Objects
    BY <2>2, OpensType DEF HereAt
  <2>4. Frame(child, Chosen(here.path)) \in Frames
    BY <2>2, <2>3, FrameType, ChosenType
  <2>5. Observation(here.dir, here.name, here.information, child, <<>>) \in Observations
    <3>1. <<>> \in Seq(Part)
      OBVIOUS
    <3>. QED BY <2>2, <2>3, <3>1, ObservationType DEF HereAt
  <2>6. Told(node, checks')
    BY <2>1, <2>2, ToldOne DEF Compare
  <2>7. Told(node, stack')
    <3>1. Frame(child, Chosen(here.path)).information = here.information
      BY DEF Frame
    <3>. QED BY <1>4, <1>7, <2>1, <2>2, <2>4, <3>1, ToldAppend
  <2>8. Told(node, seen')
    <3>1. Observation(here.dir, here.name, here.information, child, <<>>).information = here.information
      BY DEF Observation
    <3>. QED BY <1>4, <1>7, <2>1, <2>2, <2>5, <3>1, ToldAppend
  <2>9. pc' \in {"openList", "collect"}
    BY <1>21 DEF OpenDirectory
  <2>. QED BY <1>2, <2>6, <2>7, <2>8, <2>9 DEF ToldInv, AtHand, Looking
<1>22. CASE OpenFile
  <2>1. PICK file \in Opens(here.dir, here.name) :
       /\ here' = [here EXCEPT !.handle = file]
       /\ checks' = <<Compare(file, Self, here.information),
                      Compare(here.dir, here.name, here.information)>>
    BY <1>22 DEF OpenFile
  <2>2. here \in HereAt /\ Tells(node, here.information)
    BY <1>7, <1>22 DEF TypeOK, OpenFile, Ready, AtHand
  <2>3. here'.information = here.information /\ Told(node, checks')
    BY <2>1, <2>2, ToldOne DEF Compare, HereAt
  <2>. QED BY <1>2, <1>7, <1>22, <2>2, <2>3 DEF ToldInv, OpenFile, Looking
<1>23. CASE ReadPart
  <2>1. here \in HereAt /\ Tells(node, here.information)
    BY <1>7, <1>23 DEF TypeOK, ReadPart, Ready, AtHand
  <2>2. here'.information = here.information
    BY <1>23, <2>1 DEF ReadPart, HereAt
  <2>. QED BY <1>2, <1>7, <1>23, <2>1, <2>2 DEF ToldInv, ReadPart, Ready, Looking
<1>24. CASE ReadEnd
  <2>1. here \in HereAt /\ Tells(node, here.information)
    BY <1>7, <1>24 DEF TypeOK, ReadEnd, Ready, AtHand
  <2>2. Told(node, checks')
    BY <1>24, <2>1, ToldOne DEF ReadEnd, Compare
  <2>. QED BY <1>2, <1>7, <1>24, <2>1, <2>2 DEF ToldInv, ReadEnd, Looking
<1>25. CASE Charge
  <2>1. here \in HereAt /\ Tells(node, here.information)
    BY <1>7, <1>25 DEF TypeOK, Charge, Ready, AtHand
  <2>2. Told(node, seen')
    <3>1. <<>> \in Seq(Part)
      OBVIOUS
    <3>. DEFINE o == Observation(here.dir, here.name, here.information, Nowhere, <<>>)
    <3>2. o \in Observations
      BY <2>1, <3>1, ObservationType DEF HereAt
    <3>3. o.information = here.information /\ seen' = Append(seen, o)
      BY <1>25 DEF Charge, Observation
    <3>. HIDE DEF o
    <3>. QED BY <1>4, <1>7, <2>1, <3>2, <3>3, ToldAppend
  <2>3. pc' \in {"walk", "collect"}
    BY <1>25 DEF Charge, EntriesNext
  <2>. QED BY <1>2, <1>7, <1>25, <2>2, <2>3 DEF ToldInv, Charge, AtHand, Looking
<1>26. CASE ReadLink
  <2>1. here \in HereAt /\ Tells(node, here.information)
    BY <1>7, <1>26 DEF TypeOK, ReadLink, Ready, AtHand
  <2>. DEFINE o == Observation(here.dir, here.name, here.information, Nowhere, TextOf(here.dir, here.name))
  <2>2. seen' = Append(seen, o)
    BY <1>26 DEF ReadLink
  <2>3. o \in Observations /\ o.information = here.information
    <3>1. Look(here.dir, here.name) \in Objects
      BY <1>26, <2>1, LookType DEF ReadLink, IsLink, Place, HereAt
    <3>2. TextOf(here.dir, here.name) \in Seq(Part)
      BY <3>1, ContentsType DEF TextOf, TypeOK
    <3>3. o \in Observations
      BY <2>1, <3>2, ObservationType DEF HereAt
    <3>. QED BY <3>3 DEF Observation
  <2>. HIDE DEF o
  <2>4. Told(node, seen')
    BY <1>4, <1>7, <2>1, <2>2, <2>3, ToldAppend
  <2>5. Told(node, checks')
    BY <1>26, <2>1, ToldOne DEF ReadLink, Compare
  <2>. QED BY <1>2, <1>7, <1>26, <2>4, <2>5 DEF ToldInv, ReadLink, AtHand, Looking
<1>27. CASE Validate
  <2>1. seen # <<>> /\ seen[1] \in Observations /\ Tells(node, seen[1].information)
    <3>1. seen # <<>>
      BY <1>27 DEF Validate, Ready, ShapeInv, PlaceShape, HereShape, Reading
    <3>. QED BY <1>4, <1>7, <3>1, TailOf DEF Told
  <2>2. Told(node, seen')
    <3>1. <<>> \in Seq(Part)
      OBVIOUS
    <3>. DEFINE o == Observation(Above, Top, seen[1].information, Nowhere, <<>>)
    <3>2. o \in Observations
      BY <2>1, <3>1, ObservationType, TreeReadAssumption DEF Observations
    <3>3. o.information = seen[1].information /\ seen' = Append(seen, o)
      BY <1>27 DEF Validate, Observation
    <3>. HIDE DEF o
    <3>. QED BY <1>4, <1>7, <2>1, <3>2, <3>3, ToldAppend
  <2>3. then' = node /\ pc' = "again" /\ checks' = checks /\ stack' = stack
    BY <1>27 DEF Validate
  <2>. QED BY <1>2, <1>7, <2>2, <2>3 DEF ToldInv, AtHand, Looking
<1>28. CASE Revalidate \/ ReadLinkAgain
  <2>1. seen # <<>> /\ pc \in Looking /\ pc' \in Looking /\ then' = then /\ stack' = stack
    BY <1>28 DEF Revalidate, ReadLinkAgain, Ready, ShapeInv, PlaceShape, HereShape, Looking
  <2>2. Head(seen) \in Observations /\ Tells(node, Head(seen).information) /\ Told(node, Tail(seen))
        /\ Tells(then, Head(seen).information) /\ Told(then, Tail(seen))
    BY <1>4, <1>7, <2>1, ToldTail, TailOf
  <2>3. Told(node, checks') /\ Told(then, checks')
    <3>1. CASE Revalidate
      BY <2>2, <3>1, AgainOf DEF Told, Revalidate
    <3>2. CASE ReadLinkAgain
      BY <2>2, <3>2, ToldOne DEF ReadLinkAgain, Compare
    <3>. QED BY <1>28, <3>1, <3>2
  <2>4. seen' \in {seen, Tail(seen)}
    BY <1>28 DEF Revalidate, ReadLinkAgain
  <2>5. Told(node, seen') /\ Told(then, seen')
    BY <1>7, <2>1, <2>2, <2>4
  <2>6. pc' \notin AtHand \cup {"openRoot"}
    BY <2>1 DEF AtHand, Looking
  <2>. QED BY <1>2, <1>7, <2>1, <2>3, <2>5, <2>6 DEF ToldInv
<1>29. CASE Return
  BY <1>2, <1>7, <1>29 DEF ToldInv, Return, Ready, AtHand, Looking
<1>. QED BY <1>11, <1>12, <1>13, <1>14, <1>15, <1>16, <1>17, <1>18, <1>19, <1>20, <1>21, <1>22,
            <1>23, <1>24, <1>25, <1>26, <1>27, <1>28, <1>29 DEF Reads

--------------------------------------------------------------------------------
(* Where the reader is.                                                    *)
LEMMA WantedSame == Reads \/ Others \/ UNCHANGED vars => \A path : Wanted(path)' = Wanted(path)
<1>1. Reads \/ Others \/ UNCHANGED vars => selection' = selection
  BY ReadsFrame DEF Others, Write, Unlink, Put, Change, vars, reader
<1>. QED BY <1>1 DEF Wanted, Administrative, WithParents, Paths, Whole

(* How a step that takes the next name was taken.                          *)
LEMMA Taken ==
  ASSUME Walk \/ Collect, PlaceShape
  PROVE  /\ stack # <<>> /\ checks = <<>> /\ pc = EntriesNext
         /\ \/ Observe("file", "openFile") \/ Observe("dir", "openDirectory")
            \/ Observe("link", "readLink") /\ ~Administrative
BY DEF Walk, Collect, Ready, EntriesNext, PlaceShape

LEMMA PlaceStep ==
  ASSUME TypeOK, PlaceShape, Reads PROVE PlaceShape'
<1>. USE DEF AtHand, Inside, Reading, Looking, Finished
<1>1. selection' = selection /\ Administrative' = Administrative
  BY ReadsFrame DEF Administrative
<1>2. CASE Fail
  BY <1>2 DEF PlaceShape, Fail
<1>3. CASE Check \/ ObserveRoot \/ OpenList \/ EndList \/ ReadPart \/ ReadEnd \/ OpenFile
  BY <1>1, <1>3 DEF PlaceShape, Check, ObserveRoot, OpenList, EndList, ReadPart, ReadEnd, OpenFile,
                    Ready
<1>4. CASE OpenRoot
  <2>1. PICK opened \in Opens(Above, Top) :
       /\ root' = opened
       /\ stack' = <<Frame(opened, Chosen(<<>>))>>
       /\ seen' = <<Observation(opened, Self, here.information, Nowhere, <<>>)>>
    BY <1>4 DEF OpenRoot
  <2>2. opened \in Objects
    BY OpensType, TreeReadAssumption
  <2>3. stack' # <<>> /\ seen' # <<>>
    BY <2>1
  <2>4. pc' = IF Administrative THEN "openList" ELSE "collect"
    BY <1>4 DEF OpenRoot
  <2>. QED BY <1>1, <2>1, <2>2, <2>3, <2>4 DEF PlaceShape
<1>5. CASE ListName
  <2>1. stack # <<>> /\ Inner.unlisted # {}
    BY <1>5 DEF ListName, Ready, PlaceShape
  <2>2. stack' # <<>>
    BY <1>5, <2>1, ListedFrame, NewInner DEF ListName
  <2>. QED BY <1>1, <1>5, <2>1, <2>2 DEF PlaceShape, ListName, Ready
<1>6. CASE Walk \/ Collect
  <2>1. PICK kind, next : /\ stack # <<>> /\ pc = EntriesNext /\ Observe(kind, next)
                          /\ \/ next = "openFile" \/ next = "openDirectory"
                             \/ next = "readLink" /\ ~Administrative
    BY <1>6, Taken
  <2>2. stack' # <<>>
    BY <2>1, Observed, NewInner
  <2>3. pc' = next /\ UNCHANGED <<root, seen>>
    BY <2>1 DEF Observe
  <2>4. pc \in Inside
    BY <2>1 DEF PlaceShape
  <2>. QED BY <1>1, <2>1, <2>2, <2>3, <2>4 DEF PlaceShape
<1>7. CASE Leave
  <2>1. /\ stack # <<>> /\ stack' = Front(stack) /\ pc = EntriesNext
        /\ UNCHANGED <<root, seen>> /\ pc' = IF Len(stack) = 1 THEN "validate" ELSE EntriesNext
    BY <1>7 DEF Leave, Ready
  <2>2. Len(stack) \in Nat \ {0} /\ Len(stack') = Len(stack) - 1 /\ stack' \in Seq(Frames)
    <3>1. stack \in Seq(Frames)
      BY DEF TypeOK
    <3>. QED BY <2>1, <3>1, LastOf
  <2>3. stack' = <<>> <=> Len(stack) = 1
    <3>1. stack' = <<>> <=> Len(stack') = 0
      BY <2>2, EmptySeq
    <3>. QED BY <2>2, <3>1
  <2>4. EntriesNext \in {"walk", "collect"} /\ (EntriesNext = "walk" <=> Administrative)
    BY DEF EntriesNext
  <2>5. root \in Objects /\ seen # <<>> /\ root' = root /\ seen' = seen
    BY <2>1, <2>4 DEF PlaceShape
  <2>6. CASE Len(stack) = 1
    BY <1>1, <2>1, <2>3, <2>5, <2>6 DEF PlaceShape
  <2>7. CASE Len(stack) # 1
    BY <1>1, <2>1, <2>3, <2>4, <2>5, <2>7 DEF PlaceShape
  <2>. QED BY <2>6, <2>7
<1>8. CASE OpenDirectory
  <2>1. PICK child \in Opens(here.dir, here.name) :
       /\ stack' = Append(stack, Frame(child, Chosen(here.path)))
       /\ seen' = Append(seen, Observation(here.dir, here.name, here.information, child, <<>>))
    BY <1>8 DEF OpenDirectory
  <2>2. stack' # <<>> /\ seen' # <<>>
    BY <2>1, AppendProperties DEF TypeOK
  <2>3. /\ pc = "openDirectory" /\ pc' = IF Administrative THEN "openList" ELSE "collect"
        /\ root' = root
    BY <1>8 DEF OpenDirectory, Ready
  <2>. QED BY <1>1, <2>2, <2>3 DEF PlaceShape
<1>9. CASE Charge \/ ReadLink
  <2>1. seen' # <<>>
    BY <1>9, AppendProperties DEF Charge, ReadLink, TypeOK
  <2>2. /\ pc \in {"charge", "readLink"} /\ (pc = "charge" => pc' = EntriesNext)
        /\ (pc = "readLink" => pc' = "collect") /\ UNCHANGED <<root, stack>>
    BY <1>9 DEF Charge, ReadLink, Ready
  <2>3. EntriesNext \in {"walk", "collect"} /\ (EntriesNext = "walk" <=> Administrative)
    BY DEF EntriesNext
  <2>. QED BY <1>1, <2>1, <2>2, <2>3 DEF PlaceShape
<1>10. CASE Validate \/ Revalidate \/ ReadLinkAgain \/ Return
  <2>1. stack' = stack /\ stack = <<>>
    BY <1>10 DEF Validate, Revalidate, ReadLinkAgain, Return, Ready, PlaceShape
  <2>2. pc' \in Looking
    BY <1>10 DEF Validate, Revalidate, ReadLinkAgain, Return
  <2>3. pc' = "linkAgain" => seen' # <<>>
    BY <1>10 DEF Validate, Revalidate, ReadLinkAgain, Return
  <2>. QED BY <1>1, <2>1, <2>2, <2>3 DEF PlaceShape
<1>. QED BY <1>2, <1>3, <1>4, <1>5, <1>6, <1>7, <1>8, <1>9, <1>10 DEF Reads

LEMMA HereStep ==
  ASSUME TypeOK, PlaceShape, HereShape, ListShape, Reads PROVE HereShape'
<1>. USE DEF AtHand, Inside, Reading, Looking, Finished
<1>1. \A path : Wanted(path)' = Wanted(path)
  BY WantedSame
<1>2. CASE pc' \notin AtHand \cup {"openRoot"}
  BY <1>2 DEF HereShape
<1>3. CASE Check
  <2>1. UNCHANGED <<pc, here, stack>>
    BY <1>3 DEF Check
  <2>. QED BY <1>1, <2>1 DEF HereShape, Inner
<1>4. CASE ObserveRoot
  <2>1. here'.path = <<>> /\ here'.information.kind = "dir" /\ pc' = "openRoot"
    BY <1>4 DEF ObserveRoot, Found
  <2>. QED BY <2>1 DEF HereShape
<1>5. CASE Walk \/ Collect
  <2>1. PICK kind, next : /\ stack # <<>> /\ pc = EntriesNext /\ Observe(kind, next)
                          /\ \/ kind = "file" /\ next = "openFile"
                             \/ kind = "dir" /\ next = "openDirectory"
                             \/ kind = "link" /\ next = "readLink"
    BY <1>5, Taken
  <2>2. PICK n \in Inner.names :
           LET f == [Inner EXCEPT !.names = @ \ {n}]
           IN  /\ n \in Names /\ Look(Inner.dir, n) \in Objects
               /\ node[Look(Inner.dir, n)].kind = kind
               /\ here' = Found(Inner.dir, n, Append(Inner.path, n))
               /\ f \in Frames /\ stack' = InnerBecomes(f)
               /\ f.path = Inner.path /\ f.dir = Inner.dir
    BY <2>1, Observed
  <2>3. Inner'.path = Inner.path /\ Inner'.dir = Inner.dir
    <3>. DEFINE f == [Inner EXCEPT !.names = @ \ {n}]
    <3>1. f \in Frames /\ stack' = InnerBecomes(f) /\ f.path = Inner.path /\ f.dir = Inner.dir
      BY <2>2
    <3>. HIDE DEF f
    <3>2. Last(stack') = f
      BY <2>1, <3>1, NewInner
    <3>. QED BY <3>1, <3>2 DEF Inner
  <2>4. /\ here'.dir = Inner.dir /\ here'.name = n /\ here'.path = Append(Inner.path, n)
        /\ here'.information.kind = kind /\ here'.data = <<>>
    BY <2>2 DEF Found, Stat
  <2>5. Wanted(Append(Inner.path, n))
    BY <2>1, <2>2, InnerOf DEF ListShape
  <2>6. pc' = next
    BY <2>1 DEF Observe
  <2>. QED BY <1>1, <2>1, <2>3, <2>4, <2>5, <2>6 DEF HereShape
<1>6. CASE OpenFile
  <2>1. PICK file \in Opens(here.dir, here.name) : here' = [here EXCEPT !.handle = file]
    BY <1>6 DEF OpenFile
  <2>2. here \in HereAt /\ pc = "openFile" /\ pc' = "readFile" /\ stack' = stack
    BY <1>6 DEF OpenFile, Ready, TypeOK
  <2>3. file \in Objects
    BY <2>2, OpensType DEF HereAt
  <2>4. /\ here'.handle = file /\ here'.data = here.data /\ here'.information = here.information
        /\ here'.dir = here.dir /\ here'.name = here.name /\ here'.path = here.path
    BY <2>1, <2>2 DEF HereAt
  <2>5. here.data = <<>> /\ Len(here.data) = 0 /\ here.information.size \in Nat
    BY <2>2 DEF HereShape, HereAt, Information
  <2>. QED BY <1>1, <2>2, <2>3, <2>4, <2>5 DEF HereShape, Inner
<1>7. CASE ReadPart
  <2>1. here \in HereAt /\ pc = "readFile" /\ pc' = "readFile" /\ stack' = stack
    BY <1>7 DEF ReadPart, Ready, TypeOK
  <2>2. /\ here'.data = Append(here.data, <<here.handle, node[here.handle].at>>)
        /\ here'.handle = here.handle /\ here'.information = here.information
        /\ here'.dir = here.dir /\ here'.name = here.name /\ here'.path = here.path
    BY <1>7, <2>1 DEF ReadPart, HereAt
  <2>3. Len(here'.data) <= here.information.size
    <3>1. /\ here.data \in Seq(Part) /\ Len(here.data) < here.information.size
          /\ here.information.size \in Nat
      BY <1>7, <2>1 DEF ReadPart, HereAt, Information
    <3>2. <<here.handle, node[here.handle].at>> \in Part
      BY <2>1 DEF HereShape, TypeOK, Nodes, Part
    <3>3. Len(here'.data) = Len(here.data) + 1 /\ Len(here.data) \in Nat
      BY <2>2, <3>1, <3>2, AppendProperties
    <3>. QED BY <3>1, <3>3
  <2>. QED BY <1>1, <2>1, <2>2, <2>3 DEF HereShape, Inner
<1>8. CASE ReadEnd
  <2>1. /\ pc = "readFile" /\ pc' = "charge" /\ UNCHANGED <<here, stack>>
        /\ Len(here.data) = here.information.size
    BY <1>8 DEF ReadEnd, Ready
  <2>. QED BY <1>1, <2>1 DEF HereShape, Inner
<1>9. CASE Fail \/ OpenRoot \/ OpenList \/ ListName \/ EndList \/ Leave \/ OpenDirectory \/ Charge
           \/ ReadLink \/ Validate \/ Revalidate \/ ReadLinkAgain \/ Return
  <2>1. pc' \notin AtHand \cup {"openRoot"}
    BY <1>9 DEF Fail, OpenRoot, OpenList, ListName, EndList, Leave, OpenDirectory, Charge,
                ReadLink, Validate, Revalidate, ReadLinkAgain, Return, EntriesNext, Ready
  <2>. QED BY <1>2, <2>1
<1>. QED BY <1>3, <1>4, <1>5, <1>6, <1>7, <1>8, <1>9 DEF Reads

(* What changed in the frames, step by step.                               *)
LEMMA ListStep ==
  ASSUME TypeOK, PlaceShape, HereShape, ListShape, Reads PROVE ListShape'
<1>. USE DEF AtHand, Inside, Reading, Looking, Finished
<1>1. (\A path : Wanted(path)' = Wanted(path)) /\ Administrative' = Administrative
  BY WantedSame, ReadsFrame DEF Administrative
<1>2. stack \in Seq(Frames) /\ Len(stack) \in Nat /\ DOMAIN stack = 1..Len(stack)
  BY LenProperties DEF TypeOK
<1>3. CASE stack' = stack /\ (pc' = pc \/ pc \notin {"openList", "list"} \/ pc' \in {"openList", "list"})
  BY <1>1, <1>3 DEF ListShape
<1>4. ASSUME NEW k \in DOMAIN stack PROVE stack[k] \in Frames
  BY <1>2
<1>5. CASE Fail
  BY <1>5 DEF Fail, ListShape
<1>6. CASE EndList
  <2>1. pc = "list" /\ stack' = stack /\ Inner.unlisted = {} /\ stack # <<>>
    BY <1>6 DEF EndList, Ready, PlaceShape
  <2>2. stack[Len(stack)].unlisted = {}
    BY <2>1, InnerOf
  <2>. QED BY <1>1, <2>1, <2>2 DEF ListShape
<1>7. CASE OpenRoot
  <2>1. PICK opened \in Opens(Above, Top) : stack' = <<Frame(opened, Chosen(<<>>))>>
    BY <1>7 DEF OpenRoot
  <2>2. pc' = (IF Administrative THEN "openList" ELSE "collect") /\ here.path = <<>>
    BY <1>7 DEF OpenRoot, Ready, HereShape
  <2>. DEFINE f == Frame(opened, Chosen(<<>>))
  <2>3. f.path = <<>> /\ \A n \in f.names : Wanted(Append(<<>>, n))
    BY <2>2 DEF Frame, Chosen
  <2>. HIDE DEF f
  <2>4. DOMAIN stack' = {1} /\ Len(stack') = 1 /\ stack'[1] = f
    BY <2>1 DEF f
  <2>. QED BY <1>1, <2>2, <2>3, <2>4 DEF ListShape
<1>8. CASE ListName
  <2>1. stack # <<>> /\ Inner.unlisted # {} /\ Administrative /\ pc' = pc /\ pc = "list"
    BY <1>8 DEF ListName, Ready, PlaceShape
  <2>. DEFINE n == Min(Inner.unlisted)
              listed == IF Look(Inner.dir, n) = Nowhere THEN {} ELSE {n}
              f == [Inner EXCEPT !.unlisted = @ \ {n}, !.names = @ \cup listed]
  <2>2. stack' = InnerBecomes(f) /\ f \in Frames
    BY <1>8, <2>1, ListedFrame DEF ListName
  <2>. HIDE DEF f
  <2>3. /\ Len(stack') = Len(stack) /\ DOMAIN stack' = DOMAIN stack
        /\ \A k \in DOMAIN stack : k # Len(stack) => stack'[k] = stack[k]
    BY <2>1, <2>2, NewInner
  <2>. QED BY <1>1, <2>1, <2>3 DEF ListShape, Wanted
<1>9. CASE Walk \/ Collect
  <2>1. PICK kind, next : stack # <<>> /\ pc = EntriesNext /\ Observe(kind, next)
    BY <1>9, Taken
  <2>2. PICK n \in Inner.names :
           LET f == [Inner EXCEPT !.names = @ \ {n}]
           IN  /\ f \in Frames /\ stack' = InnerBecomes(f) /\ f.path = Inner.path
               /\ f.unlisted = Inner.unlisted /\ f.names = Inner.names \ {n}
    BY <2>1, Observed
  <2>. DEFINE f == [Inner EXCEPT !.names = @ \ {n}]
  <2>3. /\ f \in Frames /\ stack' = InnerBecomes(f) /\ f.path = Inner.path
        /\ f.unlisted = Inner.unlisted /\ f.names = Inner.names \ {n}
    BY <2>2
  <2>. HIDE DEF f
  <2>4. /\ Len(stack') = Len(stack) /\ DOMAIN stack' = DOMAIN stack /\ stack'[Len(stack)] = f
        /\ \A k \in DOMAIN stack : k # Len(stack) => stack'[k] = stack[k]
    BY <2>1, <2>3, NewInner
  <2>5. Inner = stack[Len(stack)] /\ Len(stack) \in DOMAIN stack
    BY <2>1, InnerOf
  <2>6. pc \notin {"openList", "list"}
    BY <2>1 DEF EntriesNext
  <2>. QED BY <1>1, <2>3, <2>4, <2>5, <2>6 DEF ListShape
<1>10. CASE Leave
  <2>1. stack # <<>> /\ stack' = Front(stack) /\ pc = EntriesNext
    BY <1>10 DEF Leave, Ready
  <2>2. /\ Len(stack) \in Nat \ {0} /\ stack' \in Seq(Frames) /\ Len(stack') = Len(stack) - 1
        /\ \A k \in 1..(Len(stack) - 1) : stack'[k] = stack[k]
    BY <1>2, <2>1, LastOf
  <2>3. DOMAIN stack' = 1..(Len(stack) - 1)
    BY <2>2, LenProperties
  <2>4. \A k \in DOMAIN stack' : k \in DOMAIN stack /\ stack'[k] = stack[k]
    BY <1>2, <2>2, <2>3
  <2>5. pc \notin {"openList", "list"}
    BY <2>1 DEF EntriesNext
  <2>. QED BY <1>1, <2>4, <2>5 DEF ListShape
<1>11. CASE OpenDirectory
  <2>1. PICK child \in Opens(here.dir, here.name) :
          stack' = Append(stack, Frame(child, Chosen(here.path)))
    BY <1>11 DEF OpenDirectory
  <2>2. pc = "openDirectory" /\ pc' = (IF Administrative THEN "openList" ELSE "collect") /\ here \in HereAt
    BY <1>11 DEF OpenDirectory, Ready, TypeOK
  <2>3. child \in Objects
    BY <2>2, OpensType DEF HereAt
  <2>. DEFINE f == Frame(child, Chosen(here.path))
  <2>4. f \in Frames
    BY <2>2, <2>3, FrameType, ChosenType
  <2>5. f.path = here.path /\ \A n \in f.names : Wanted(Append(here.path, n))
    BY <2>2 DEF Frame, Chosen
  <2>. HIDE DEF f
  <2>6. stack' = Append(stack, f)
    BY <2>1 DEF f
  <2>7. /\ Len(stack') = Len(stack) + 1 /\ DOMAIN stack' = 1..(Len(stack) + 1)
        /\ stack'[Len(stack) + 1] = f
        /\ \A k \in 1..Len(stack) : stack'[k] = stack[k]
    BY <1>2, <2>4, <2>6, Appended
  <2>8. ASSUME NEW k \in DOMAIN stack'
        PROVE  /\ Administrative => stack'[k].unlisted = {}
                                    \/ (pc' \in {"openList", "list"} /\ k = Len(stack'))
               /\ \A n \in stack'[k].names : Wanted(Append(stack'[k].path, n))
    <3>1. CASE k \in DOMAIN stack
      BY <1>2, <2>2, <2>7, <3>1 DEF ListShape
    <3>2. CASE k \notin DOMAIN stack
      <4>1. k = Len(stack) + 1
        BY <1>2, <2>7, <3>2
      <4>. QED BY <2>2, <2>5, <2>7, <4>1
    <3>. QED BY <3>1, <3>2
  <2>. QED BY <1>1, <2>8 DEF ListShape
<1>12. CASE Check \/ ObserveRoot \/ OpenList \/ OpenFile \/ ReadPart \/ ReadEnd \/ Charge \/ ReadLink
            \/ Validate \/ Revalidate \/ ReadLinkAgain \/ Return
  <2>1. stack' = stack /\ (pc' = pc \/ pc \notin {"openList", "list"} \/ pc' \in {"openList", "list"})
    BY <1>12 DEF Check, ObserveRoot, OpenList, OpenFile, ReadPart, ReadEnd, Charge, ReadLink,
                 Validate, Revalidate, ReadLinkAgain, Return, Ready
  <2>. QED BY <1>3, <2>1
<1>. QED BY <1>5, <1>6, <1>7, <1>8, <1>9, <1>10, <1>11, <1>12 DEF Reads

LEMMA ShapeStep == TypeOK /\ ShapeInv /\ [Next]_vars => ShapeInv'
<1>. SUFFICES ASSUME TypeOK, ShapeInv, [Next]_vars PROVE ShapeInv'
  OBVIOUS
<1>1. CASE Others \/ UNCHANGED vars
  <2>1. UNCHANGED reader
    BY <1>1 DEF Others, Write, Unlink, Put, Change, vars
  <2>. QED BY <2>1 DEF reader, ShapeInv, PlaceShape, HereShape, ListShape, EntriesWanted, Inner,
                       Wanted, Administrative, WithParents, Paths, Whole
<1>2. CASE Reads
  <2>1. EntriesWanted'
    <3>1. \A path : Wanted(path)' = Wanted(path)
      BY <1>2, WantedSame
    <3>2. CASE Fail
      BY <3>2 DEF Fail, EntriesWanted
    <3>3. CASE OpenRoot
      <4>1. \A e \in entries' : Administrative
        BY <3>3 DEF OpenRoot
      <4>. QED BY <3>1, <4>1 DEF EntriesWanted, Wanted
    <3>4. CASE OpenDirectory \/ Charge \/ ReadLink
      <4>1. pc \in AtHand
        BY <3>4 DEF OpenDirectory, Charge, ReadLink, Ready, AtHand
      <4>2. Wanted(here.path)
        BY <4>1 DEF ShapeInv, HereShape
      <4>3. \E e : entries' = entries \cup {e} /\ e.path = here.path
        <5>1. \A kind, data : Entry(here.path, kind, data).path = here.path
          BY DEF Entry
        <5>2. \E kind, data : entries' = entries \cup {Entry(here.path, kind, data)}
          BY <3>4 DEF OpenDirectory, Charge, ReadLink
        <5>. QED BY <5>1, <5>2
      <4>. QED BY <3>1, <4>2, <4>3 DEF EntriesWanted, ShapeInv
    <3>5. CASE ~(Fail \/ OpenRoot \/ OpenDirectory \/ Charge \/ ReadLink)
      <4>1. entries' = entries
        BY <1>2, <3>5 DEF Reads, Check, ObserveRoot, OpenList, ListName, EndList, Walk, Collect,
                          Observe, Leave, OpenFile, ReadPart, ReadEnd, Validate, Revalidate,
                          ReadLinkAgain, Return
      <4>. QED BY <3>1, <4>1 DEF EntriesWanted, ShapeInv
    <3>. QED BY <3>2, <3>3, <3>4, <3>5
  <2>. QED BY <1>2, <2>1, PlaceStep, HereStep, ListStep DEF ShapeInv
<1>. QED BY <1>1, <1>2 DEF Next

--------------------------------------------------------------------------------
(* What was read so far is a part of the tree there is.                    *)
LEMMA LeadsOn ==
  ASSUME NEW fs, NEW gs, NEW from, NEW objects, NEW more, objects \subseteq more,
         \A i \in objects : gs[i] = fs[i],
         NEW path \in Seq(Names), NEW i, Leads(fs, from, objects, path, i)
  PROVE  Leads(gs, from, more, path, i)
<1>1. PICK c \in [0..Len(path) -> objects] :
        /\ c[0] = from /\ c[Len(path)] = i
        /\ \A k \in 1..Len(path) : fs[c[k - 1]].child[path[k]] = c[k]
  BY DEF Leads
<1>2. c \in [0..Len(path) -> more]
  BY <1>1
<1>3. ASSUME NEW k \in 1..Len(path) PROVE gs[c[k - 1]].child[path[k]] = c[k]
  <2>1. Len(path) \in Nat
    OBVIOUS
  <2>2. k - 1 \in 0..Len(path)
    BY <2>1
  <2>. QED BY <1>1, <2>2
<1>. QED BY <1>1, <1>2, <1>3 DEF Leads

LEMMA LeadsDown ==
  ASSUME NEW fs, NEW from, NEW objects, NEW path \in Seq(Names), NEW d, NEW n \in Names,
         Leads(fs, from, objects, path, d), fs[d].child[n] \in objects
  PROVE  Leads(fs, from, objects, Append(path, n), fs[d].child[n])
<1>1. PICK c \in [0..Len(path) -> objects] :
        /\ c[0] = from /\ c[Len(path)] = d
        /\ \A k \in 1..Len(path) : fs[c[k - 1]].child[path[k]] = c[k]
  BY DEF Leads
<1>. DEFINE p == Append(path, n)
            b == [k \in 0..(Len(path) + 1) |-> IF k = Len(path) + 1 THEN fs[d].child[n] ELSE c[k]]
<1>2. /\ Len(path) \in Nat /\ Len(p) = Len(path) + 1 /\ p[Len(path) + 1] = n
      /\ \A k \in 1..Len(path) : p[k] = path[k]
  BY AppendProperties, LenProperties
<1>3. b \in [0..Len(p) -> objects]
  BY <1>1, <1>2
<1>4. b[0] = from /\ b[Len(p)] = fs[d].child[n]
  BY <1>1, <1>2
<1>5. ASSUME NEW k \in 1..Len(p) PROVE fs[b[k - 1]].child[p[k]] = b[k]
  <2>1. CASE k = Len(path) + 1
    <3>1. /\ k - 1 = Len(path) /\ k - 1 # Len(path) + 1 /\ k - 1 \in 0..(Len(path) + 1)
          /\ k \in 0..(Len(path) + 1)
      BY <1>2, <2>1
    <3>2. b[k - 1] = c[k - 1] /\ c[k - 1] = d
      BY <1>1, <3>1
    <3>3. b[k] = fs[d].child[n] /\ p[k] = n
      BY <1>2, <2>1, <3>1
    <3>. HIDE DEF b, p
    <3>. QED BY <3>2, <3>3
  <2>2. CASE k # Len(path) + 1
    <3>1. /\ k \in 1..Len(path) /\ k - 1 \in 0..(Len(path) + 1) /\ k - 1 # Len(path) + 1
          /\ k \in 0..(Len(path) + 1)
      BY <1>2, <2>2
    <3>2. b[k - 1] = c[k - 1] /\ b[k] = c[k] /\ p[k] = path[k]
      BY <1>2, <2>2, <3>1
    <3>. QED BY <1>1, <3>1, <3>2
  <2>. QED BY <2>1, <2>2
<1>. HIDE DEF b, p
<1>6. Leads(fs, from, objects, p, fs[d].child[n])
  BY <1>3, <1>4, <1>5 DEF Leads
<1>. QED BY <1>6 DEF p

LEMMA LeadsThere ==
  ASSUME NEW fs, NEW from, NEW objects, NEW path \in Seq(Names), NEW i,
         Leads(fs, from, objects, path, i)
  PROVE  i \in objects
<1>1. Len(path) \in 0..Len(path)
  <2>1. Len(path) \in Nat
    OBVIOUS
  <2>. QED BY <2>1
<1>. QED BY <1>1 DEF Leads

LEMMA LeadsHere ==
  ASSUME NEW fs, NEW from, NEW objects, from \in objects
  PROVE  Leads(fs, from, objects, <<>>, from)
<1>1. Len(<<>>) = 0
  OBVIOUS
<1>. DEFINE c == [k \in 0..0 |-> from]
<1>2. c \in [0..0 -> objects] /\ c[0] = from
  OBVIOUS
<1>. HIDE DEF c
<1>. QED BY <1>1, <1>2 DEF Leads

(* A step that reads on leaves what was observed and read as it is.        *)
Onward == /\ UNCHANGED <<root, selection>> /\ SeenObjects \subseteq SeenObjects'
          /\ \A i \in SeenObjects : node'[i] = node[i]
          /\ PathsOfEntries \subseteq PathsOfEntries'

LEMMA LedOn ==
  ASSUME Onward, NEW path \in Seq(Names), NEW i, LedTo(path, i)
  PROVE  LedTo(path, i)' /\ i \in SeenObjects /\ i \in SeenObjects' /\ node'[i] = node[i]
<1>1. Leads(node', root', SeenObjects', path, i)
  BY LeadsOn DEF Onward, LedTo
<1>2. i \in SeenObjects
  BY LeadsThere DEF LedTo
<1>. QED BY <1>1, <1>2 DEF Onward, LedTo

LEMMA WantedOn == Onward => (\A path : Wanted(path)' = Wanted(path)) /\ Administrative' = Administrative
BY DEF Onward, Wanted, Administrative, WithParents, Paths, Whole

LEMMA FrameOn ==
  ASSUME Onward, Read \subseteq Read', NEW f \in Frames, FrameGood(f)
  PROVE  FrameGood(f)'
<1>1. LedTo(f.path, f.dir)' /\ node'[f.dir] = node[f.dir]
  BY LedOn DEF FrameGood, Frames
<1>. QED BY <1>1, WantedOn DEF FrameGood, Complete, Left

LEMMA EntryOn ==
  ASSUME Onward, NEW e \in Entries, EntryGood(e)
  PROVE  EntryGood(e)'
<1>1. PICK i \in SeenObjects : LedTo(e.path, i) /\ e.kind = node[i].kind /\ e.data = Contents(node, i)
  BY DEF EntryGood
<1>2. LedTo(e.path, i)' /\ node'[i] = node[i] /\ i \in SeenObjects'
  BY <1>1, LedOn DEF Entries
<1>3. Contents(node', i) = Contents(node, i)
  BY <1>2 DEF Contents
<1>. QED BY <1>1, <1>2, <1>3 DEF EntryGood

LEMMA SettledOn ==
  ASSUME Onward, NEW path \in Seq(Names), Settled(path)
  PROVE  Settled(path)'
<1>1. PICK i \in SeenObjects : LedTo(path, i) /\ Complete(path, i, PathsOfEntries, {})
  BY DEF Settled
<1>2. LedTo(path, i)' /\ node'[i] = node[i] /\ i \in SeenObjects'
  BY <1>1, LedOn
<1>3. Complete(path, i, PathsOfEntries, {})'
  BY <1>1, <1>2, WantedOn DEF Complete, Onward
<1>. QED BY <1>2, <1>3 DEF Settled

LEMMA EnteredType == TypeOK => Entered \subseteq Seq(Names) /\ entries \subseteq Entries
<1>1. <<>> \in Seq(Names)
  OBVIOUS
<1>. QED BY <1>1 DEF TypeOK, Entered, Entries

(* Frames, entries and directories that stay.                              *)
LEMMA GoodOn ==
  ASSUME TypeOK, Good, Onward, Read \subseteq Read'
  PROVE  /\ \A k \in DOMAIN stack : \A f \in {stack[k]} : FrameGood(f)'
         /\ \A e \in entries : EntryGood(e)'
         /\ \A path \in Entered : (\E k \in DOMAIN stack : stack[k].path = path) \/ Settled(path)'
<1>1. \A k \in DOMAIN stack : stack[k] \in Frames
  BY InformationOf
<1>2. \A k \in DOMAIN stack : \A f \in {stack[k]} : FrameGood(f)'
  <2>1. ASSUME NEW f \in Frames, FrameGood(f) PROVE FrameGood(f)'
    BY <2>1, FrameOn
  <2>2. \A f \in Frames : FrameGood(f) => FrameGood(f)'
    BY <2>1
  <2>. QED BY <1>1, <2>2 DEF Good, FramesGood
<1>3. \A e \in Entries : EntryGood(e) => EntryGood(e)'
  BY EntryOn
<1>4. \A path \in Seq(Names) : Settled(path) => Settled(path)'
  BY SettledOn
<1>5. Entered \subseteq Seq(Names) /\ entries \subseteq Entries
  BY EnteredType
<1>. QED BY <1>2, <1>3, <1>4, <1>5 DEF Good, EntriesGood, LeftGood

(* A step that keeps the stack and the entries.                            *)
LEMMA GoodStays ==
  ASSUME TypeOK, Good, Onward, Read \subseteq Read', UNCHANGED <<stack, entries>>, seen # <<>>,
         seen'[1] = seen[1], HereGood'
  PROVE  Good'
<1>1. FramesGood'
  BY GoodOn DEF FramesGood
<1>2. EntriesGood'
  BY GoodOn DEF EntriesGood
<1>3. LeftGood'
  BY GoodOn DEF LeftGood, Entered
<1>4. RootGood'
  BY WantedOn DEF Good, RootGood, Onward
<1>. QED BY <1>1, <1>2, <1>3, <1>4 DEF Good

(* Nothing that is observed later makes up for a change of what was        *)
(* observed before.                                                        *)
LEMMA SeenAfter ==
  ASSUME TypeOK, NEW o \in Observations, seen' = Append(seen, o), UNCHANGED node,
         \A k \in DOMAIN seen' : node'[seen'[k].information.ino].at = seen'[k].information.at
  PROVE  /\ \A k \in DOMAIN seen : node[seen[k].information.ino].at = seen[k].information.at
         /\ node[o.information.ino].at = o.information.at
         /\ SeenObjects' = SeenObjects \cup {o.information.ino}
         /\ seen # <<>> => seen'[1] = seen[1]
<1>1. /\ Len(seen) \in Nat /\ DOMAIN seen = 1..Len(seen) /\ DOMAIN seen' = 1..(Len(seen) + 1)
      /\ seen'[Len(seen) + 1] = o /\ \A k \in 1..Len(seen) : seen'[k] = seen[k]
  BY AppendProperties, LenProperties DEF TypeOK
<1>2. Len(seen) + 1 \in DOMAIN seen' /\ \A k \in DOMAIN seen : k \in DOMAIN seen' /\ seen'[k] = seen[k]
  BY <1>1
<1>3. \A k \in DOMAIN seen' : k \in DOMAIN seen \/ k = Len(seen) + 1
  BY <1>1
<1>4. SeenObjects' = SeenObjects \cup {o.information.ino}
  <2>1. SeenObjects' \subseteq SeenObjects \cup {o.information.ino}
    BY <1>1, <1>2, <1>3 DEF SeenObjects
  <2>2. SeenObjects \subseteq SeenObjects' /\ o.information.ino \in SeenObjects'
    BY <1>1, <1>2 DEF SeenObjects
  <2>. QED BY <2>1, <2>2
<1>5. seen # <<>> => 1 \in DOMAIN seen
  BY <1>1, EmptySeq DEF TypeOK
<1>. QED BY <1>1, <1>2, <1>4, <1>5

(* Others.                                                                 *)
LEMMA ReadOthers ==
  ASSUME TypeOK, WorldInv, ToldInv, ShapeInv, ReadInv, Others
  PROVE  ReadInv'
<1>. SUFFICES ASSUME (pc \in Reading)', Undeceived' PROVE Good'
  BY DEF ReadInv
<1>1. PICK d \in Objects : Changed(d)
  BY OthersChange
<1>2. UNCHANGED reader
  BY <1>1 DEF Changed
<1>3. ASSUME NEW k \in DOMAIN seen
      PROVE  node'[seen[k].information.ino] = node[seen[k].information.ino]
  <2>. DEFINE x == seen[k].information
  <2>1. x \in Information /\ Tells(node, x)
    BY InformationOf DEF ToldInv, Told
  <2>2. /\ x.ino \in Objects /\ x.at \in Nat /\ node[x.ino].at \in Nat /\ changes \in Nat
        /\ x.at <= node[x.ino].at /\ node[x.ino].at <= changes
    BY <2>1 DEF Information, TypeOK, Nodes, Tells, WorldInv
  <2>3. node'[x.ino].at = x.at
    BY <1>2 DEF Undeceived, reader
  <2>. HIDE DEF x
  <2>4. x.ino # d
    BY <1>1, <2>2, <2>3 DEF Changed
  <2>5. node'[x.ino] = node[x.ino]
    BY <1>1, <2>2, <2>4 DEF Changed
  <2>. QED BY <2>5 DEF x
<1>4. Undeceived
  BY <1>2, <1>3 DEF Undeceived, reader
<1>5. Good /\ pc \in Reading
  BY <1>2, <1>4 DEF ReadInv, reader
<1>6. UNCHANGED <<root, selection, stack, here, seen, entries, pc>>
  BY <1>2 DEF reader
<1>7. SeenObjects' = SeenObjects /\ Onward
  BY <1>3, <1>6 DEF Onward, SeenObjects, PathsOfEntries
<1>8. Read' = Read
  BY <1>6 DEF Read, PathsOfEntries
<1>9. HereGood'
  <2>. SUFFICES ASSUME pc \in AtHand PROVE HereGood'
    BY <1>6 DEF HereGood
  <2>1. here \in HereAt /\ HereGood /\ stack # <<>> /\ here.dir = Inner.dir
    BY <1>5 DEF TypeOK, Good, ShapeInv, PlaceShape, HereShape, Inside
  <2>2. here.dir \in SeenObjects
    <3>1. FrameGood(Inner) /\ Inner \in Frames
      BY <1>5, <2>1, InnerOf DEF Good, FramesGood
    <3>. QED BY <2>1, <3>1, LeadsThere DEF FrameGood, LedTo, Frames
  <2>3. node'[here.dir] = node[here.dir]
    BY <1>7, <2>2 DEF Onward
  <2>4. /\ here.information.ino \in Objects
        /\ node[here.information.ino].at <= node'[here.information.ino].at
    <3>1. here.information.ino \in Objects
      BY <2>1 DEF HereAt, Information
    <3>2. /\ node[here.information.ino].at \in Nat /\ changes \in Nat
          /\ node[here.information.ino].at <= changes
      BY <3>1 DEF TypeOK, Nodes, WorldInv
    <3>. QED BY <1>1, <3>1, <3>2 DEF Changed
  <2>5. ASSUME pc \in {"readFile", "charge"}, NEW k \in DOMAIN here.data
        PROVE  /\ here.data[k][1] = here.information.ino
               /\ here.information.at <= here.data[k][2]
               /\ here.data[k][2] <= node'[here.information.ino].at
    <3>1. here.data[k] \in Part
      BY <2>1 DEF HereAt
    <3>2. /\ here.data[k][2] \in Nat /\ node[here.information.ino].at \in Nat
          /\ node'[here.information.ino].at \in Nat
      BY <1>1, <2>4, <3>1 DEF Part, TypeOK, Nodes, Changed
    <3>. QED BY <2>1, <2>4, <2>5, <3>2 DEF HereGood
  <2>. QED BY <1>6, <2>1, <2>3, <2>5 DEF HereGood
<1>10. seen # <<>>
  BY <1>5 DEF ShapeInv, PlaceShape
<1>. QED BY <1>5, <1>6, <1>7, <1>8, <1>9, <1>10, GoodStays

LEMMA HandleCompared ==
  ASSUME NEW x, NEW c, NEW d, checks' = <<Compare(x, Self, c), d>>, Undeceived'
  PROVE  x = c.ino
<1>1. 1 \in DOMAIN checks' /\ checks'[1] = Compare(x, Self, c)
  OBVIOUS
<1>. QED BY <1>1 DEF Undeceived, Compare

(* Comparisons, and the steps of reading a file.                           *)
LEMMA ReadQuiet ==
  ASSUME TypeOK, ToldInv, ShapeInv, ReadInv,
         Check \/ OpenList \/ EndList \/ OpenFile \/ ReadPart \/ ReadEnd
  PROVE  ReadInv'
<1>. SUFFICES ASSUME (pc \in Reading)', Undeceived' PROVE Good'
  BY DEF ReadInv
<1>1. UNCHANGED <<root, selection, stack, seen, entries, node>> /\ pc \in Reading
  <2>1. UNCHANGED <<root, selection, stack, seen, entries, node>>
    BY DEF Check, OpenList, EndList, OpenFile, ReadPart, ReadEnd
  <2>2. pc \in Reading
    BY DEF Check, OpenList, EndList, OpenFile, ReadPart, ReadEnd, Ready, Reading, Inside, AtHand
  <2>. QED BY <2>1, <2>2
<1>2. Undeceived
  <2>1. \A k \in DOMAIN seen : node[seen[k].information.ino].at = seen[k].information.at
    BY <1>1 DEF Undeceived
  <2>2. CASE ~Check
    <3>1. checks = <<>>
      BY <2>2 DEF OpenList, EndList, OpenFile, ReadPart, ReadEnd, Ready
    <3>. QED BY <2>1, <3>1 DEF Undeceived
  <2>3. CASE Check
    <3>1. checks # <<>> /\ checks' = Tail(checks) /\ checks \in Seq(Comparisons)
      BY <2>3 DEF Check, TypeOK
    <3>2. /\ \A k \in DOMAIN checks : k # 1 => k - 1 \in DOMAIN checks' /\ checks'[k - 1] = checks[k]
          /\ Head(checks) = checks[1]
      BY <3>1, TailOf
    <3>3. ASSUME checks[1].name = Self PROVE checks[1].dir = checks[1].information.ino
      <4>1. Stat(Look(checks[1].dir, checks[1].name)) = checks[1].information
        BY <2>3, <3>2 DEF Check
      <4>. QED BY <3>3, <4>1 DEF Stat, Look
    <3>. QED BY <2>1, <3>2, <3>3 DEF Undeceived
  <2>. QED BY <2>2, <2>3
<1>3. Good
  BY <1>1, <1>2 DEF ReadInv
<1>4. SeenObjects' = SeenObjects /\ Onward
  BY <1>1 DEF Onward, SeenObjects, PathsOfEntries
<1>5. Read \subseteq Read'
  <2>1. PathsOfEntries' = PathsOfEntries
    BY <1>1 DEF PathsOfEntries
  <2>2. CASE Check
    BY <2>1, <2>2 DEF Read, Check
  <2>3. CASE OpenList \/ EndList
    BY <2>1, <2>3 DEF Read, OpenList, EndList, Ready, AtHand
  <2>4. CASE OpenFile \/ ReadPart \/ ReadEnd
    <3>1. here \in HereAt
      BY <2>4 DEF TypeOK, OpenFile, ReadPart, ReadEnd, Ready, AtHand
    <3>2. here'.path = here.path
      BY <2>4, <3>1 DEF OpenFile, ReadPart, ReadEnd, HereAt
    <3>3. pc' \in AtHand
      BY <2>4 DEF OpenFile, ReadPart, ReadEnd, Ready, AtHand
    <3>. QED BY <2>1, <3>2, <3>3 DEF Read
  <2>. QED BY <2>2, <2>3, <2>4
<1>6. HereGood'
  <2>1. CASE Check
    BY <1>1, <1>3, <2>1 DEF Check, Good, HereGood
  <2>2. CASE OpenList \/ EndList
    BY <2>2 DEF OpenList, EndList, HereGood, AtHand
  <2>3. CASE OpenFile
    <3>1. PICK file \in Opens(here.dir, here.name) :
       /\ here' = [here EXCEPT !.handle = file]
       /\ checks' = <<Compare(file, Self, here.information),
                      Compare(here.dir, here.name, here.information)>>
      BY <2>3 DEF OpenFile
    <3>2. here \in HereAt /\ pc = "openFile" /\ pc' = "readFile"
      BY <2>3 DEF OpenFile, Ready, TypeOK, AtHand
    <3>3. file = here.information.ino
      BY <3>1, HandleCompared
    <3>4. here.data = <<>> /\ node[here.dir].child[here.name] = here.information.ino
      BY <1>3, <3>2 DEF ShapeInv, HereShape, Good, HereGood, AtHand
    <3>5. /\ here'.handle = file /\ here'.data = here.data /\ here'.information = here.information
          /\ here'.dir = here.dir /\ here'.name = here.name
      BY <3>1, <3>2 DEF HereAt
    <3>6. DOMAIN here'.data = {}
      BY <3>4, <3>5
    <3>. QED BY <1>1, <3>3, <3>4, <3>5, <3>6 DEF HereGood
  <2>4. CASE ReadPart
    <3>. DEFINE part == <<here.handle, node[here.handle].at>>
    <3>1. here \in HereAt /\ pc = "readFile" /\ pc' = "readFile"
      BY <2>4 DEF ReadPart, Ready, TypeOK, AtHand
    <3>2. /\ here'.data = Append(here.data, part)
          /\ here'.handle = here.handle /\ here'.information = here.information
          /\ here'.dir = here.dir /\ here'.name = here.name
      BY <2>4, <3>1 DEF ReadPart, HereAt
    <3>3. /\ node[here.dir].child[here.name] = here.information.ino
          /\ here.handle = here.information.ino
          /\ \A k \in DOMAIN here.data : /\ here.data[k][1] = here.information.ino
                                         /\ here.information.at <= here.data[k][2]
                                         /\ here.data[k][2] <= node[here.information.ino].at
      BY <1>3, <3>1 DEF Good, HereGood, AtHand
    <3>4. here.information.at <= node[here.information.ino].at /\ node[here.information.ino].at \in Nat
      <4>1. Tells(node, here.information) /\ here.information.ino \in Objects
        BY <3>1 DEF ToldInv, AtHand, HereAt, Information
      <4>. QED BY <4>1 DEF Tells, TypeOK, Nodes
    <3>5. part \in Part /\ part[1] = here.information.ino /\ part[2] = node[here.information.ino].at
      BY <3>1, <3>3, <3>4 DEF HereAt, Information, Part
    <3>. HIDE DEF part
    <3>6. /\ DOMAIN here'.data = 1..(Len(here.data) + 1) /\ DOMAIN here.data = 1..Len(here.data)
          /\ here'.data[Len(here.data) + 1] = part /\ Len(here.data) \in Nat
          /\ \A k \in 1..Len(here.data) : here'.data[k] = here.data[k]
      BY <3>1, <3>2, <3>5, AppendProperties, LenProperties DEF HereAt
    <3>7. ASSUME NEW k \in DOMAIN here'.data
          PROVE  /\ here'.data[k][1] = here.information.ino
                 /\ here.information.at <= here'.data[k][2]
                 /\ here'.data[k][2] <= node[here.information.ino].at
      <4>1. CASE k \in DOMAIN here.data
        BY <3>3, <3>6, <4>1
      <4>2. CASE k \notin DOMAIN here.data
        <5>1. k = Len(here.data) + 1
          BY <3>6, <4>2
        <5>. QED BY <3>4, <3>5, <3>6, <5>1
      <4>. QED BY <4>1, <4>2
    <3>. QED BY <1>1, <3>1, <3>2, <3>3, <3>7 DEF HereGood
  <2>5. CASE ReadEnd
    <3>1. pc = "readFile" /\ here' = here
      BY <2>5 DEF ReadEnd, Ready
    <3>. QED BY <1>1, <1>3, <3>1 DEF Good, HereGood, AtHand
  <2>. QED BY <2>1, <2>2, <2>3, <2>4, <2>5
<1>7. seen # <<>>
  BY <1>1 DEF ShapeInv, PlaceShape
<1>. QED BY <1>1, <1>3, <1>4, <1>5, <1>6, <1>7, GoodStays

(* The root is opened.                                                     *)
LEMMA ReadRoot ==
  ASSUME TypeOK, ToldInv, ShapeInv, OpenRoot
  PROVE  ReadInv'
<1>. SUFFICES ASSUME Undeceived' PROVE Good'
  BY DEF ReadInv
<1>1. PICK opened \in Opens(Above, Top) :
       /\ checks' = <<Compare(opened, Self, here.information), Compare(Above, Top, here.information)>>
       /\ root' = opened
       /\ stack' = <<Frame(opened, Chosen(<<>>))>>
       /\ seen' = <<Observation(opened, Self, here.information, Nowhere, <<>>)>>
  BY DEF OpenRoot
<1>2. /\ here \in HereAt /\ here.path = <<>> /\ here.information.kind = "dir" /\ UNCHANGED <<selection, node>>
      /\ Tells(node, here.information) /\ pc' = IF Administrative THEN "openList" ELSE "collect"
  BY DEF OpenRoot, Ready, TypeOK, ShapeInv, HereShape, ToldInv
<1>3. opened = here.information.ino
  BY <1>1, HandleCompared
<1>. DEFINE o == Observation(opened, Self, here.information, Nowhere, <<>>)
            f == Frame(opened, Chosen(<<>>))
<1>4. /\ o.information = here.information /\ f.dir = opened /\ f.path = <<>>
      /\ f.information = here.information /\ f.unlisted = Names /\ f.names = Chosen(<<>>)
  BY <1>2 DEF Observation, Frame
<1>. HIDE DEF o, f
<1>5. /\ DOMAIN seen' = {1} /\ seen'[1] = o /\ DOMAIN stack' = {1} /\ stack'[1] = f
  BY <1>1 DEF o, f
<1>6. SeenObjects' = {opened} /\ root' = opened
  BY <1>1, <1>3, <1>4, <1>5 DEF SeenObjects
<1>7. node[opened].kind = "dir"
  <2>1. node[opened].at = here.information.at
    BY <1>2, <1>3, <1>4, <1>5 DEF Undeceived
  <2>. QED BY <1>2, <1>3, <2>1 DEF Tells
<1>8. Administrative' = Administrative /\ \A path : Wanted(path)' = Wanted(path)
  BY <1>2 DEF Administrative, Wanted, WithParents, Paths, Whole
<1>9. LedTo(<<>>, opened)'
  BY <1>6, LeadsHere DEF LedTo
<1>10. FramesGood'
  <2>1. Names \subseteq f.names \cup f.unlisted
    BY <1>4
  <2>2. ~Administrative => f.names = {n \in Names : Wanted(Append(<<>>, n))}
    BY <1>4 DEF Chosen
  <2>3. ASSUME NEW g, g = f PROVE FrameGood(g)'
    <3>1. LedTo(g.path, g.dir)' /\ g.dir = g.information.ino
      BY <1>3, <1>4, <1>9, <2>3
    <3>2. \A n \in Names : Wanted(Append(g.path, n)) => n \in g.names \cup (IF Administrative THEN g.unlisted ELSE {})
      BY <1>4, <2>1, <2>2, <2>3
    <3>. QED BY <1>8, <3>1, <3>2 DEF FrameGood, Complete, Left
  <2>. QED BY <1>5, <2>3 DEF FramesGood
<1>11. HereGood'
  BY <1>2 DEF HereGood, AtHand
<1>12. entries' = IF Administrative THEN {Entry(<<>>, "dir", <<>>)} ELSE {}
  BY DEF OpenRoot
<1>13. EntriesGood'
  <2>1. Contents(node', opened) = <<>> /\ node'[opened].kind = "dir"
    BY <1>2, <1>7 DEF Contents
  <2>2. ASSUME NEW e, e = Entry(<<>>, "dir", <<>>) PROVE EntryGood(e)'
    <3>1. e.path = <<>> /\ e.kind = "dir" /\ e.data = <<>>
      BY <2>2 DEF Entry
    <3>. QED BY <1>6, <1>9, <2>1, <3>1 DEF EntryGood
  <2>. QED BY <1>12, <2>2 DEF EntriesGood
<1>14. LeftGood'
  <2>1. Entered' \subseteq {<<>>}
    BY <1>12 DEF Entered, Entry
  <2>. QED BY <1>4, <1>5, <2>1 DEF LeftGood
<1>15. RootGood'
  BY <1>3, <1>4, <1>5, <1>6, <1>8, <1>12 DEF RootGood, PathsOfEntries, Entry
<1>. QED BY <1>10, <1>11, <1>13, <1>14, <1>15 DEF Good

(* The next name is listed or taken: one frame changes.                    *)
LEMMA InnerChanges ==
  ASSUME TypeOK, Good, Onward, Read \subseteq Read', stack # <<>>, seen # <<>>, seen'[1] = seen[1],
         NEW f \in Frames, stack' = InnerBecomes(f), f.path = Inner.path, f.dir = Inner.dir,
         f.information = Inner.information, entries' = entries, HereGood',
         \A n \in Names : /\ node[Inner.dir].child[n] # Nowhere /\ Wanted(Append(Inner.path, n))
                          /\ n \in Left(Inner)
                          => n \in f.names \cup (IF Administrative THEN f.unlisted ELSE {})
                             \/ Append(Inner.path, n) \in Read'
  PROVE  Good'
<1>1. /\ DOMAIN stack' = DOMAIN stack /\ stack'[Len(stack)] = f
      /\ \A k \in DOMAIN stack : k # Len(stack) => stack'[k] = stack[k]
  BY NewInner
<1>2. Inner = stack[Len(stack)] /\ Len(stack) \in DOMAIN stack /\ Inner \in Frames
  BY InnerOf
<1>3. ASSUME NEW g, g = f PROVE FrameGood(g)'
  <2>. DEFINE h == Inner
  <2>1. /\ Inner.dir = Inner.information.ino /\ LedTo(Inner.path, Inner.dir)
        /\ Complete(Inner.path, Inner.dir, Read, Left(Inner))
    BY <1>2 DEF Good, FramesGood, FrameGood
  <2>2. g.path \in Seq(Names) /\ g.path = Inner.path /\ g.dir = Inner.dir
    BY <1>2, <1>3 DEF Frames
  <2>3. LedTo(g.path, g.dir)' /\ node'[g.dir] = node[g.dir]
    <3>1. LedTo(g.path, g.dir)
      BY <2>1, <2>2
    <3>. QED BY <2>2, <3>1, LedOn
  <2>4. \A n \in Names : node[g.dir].child[n] # Nowhere /\ Wanted(Append(g.path, n))
                         => n \in g.names \cup (IF Administrative THEN g.unlisted ELSE {})
                            \/ Append(g.path, n) \in Read'
    BY <1>3, <2>1, <2>2 DEF Complete
  <2>. QED BY <1>3, <2>1, <2>2, <2>3, <2>4, WantedOn DEF FrameGood, Complete, Left
<1>4. FramesGood'
  <2>1. \A k \in DOMAIN stack : \A g \in {stack[k]} : FrameGood(g)'
    BY GoodOn
  <2>. QED BY <1>1, <1>2, <1>3, <2>1 DEF FramesGood
<1>5. EntriesGood'
  BY GoodOn DEF EntriesGood
<1>6. LeftGood'
  <2>1. \A k \in DOMAIN stack : stack'[k].path = stack[k].path
    BY <1>1, <1>2
  <2>2. Entered' = Entered
    BY DEF Entered
  <2>3. \A path \in Entered : (\E k \in DOMAIN stack : stack[k].path = path) \/ Settled(path)'
    BY GoodOn
  <2>. QED BY <1>1, <2>1, <2>2, <2>3 DEF LeftGood
<1>7. RootGood'
  BY WantedOn DEF Good, RootGood, Onward
<1>. QED BY <1>4, <1>5, <1>6, <1>7 DEF Good

LEMMA ReadList ==
  ASSUME TypeOK, ToldInv, ShapeInv, ReadInv, ListName
  PROVE  ReadInv'
<1>. SUFFICES ASSUME Undeceived' PROVE Good'
  BY DEF ReadInv
<1>1. /\ stack # <<>> /\ seen # <<>> /\ Inner.unlisted # {} /\ Administrative /\ pc = "list" /\ pc' = pc
      /\ checks = <<>> /\ UNCHANGED <<root, selection, seen, entries, node, checks>>
  BY DEF ListName, Ready, ShapeInv, PlaceShape, Reading, Inside
<1>2. Undeceived
  BY <1>1 DEF Undeceived
<1>3. Good
  BY <1>1, <1>2 DEF ReadInv, Reading, Inside
<1>4. SeenObjects' = SeenObjects /\ Onward
  BY <1>1 DEF Onward, SeenObjects, PathsOfEntries
<1>5. Read \subseteq Read' /\ HereGood'
  BY <1>1 DEF Read, PathsOfEntries, AtHand, HereGood
<1>. DEFINE n == Min(Inner.unlisted)
            listed == IF Look(Inner.dir, n) = Nowhere THEN {} ELSE {n}
            f == [Inner EXCEPT !.unlisted = @ \ {n}, !.names = @ \cup listed]
<1>6. /\ n \in Names /\ f \in Frames /\ f.path = Inner.path /\ f.dir = Inner.dir
      /\ f.information = Inner.information
      /\ f.unlisted = Inner.unlisted \ {n} /\ f.names = Inner.names \cup listed
  BY <1>1, ListedFrame
<1>7. stack' = InnerBecomes(f)
  BY DEF ListName
<1>8. node[Inner.dir].child[n] # Nowhere => n \in listed
  BY <1>1, <1>6, InnerOf, LookType DEF Frames
<1>. HIDE DEF f, n, listed
<1>9. \A m \in Names : m \in Left(Inner) /\ node[Inner.dir].child[m] # Nowhere
                       => m \in f.names \cup (IF Administrative THEN f.unlisted ELSE {})
  BY <1>1, <1>6, <1>8 DEF Left
<1>. QED BY <1>1, <1>3, <1>4, <1>5, <1>6, <1>7, <1>9, InnerChanges

LEMMA ReadObserve ==
  ASSUME TypeOK, ToldInv, ShapeInv, ReadInv, Walk \/ Collect
  PROVE  ReadInv'
<1>. SUFFICES ASSUME Undeceived' PROVE Good'
  BY DEF ReadInv
<1>1. PICK kind, next : /\ stack # <<>> /\ checks = <<>> /\ pc = EntriesNext /\ Observe(kind, next)
                        /\ \/ kind = "file" /\ next = "openFile"
                           \/ kind = "dir" /\ next = "openDirectory"
                           \/ kind = "link" /\ next = "readLink"
  BY Taken DEF ShapeInv
<1>2. /\ pc \in {"walk", "collect"} /\ seen # <<>> /\ UNCHANGED <<root, selection, seen, entries, node>>
      /\ pc' = next
  BY <1>1 DEF Observe, EntriesNext, ShapeInv, PlaceShape, Reading, Inside
<1>3. Undeceived
  BY <1>1, <1>2 DEF Undeceived
<1>4. Good
  BY <1>2, <1>3 DEF ReadInv, Reading, Inside
<1>5. SeenObjects' = SeenObjects /\ Onward /\ PathsOfEntries' = PathsOfEntries
  BY <1>2 DEF Onward, SeenObjects, PathsOfEntries
<1>6. PICK n \in Inner.names :
           LET f == [Inner EXCEPT !.names = @ \ {n}]
           IN  /\ n \in Names /\ Look(Inner.dir, n) \in Objects
               /\ node[Inner.dir].child[n] = Look(Inner.dir, n)
               /\ here' = Found(Inner.dir, n, Append(Inner.path, n))
               /\ f \in Frames /\ stack' = InnerBecomes(f)
               /\ f.path = Inner.path /\ f.dir = Inner.dir /\ f.information = Inner.information
               /\ f.unlisted = Inner.unlisted /\ f.names = Inner.names \ {n}
  BY <1>1, Observed
<1>. DEFINE f == [Inner EXCEPT !.names = @ \ {n}]
<1>7. /\ f \in Frames /\ stack' = InnerBecomes(f) /\ f.path = Inner.path /\ f.dir = Inner.dir
      /\ f.information = Inner.information
      /\ f.unlisted = Inner.unlisted /\ f.names = Inner.names \ {n}
  BY <1>6
<1>. HIDE DEF f
<1>8. /\ here'.dir = Inner.dir /\ here'.name = n /\ here'.path = Append(Inner.path, n)
      /\ here'.information.ino = Look(Inner.dir, n)
  BY <1>6 DEF Found, Stat
<1>9. pc' \in AtHand /\ pc' \notin {"readFile", "charge"}
  BY <1>1, <1>2 DEF AtHand
<1>10. Read \subseteq Read' /\ Append(Inner.path, n) \in Read'
  BY <1>2, <1>5, <1>8, <1>9 DEF Read, AtHand
<1>11. HereGood'
  BY <1>2, <1>6, <1>8, <1>9 DEF HereGood
<1>12. \A m \in Names : m \in Left(Inner)
                        => m \in f.names \cup (IF Administrative THEN f.unlisted ELSE {})
                           \/ Append(Inner.path, m) \in Read'
  BY <1>7, <1>10 DEF Left
<1>. QED BY <1>1, <1>2, <1>4, <1>5, <1>7, <1>10, <1>11, <1>12, InnerChanges

(* A directory is left: everything wanted in it was read.                  *)
LEMMA ReadLeave ==
  ASSUME TypeOK, ToldInv, ShapeInv, ReadInv, Leave
  PROVE  ReadInv'
<1>. SUFFICES ASSUME Undeceived' PROVE Good'
  BY DEF ReadInv
<1>1. /\ stack # <<>> /\ checks = <<>> /\ pc \in {"walk", "collect"} /\ stack' = Front(stack)
      /\ Inner.names = {} /\ UNCHANGED <<root, selection, seen, entries, node>>
      /\ pc' \in {"walk", "collect", "validate"}
  BY DEF Leave, Ready, EntriesNext
<1>2. seen # <<>>
  BY <1>1 DEF ShapeInv, PlaceShape, Reading, Inside
<1>3. Undeceived
  BY <1>1 DEF Undeceived
<1>4. Good
  BY <1>1, <1>3 DEF ReadInv, Reading, Inside
<1>5. SeenObjects' = SeenObjects /\ Onward /\ PathsOfEntries' = PathsOfEntries
  BY <1>1 DEF Onward, SeenObjects, PathsOfEntries
<1>6. Read = PathsOfEntries /\ Read' = PathsOfEntries' /\ HereGood'
  BY <1>1 DEF Read, AtHand, HereGood
<1>7. Inner = stack[Len(stack)] /\ Len(stack) \in DOMAIN stack /\ Inner \in Frames
  BY <1>1, InnerOf
<1>8. \A k \in DOMAIN stack' : k \in DOMAIN stack /\ stack'[k] = stack[k]
  <2>1. /\ Len(stack) \in Nat \ {0} /\ stack' \in Seq(Frames) /\ Len(stack') = Len(stack) - 1
        /\ \A k \in 1..(Len(stack) - 1) : stack'[k] = stack[k]
    <3>1. stack \in Seq(Frames)
      BY DEF TypeOK
    <3>. QED BY <1>1, <3>1, LastOf
  <2>2. DOMAIN stack' = 1..(Len(stack) - 1) /\ DOMAIN stack = 1..Len(stack)
    BY <2>1, LenProperties DEF TypeOK
  <2>. QED BY <2>1, <2>2
<1>9. \A k \in DOMAIN stack : k # Len(stack) => k \in DOMAIN stack' /\ stack'[k] = stack[k]
  <2>1. /\ Len(stack) \in Nat \ {0} /\ stack' \in Seq(Frames) /\ Len(stack') = Len(stack) - 1
        /\ \A k \in 1..(Len(stack) - 1) : stack'[k] = stack[k]
    <3>1. stack \in Seq(Frames)
      BY DEF TypeOK
    <3>. QED BY <1>1, <3>1, LastOf
  <2>2. DOMAIN stack' = 1..(Len(stack) - 1) /\ DOMAIN stack = 1..Len(stack)
    BY <2>1, LenProperties DEF TypeOK
  <2>. QED BY <2>1, <2>2
<1>10. FramesGood'
  <2>1. \A k \in DOMAIN stack : \A g \in {stack[k]} : FrameGood(g)'
    BY <1>4, <1>5, <1>6, GoodOn
  <2>. QED BY <1>8, <2>1 DEF FramesGood
<1>11. EntriesGood'
  BY <1>1, <1>4, <1>5, <1>6, GoodOn DEF EntriesGood
<1>12. Settled(Inner.path)
  <2>1. FrameGood(Inner)
    BY <1>4, <1>7 DEF Good, FramesGood
  <2>2. Left(Inner) = {}
    <3>1. Administrative => Inner.unlisted = {}
      BY <1>1, <1>7 DEF ShapeInv, ListShape
    <3>. QED BY <1>1, <3>1 DEF Left
  <2>3. Inner.dir \in SeenObjects
    BY <1>7, <2>1, LeadsThere DEF FrameGood, LedTo, Frames
  <2>. QED BY <1>6, <2>1, <2>2, <2>3 DEF FrameGood, Settled
<1>13. LeftGood'
  <2>1. Entered' = Entered
    BY <1>1 DEF Entered
  <2>2. \A path \in Entered : (\E k \in DOMAIN stack : stack[k].path = path) \/ Settled(path)'
    BY <1>4, <1>5, <1>6, GoodOn
  <2>3. ASSUME NEW path, path = Inner.path PROVE Settled(path)'
    <3>1. path \in Seq(Names) /\ Settled(path)
      BY <1>7, <1>12, <2>3 DEF Frames
    <3>. QED BY <1>5, <3>1, SettledOn
  <2>4. ASSUME NEW path \in Entered
        PROVE  (\E k \in DOMAIN stack' : stack'[k].path = path) \/ Settled(path)'
    <3>1. CASE path = Inner.path
      BY <2>3, <3>1
    <3>2. CASE path # Inner.path
      BY <1>7, <1>9, <2>2, <3>2
    <3>. QED BY <3>1, <3>2
  <2>. QED BY <2>1, <2>4 DEF LeftGood
<1>14. RootGood'
  BY <1>1, <1>4, <1>5, WantedOn DEF Good, RootGood, Onward
<1>. QED BY <1>6, <1>10, <1>11, <1>13, <1>14 DEF Good

(* What is at hand becomes an entry.                                       *)
Becomes(o, e) ==
  /\ seen' = Append(seen, o) /\ entries' = entries \cup {e}
  /\ UNCHANGED <<root, selection, node>> /\ pc' \notin AtHand

LEMMA BecomesOn ==
  ASSUME TypeOK, ToldInv, ShapeInv, ReadInv, pc \in AtHand, checks = <<>>, Undeceived',
         NEW o \in Observations, o.information = here.information,
         NEW e, e.path = here.path, Becomes(o, e)
  PROVE  LET i == here.information.ino
         IN  /\ Good /\ Onward /\ Read \subseteq Read' /\ RootGood' /\ HereGood'
             /\ PathsOfEntries' = PathsOfEntries \cup {here.path}
             /\ Leads(node', root', SeenObjects', here.path, i) /\ i \in SeenObjects' /\ i \in Objects
             /\ node[i].kind = here.information.kind /\ node[i].size = here.information.size
             /\ node[i].at = here.information.at
<1>. DEFINE i == here.information.ino
<1>1. /\ \A k \in DOMAIN seen' : node'[seen'[k].information.ino].at = seen'[k].information.at
      /\ UNCHANGED <<root, selection, node>> /\ seen' = Append(seen, o)
  BY DEF Undeceived, Becomes
<1>2. /\ here \in HereAt /\ i \in Objects /\ seen # <<>> /\ stack # <<>> /\ here.dir = Inner.dir
      /\ here.path = Append(Inner.path, here.name) /\ pc \in Reading
  BY DEF TypeOK, ShapeInv, PlaceShape, HereShape, Reading, Inside, HereAt, Information
<1>3. /\ \A k \in DOMAIN seen : node[seen[k].information.ino].at = seen[k].information.at
      /\ node[i].at = here.information.at /\ SeenObjects' = SeenObjects \cup {i} /\ seen'[1] = seen[1]
  BY <1>1, <1>2, SeenAfter
<1>4. Good
  BY <1>2, <1>3 DEF Undeceived, ReadInv
<1>5. PathsOfEntries' = PathsOfEntries \cup {here.path}
  BY DEF Becomes, PathsOfEntries
<1>6. Onward
  BY <1>1, <1>3, <1>5 DEF Onward
<1>7. Read' = PathsOfEntries' /\ Read \subseteq Read' /\ HereGood'
  BY <1>5 DEF Read, Becomes, HereGood
<1>8. RootGood'
  BY <1>3, <1>4, <1>5, <1>6, WantedOn DEF Good, RootGood, Onward
<1>9. node[i].kind = here.information.kind /\ node[i].size = here.information.size
  BY <1>3 DEF ToldInv, Tells
<1>10. Leads(node', root', SeenObjects', here.path, i)
  <2>1. Inner \in Frames /\ FrameGood(Inner)
    BY <1>2, <1>4, InnerOf DEF Good, FramesGood
  <2>2. \A d : \A path \in Seq(Names) : LedTo(path, d) => Leads(node', root', SeenObjects', path, d)
    BY <1>6, LedOn DEF LedTo
  <2>3. Leads(node', root', SeenObjects', Inner.path, here.dir) /\ Inner.path \in Seq(Names)
    BY <1>2, <2>1, <2>2 DEF FrameGood, Frames
  <2>4. node'[here.dir].child[here.name] = i
    BY <1>1, <1>4 DEF Good, HereGood
  <2>5. here.name \in Names /\ i \in SeenObjects'
    BY <1>2, <1>3 DEF HereAt
  <2>. HIDE DEF i
  <2>. QED BY <1>2, <2>3, <2>4, <2>5, LeadsDown
<1>. QED BY <1>2, <1>3, <1>4, <1>5, <1>6, <1>7, <1>8, <1>9, <1>10

LEMMA EntriesBecome ==
  ASSUME TypeOK, ToldInv, ShapeInv, ReadInv, pc \in AtHand, checks = <<>>, Undeceived',
         NEW o \in Observations, o.information = here.information,
         NEW e, e.path = here.path, Becomes(o, e), e.kind = here.information.kind,
         e.data = Contents(node, here.information.ino)
  PROVE  EntriesGood'
<1>. DEFINE i == here.information.ino
<1>1. /\ Good /\ Onward /\ Read \subseteq Read' /\ i \in SeenObjects'
      /\ Leads(node', root', SeenObjects', here.path, i) /\ node[i].kind = here.information.kind
      /\ node' = node /\ entries' = entries \cup {e}
  BY BecomesOn DEF Becomes
<1>2. \A x \in entries : EntryGood(x)'
  BY <1>1, GoodOn
<1>3. ASSUME NEW x, x = e PROVE EntryGood(x)'
  <2>1. Leads(node', root', SeenObjects', x.path, i)
    BY <1>1, <1>3
  <2>2. x.kind = node'[i].kind /\ x.data = Contents(node', i)
    BY <1>1, <1>3
  <2>. HIDE DEF i
  <2>3. \E j \in SeenObjects' : /\ Leads(node', root', SeenObjects', x.path, j)
                                /\ x.kind = node'[j].kind /\ x.data = Contents(node', j)
    BY <1>1, <2>1, <2>2
  <2>. QED BY <2>3 DEF EntryGood, LedTo
<1>. QED BY <1>1, <1>2, <1>3 DEF EntriesGood

LEMMA LeafBecomes ==
  ASSUME TypeOK, ToldInv, ShapeInv, ReadInv, pc \in AtHand, checks = <<>>, Undeceived',
         NEW o \in Observations, o.information = here.information,
         NEW e, e.path = here.path, Becomes(o, e), e.kind = here.information.kind,
         e.data = Contents(node, here.information.ino), e.kind # "dir", stack' = stack
  PROVE  Good'
<1>1. Good /\ Onward /\ Read \subseteq Read' /\ RootGood' /\ HereGood' /\ EntriesGood'
  BY BecomesOn, EntriesBecome
<1>2. FramesGood'
  BY <1>1, GoodOn DEF FramesGood
<1>3. LeftGood'
  <2>1. Entered' = Entered
    BY DEF Entered, Becomes
  <2>2. \A path \in Entered : (\E k \in DOMAIN stack : stack[k].path = path) \/ Settled(path)'
    BY <1>1, GoodOn
  <2>. QED BY <2>1, <2>2 DEF LeftGood
<1>. QED BY <1>1, <1>2, <1>3 DEF Good

LEMMA ReadCharge ==
  ASSUME TypeOK, ToldInv, ShapeInv, ReadInv, Charge
  PROVE  ReadInv'
<1>. SUFFICES ASSUME Undeceived' PROVE Good'
  BY DEF ReadInv
<1>. DEFINE o == Observation(here.dir, here.name, here.information, Nowhere, <<>>)
            e == Entry(here.path, "file", here.data)
            i == here.information.ino
<1>1. pc = "charge" /\ pc \in AtHand /\ checks = <<>> /\ here \in HereAt /\ stack' = stack
  BY DEF Charge, Ready, AtHand, TypeOK
<1>2. o \in Observations /\ o.information = here.information
  <2>1. <<>> \in Seq(Part)
    OBVIOUS
  <2>2. o \in Observations
    BY <1>1, <2>1, ObservationType DEF HereAt
  <2>. QED BY <2>2 DEF Observation
<1>3. e.path = here.path /\ e.kind = "file" /\ e.data = here.data /\ here.information.kind = "file"
  BY <1>1 DEF Entry, ShapeInv, HereShape
<1>4. Becomes(o, e)
  <2>1. pc' \notin AtHand
    BY DEF Charge, EntriesNext, AtHand
  <2>. QED BY <2>1 DEF Charge, Becomes
<1>. HIDE DEF o, e
<1>5. /\ Good /\ i \in Objects /\ node[i].kind = here.information.kind
      /\ node[i].size = here.information.size /\ node[i].at = here.information.at
  BY <1>1, <1>2, <1>3, <1>4, BecomesOn
<1>6. here.data = Contents(node, i)
  <2>1. /\ here.data \in Seq(Part) /\ Len(here.data) = node[i].size
        /\ \A k \in DOMAIN here.data : /\ here.data[k][1] = i
                                       /\ node[i].at <= here.data[k][2]
                                       /\ here.data[k][2] <= node[i].at
    BY <1>1, <1>5 DEF HereAt, ShapeInv, HereShape, Good, HereGood
  <2>2. node[i].at \in Nat /\ node[i].size \in Nat
    BY <1>5 DEF TypeOK, Nodes
  <2>3. DOMAIN here.data = 1..node[i].size
    BY <2>1, LenProperties
  <2>4. ASSUME NEW k \in 1..node[i].size PROVE here.data[k] = <<i, node[i].at>>
    <3>1. here.data[k] \in Part
      BY <2>1, <2>3
    <3>2. here.data[k] = <<here.data[k][1], here.data[k][2]>> /\ here.data[k][2] \in Nat
      BY <3>1 DEF Part
    <3>3. here.data[k][1] = i /\ here.data[k][2] = node[i].at
      BY <2>1, <2>2, <2>3, <3>2
    <3>. QED BY <3>2, <3>3
  <2>5. here.data = [k \in 1..node[i].size |-> <<i, node[i].at>>]
    <3>. HIDE DEF i
    <3>1. here.data = [k \in DOMAIN here.data |-> here.data[k]]
      BY <2>1
    <3>. QED BY <2>3, <2>4, <3>1
  <2>6. node[i].kind # "dir"
    BY <1>3, <1>5
  <2>. HIDE DEF i
  <2>. QED BY <2>5, <2>6 DEF Contents
<1>. HIDE DEF i
<1>7. "file" # "dir"
  OBVIOUS
<1>. QED BY <1>1, <1>2, <1>3, <1>4, <1>6, <1>7, LeafBecomes DEF i

LEMMA ReadText ==
  ASSUME TypeOK, ToldInv, ShapeInv, ReadInv, ReadLink
  PROVE  ReadInv'
<1>. SUFFICES ASSUME Undeceived' PROVE Good'
  BY DEF ReadInv
<1>. DEFINE text == TextOf(here.dir, here.name)
            o == Observation(here.dir, here.name, here.information, Nowhere, text)
            e == Entry(here.path, "link", text)
            i == here.information.ino
<1>1. pc = "readLink" /\ pc \in AtHand /\ checks = <<>> /\ here \in HereAt /\ stack' = stack
  BY DEF ReadLink, Ready, AtHand, TypeOK
<1>2. text \in Seq(Part) /\ Look(here.dir, here.name) = node[here.dir].child[here.name]
  <2>1. Look(here.dir, here.name) \in Objects /\ here.dir \in Objects /\ here.name \in Names
    BY <1>1, LookType DEF ReadLink, IsLink, Place, HereAt
  <2>2. text \in Seq(Part)
    BY <2>1, ContentsType DEF TextOf, TypeOK
  <2>. QED BY <2>1, <2>2, LookType
<1>3. seen' = Append(seen, o) /\ entries' = entries \cup {e}
  BY DEF ReadLink
<1>4. o \in Observations /\ o.information = here.information
  <2>. HIDE DEF text
  <2>1. o \in Observations
    BY <1>1, <1>2, ObservationType DEF HereAt
  <2>. QED BY <2>1 DEF Observation
<1>5. e.path = here.path /\ e.kind = "link" /\ e.data = text /\ here.information.kind = "link"
  BY <1>1 DEF Entry, ShapeInv, HereShape
<1>. HIDE DEF o, e
<1>6. Becomes(o, e)
  <2>1. pc' \notin AtHand
    BY DEF ReadLink, AtHand
  <2>. QED BY <1>3, <2>1 DEF ReadLink, Becomes
<1>7. Good
  BY <1>1, <1>4, <1>5, <1>6, BecomesOn
<1>8. text = Contents(node, i)
  <2>1. node[here.dir].child[here.name] = i
    BY <1>1, <1>7 DEF Good, HereGood
  <2>. QED BY <1>2, <2>1 DEF TextOf
<1>. HIDE DEF text
<1>9. "link" # "dir"
  OBVIOUS
<1>. QED BY <1>1, <1>4, <1>5, <1>6, <1>8, <1>9, LeafBecomes

LEMMA ReadDirectory ==
  ASSUME TypeOK, ToldInv, ShapeInv, ReadInv, OpenDirectory
  PROVE  ReadInv'
<1>. SUFFICES ASSUME Undeceived' PROVE Good'
  BY DEF ReadInv
<1>1. PICK child \in Opens(here.dir, here.name) :
       /\ checks' = <<Compare(child, Self, here.information),
                      Compare(here.dir, here.name, here.information)>>
       /\ stack' = Append(stack, Frame(child, Chosen(here.path)))
       /\ seen' = Append(seen, Observation(here.dir, here.name, here.information, child, <<>>))
  BY DEF OpenDirectory
<1>. DEFINE o == Observation(here.dir, here.name, here.information, child, <<>>)
            e == Entry(here.path, "dir", <<>>)
            f == Frame(child, Chosen(here.path))
            i == here.information.ino
<1>2. pc = "openDirectory" /\ pc \in AtHand /\ checks = <<>> /\ here \in HereAt
  BY DEF OpenDirectory, Ready, AtHand, TypeOK
<1>3. child = i /\ child \in Objects
  <2>1. child = i
    BY <1>1, HandleCompared
  <2>. QED BY <1>2, <2>1 DEF HereAt, Information
<1>4. o \in Observations /\ o.information = here.information
  <2>1. <<>> \in Seq(Part)
    OBVIOUS
  <2>2. o \in Observations
    BY <1>2, <1>3, <2>1, ObservationType DEF HereAt
  <2>. QED BY <2>2 DEF Observation
<1>5. e.path = here.path /\ e.kind = "dir" /\ e.data = <<>> /\ here.information.kind = "dir"
  BY <1>2 DEF Entry, ShapeInv, HereShape
<1>6. f \in Frames /\ f.path = here.path /\ f.dir = i /\ f.information = here.information
      /\ f.unlisted = Names /\ f.names = Chosen(here.path)
  BY <1>2, <1>3, FrameType, ChosenType
<1>7. Becomes(o, e)
  <2>1. pc' \notin AtHand
    BY DEF OpenDirectory, AtHand
  <2>. QED BY <1>1, <2>1 DEF OpenDirectory, Becomes
<1>8. stack' = Append(stack, f)
  BY <1>1
<1>. HIDE DEF o, e, f
<1>9. /\ Good /\ Onward /\ Read \subseteq Read' /\ RootGood' /\ HereGood' /\ i \in SeenObjects'
      /\ Leads(node', root', SeenObjects', here.path, i) /\ node[i].kind = here.information.kind
  BY <1>2, <1>4, <1>5, <1>7, BecomesOn
<1>. HIDE DEF i
<1>10. EntriesGood'
  <2>1. e.data = Contents(node, here.information.ino)
    BY <1>5, <1>9 DEF Contents, i
  <2>. QED BY <1>2, <1>4, <1>5, <1>7, <2>1, EntriesBecome
<1>11. /\ DOMAIN stack' = 1..(Len(stack) + 1) /\ DOMAIN stack = 1..Len(stack) /\ Len(stack) \in Nat
       /\ stack'[Len(stack) + 1] = f /\ \A k \in 1..Len(stack) : stack'[k] = stack[k]
  <2>1. stack \in Seq(Frames)
    BY DEF TypeOK
  <2>. QED BY <1>6, <1>8, <2>1, Appended, LenProperties
<1>12. ASSUME NEW g, g = f PROVE FrameGood(g)'
  <2>1. Leads(node', root', SeenObjects', g.path, g.dir) /\ g.dir = g.information.ino
    BY <1>6, <1>9, <1>12 DEF i
  <2>2. \A n \in Names : Wanted(Append(g.path, n)) => n \in g.names \cup (IF Administrative THEN g.unlisted ELSE {})
    BY <1>6, <1>12 DEF Chosen
  <2>. QED BY <1>9, <2>1, <2>2, WantedOn DEF FrameGood, LedTo, Complete, Left
<1>13. FramesGood'
  <2>1. \A k \in DOMAIN stack : \A g \in {stack[k]} : FrameGood(g)'
    BY <1>9, GoodOn
  <2>2. ASSUME NEW k \in DOMAIN stack', NEW g, g = stack'[k] PROVE FrameGood(g)'
    <3>1. CASE k \in DOMAIN stack
      BY <1>11, <2>1, <2>2, <3>1
    <3>2. CASE k \notin DOMAIN stack
      <4>1. k = Len(stack) + 1
        BY <1>11, <2>2, <3>2
      <4>. QED BY <1>11, <1>12, <2>2, <4>1
    <3>. QED BY <3>1, <3>2
  <2>. QED BY <2>2 DEF FramesGood
<1>14. LeftGood'
  <2>1. Entered' = Entered \cup {here.path}
    BY <1>5, <1>7 DEF Entered, Becomes
  <2>2. \A path \in Entered : (\E k \in DOMAIN stack : stack[k].path = path) \/ Settled(path)'
    BY <1>9, GoodOn
  <2>3. \A k \in DOMAIN stack : k \in DOMAIN stack' /\ stack'[k] = stack[k]
    BY <1>11
  <2>4. Len(stack) + 1 \in DOMAIN stack' /\ stack'[Len(stack) + 1].path = here.path
    BY <1>6, <1>11
  <2>5. ASSUME NEW path \in Entered'
        PROVE  (\E k \in DOMAIN stack' : stack'[k].path = path) \/ Settled(path)'
    BY <2>1, <2>2, <2>3, <2>4
  <2>. QED BY <2>5 DEF LeftGood
<1>. QED BY <1>9, <1>10, <1>13, <1>14 DEF Good

LEMMA ReadStep ==
  TypeOK /\ WorldInv /\ ToldInv /\ ShapeInv /\ ReadInv /\ [Next]_vars => ReadInv'
<1>. SUFFICES ASSUME TypeOK, WorldInv, ToldInv, ShapeInv, ReadInv, [Next]_vars PROVE ReadInv'
  OBVIOUS
<1>1. CASE Fail \/ ObserveRoot \/ Validate \/ Revalidate \/ ReadLinkAgain \/ Return
  <2>1. pc' \notin Reading
    BY <1>1 DEF Fail, ObserveRoot, Validate, Revalidate, ReadLinkAgain, Return, Reading, Inside, AtHand
  <2>. QED BY <2>1 DEF ReadInv
<1>2. CASE UNCHANGED vars
  <2>. SUFFICES ASSUME (pc \in Reading)', Undeceived' PROVE Good'
    BY DEF ReadInv
  <2>1. UNCHANGED <<node, selection, pc, checks, root, stack, here, seen, entries>>
    BY <1>2 DEF vars, reader
  <2>2. Good /\ seen # <<>>
    BY <2>1 DEF ReadInv, Undeceived, ShapeInv, PlaceShape
  <2>3. Onward /\ Read' = Read
    BY <2>1 DEF Onward, SeenObjects, PathsOfEntries, Read
  <2>4. HereGood'
    BY <2>1, <2>2 DEF Good, HereGood
  <2>. QED BY <2>1, <2>2, <2>3, <2>4, GoodStays
<1>. QED BY <1>1, <1>2, ReadOthers, ReadRoot, ReadQuiet, ReadList, ReadObserve, ReadLeave,
            ReadDirectory, ReadCharge, ReadText DEF Next, Reads

--------------------------------------------------------------------------------
(* What was read is the tree there is, if nothing that was observed has    *)
(* changed.                                                                *)
LEMMA Beginning ==
  ASSUME NEW S, NEW s \in Seq(S), NEW m \in 0..Len(s)
  PROVE  /\ SubSeq(s, 1, m) \in Seq(S) /\ Len(SubSeq(s, 1, m)) = m
         /\ \A k \in 1..m : SubSeq(s, 1, m)[k] = s[k]
         /\ m # Len(s) => SubSeq(s, 1, m + 1) = Append(SubSeq(s, 1, m), s[m + 1])
         /\ m = Len(s) => SubSeq(s, 1, m) = s
<1>1. Len(s) \in Nat /\ m \in Nat /\ \A k \in 1..Len(s) : s[k] \in S
  OBVIOUS
<1>2. ASSUME NEW j \in 0..Len(s)
      PROVE  SubSeq(s, 1, j) \in Seq(S) /\ Len(SubSeq(s, 1, j)) = j /\ \A k \in 1..j : SubSeq(s, 1, j)[k] = s[k]
  <2>1. 1 \in Int /\ j \in Int /\ \A k \in 1..j : s[k] \in S
    BY <1>1
  <2>2. /\ SubSeq(s, 1, j) \in Seq(S) /\ Len(SubSeq(s, 1, j)) = IF 1 <= j THEN j - 1 + 1 ELSE 0
        /\ \A k \in 1..(j - 1 + 1) : SubSeq(s, 1, j)[k] = s[1 + k - 1]
    BY <2>1, SubSeqProperties
  <2>3. j - 1 + 1 = j /\ (~(1 <= j) => j = 0) /\ \A k \in 1..j : 1 + k - 1 = k
    BY <1>1
  <2>. QED BY <2>2, <2>3
<1>3. ASSUME m # Len(s) PROVE SubSeq(s, 1, m + 1) = Append(SubSeq(s, 1, m), s[m + 1])
  <2>. DEFINE p == SubSeq(s, 1, m)
              q == SubSeq(s, 1, m + 1)
              r == Append(p, s[m + 1])
  <2>1. m + 1 \in 0..Len(s) /\ m + 1 \in 1..Len(s) /\ s[m + 1] \in S
    BY <1>1, <1>3
  <2>2. q \in Seq(S) /\ Len(q) = m + 1 /\ \A k \in 1..(m + 1) : q[k] = s[k]
    BY <1>2, <2>1
  <2>3. p \in Seq(S) /\ Len(p) = m /\ \A k \in 1..m : p[k] = s[k]
    BY <1>2
  <2>. HIDE DEF p, q
  <2>4. r \in Seq(S) /\ Len(r) = m + 1 /\ r[m + 1] = s[m + 1] /\ \A k \in 1..m : r[k] = p[k]
    BY <2>1, <2>3, AppendProperties
  <2>5. \A k \in 1..(m + 1) : q[k] = r[k]
    <3>1. \A k \in 1..(m + 1) : k \in 1..m \/ k = m + 1
      BY <1>1
    <3>. HIDE DEF r
    <3>. QED BY <2>2, <2>3, <2>4, <3>1
  <2>. HIDE DEF r
  <2>6. q = r
    BY <2>2, <2>4, <2>5, SeqEqual
  <2>. QED BY <2>6 DEF p, q, r
<1>4. ASSUME m = Len(s) PROVE SubSeq(s, 1, m) = s
  <2>. DEFINE p == SubSeq(s, 1, m)
  <2>1. p \in Seq(S) /\ Len(p) = Len(s) /\ \A k \in 1..Len(p) : p[k] = s[k]
    BY <1>2, <1>4
  <2>. HIDE DEF p
  <2>2. p = s
    BY <2>1, SeqEqual
  <2>. QED BY <2>2 DEF p
<1>. QED BY <1>2, <1>3, <1>4

LEMMA BeginsWith ==
  ASSUME NEW S, NEW s \in Seq(S), NEW t \in Seq(S)
  PROVE  IsPrefix(s, t) <=> Len(s) <= Len(t) /\ \A k \in 1..Len(s) : s[k] = t[k]
<1>1. Len(s) \in Nat /\ Len(t) \in Nat
  OBVIOUS
<1>. SUFFICES ASSUME Len(s) <= Len(t)
              PROVE  SubSeq(s, 1, Len(s)) = SubSeq(t, 1, Len(s)) <=> \A k \in 1..Len(s) : s[k] = t[k]
  BY DEF IsPrefix
<1>2. Len(s) \in 0..Len(s) /\ Len(s) \in 0..Len(t)
  BY <1>1
<1>. DEFINE p == SubSeq(t, 1, Len(s))
<1>3. SubSeq(s, 1, Len(s)) = s
  BY <1>2, Beginning
<1>4. p \in Seq(S) /\ Len(p) = Len(s) /\ \A k \in 1..Len(s) : p[k] = t[k]
  BY <1>2, Beginning
<1>. HIDE DEF p
<1>5. s = p <=> \A k \in 1..Len(s) : s[k] = p[k]
  BY <1>4, SeqEqual
<1>. QED BY <1>3, <1>4, <1>5 DEF p

LEMMA LeadsReached ==
  ASSUME NEW fs \in [Objects -> Nodes], NEW from, NEW objects \in SUBSET Objects,
         NEW path \in Seq(Names), NEW i, Leads(fs, from, objects, path, i)
  PROVE  Reached(fs, from, path) = i /\ i \in Objects
<1>1. PICK c \in [0..Len(path) -> objects] :
        /\ c[0] = from /\ c[Len(path)] = i
        /\ \A k \in 1..Len(path) : fs[c[k - 1]].child[path[k]] = c[k]
  BY DEF Leads
<1>2. Len(path) \in Nat
  OBVIOUS
<1>3. c \in [0..Len(path) -> Place]
  BY <1>1 DEF Place
<1>4. ASSUME NEW k \in 1..Len(path) PROVE c[k] = Child(fs, c[k - 1], path[k])
  <2>1. k - 1 \in 0..Len(path)
    BY <1>2
  <2>2. c[k - 1] # Nowhere
    BY <1>1, <2>1, TreeReadAssumption
  <2>. QED BY <1>1, <2>2 DEF Child
<1>5. Way(fs, from, path, c)
  BY <1>1, <1>3, <1>4 DEF Way
<1>6. Len(path) \in 0..Len(path)
  BY <1>2
<1>. QED BY <1>1, <1>5, <1>6, WayIsReached

(* Where the beginning of a path leads.                                    *)
LEMMA WayOfBeginning ==
  ASSUME NEW fs, NEW from, NEW path \in Seq(Names), NEW c, Way(fs, from, path, c),
         NEW m \in 0..Len(path)
  PROVE  Reached(fs, from, SubSeq(path, 1, m)) = c[m]
<1>. DEFINE p == SubSeq(path, 1, m)
            d == [k \in 0..m |-> c[k]]
<1>1. Len(path) \in Nat /\ m \in Nat /\ m <= Len(path)
  OBVIOUS
<1>2. p \in Seq(Names) /\ Len(p) = m /\ \A k \in 1..m : p[k] = path[k]
  BY Beginning
<1>. HIDE DEF p
<1>3. \A k \in 0..m : k \in 0..Len(path)
  BY <1>1
<1>4. d \in [0..m -> Place] /\ d[0] = from
  <2>1. c \in [0..Len(path) -> Place] /\ c[0] = from
    BY DEF Way
  <2>2. \A k \in 0..m : c[k] \in Place
    BY <1>3, <2>1
  <2>3. 0 \in 0..m
    BY <1>1
  <2>. QED BY <2>1, <2>2, <2>3
<1>5. ASSUME NEW k \in 1..m PROVE d[k] = Child(fs, d[k - 1], p[k])
  <2>1. k \in 0..m /\ k - 1 \in 0..m /\ k \in 1..Len(path)
    BY <1>1
  <2>2. d[k] = c[k] /\ d[k - 1] = c[k - 1] /\ p[k] = path[k]
    BY <1>2, <2>1
  <2>. HIDE DEF d
  <2>. QED BY <2>1, <2>2 DEF Way
<1>6. d[m] = c[m]
  BY <1>1
<1>. HIDE DEF d
<1>7. Way(fs, from, p, d)
  BY <1>2, <1>4, <1>5 DEF Way
<1>8. Reached(fs, from, p) = d[Len(p)]
  BY <1>2, <1>7, WayIsReached
<1>. QED BY <1>2, <1>6, <1>8 DEF p

LEMMA WayIsThere ==
  ASSUME NEW fs \in [Objects -> Nodes], NEW from, NEW path \in Seq(Names), NEW c,
         Way(fs, from, path, c), Reached(fs, from, path) # Nowhere
  PROVE  \A k \in 0..Len(path) : c[k] \in Objects
<1>1. c[Len(path)] # Nowhere
  BY WayIsReached
<1>2. \A k \in 0..Len(path) : c[k] # Nowhere
  BY <1>1, NowhereStays
<1>. QED BY <1>2 DEF Way, Place

LEMMA PathsAreSequences ==
  /\ Paths \subseteq Seq(Names)
  /\ \A path \in Paths : Len(path) <= MaxDepth
  /\ \A path \in Seq(Names) : Len(path) <= MaxDepth => path \in Paths
<1>1. \A k \in 0..MaxDepth : k \in Nat /\ k <= MaxDepth
  BY TreeReadAssumption
<1>2. ASSUME NEW k \in 0..MaxDepth, NEW path \in [1..k -> Names]
      PROVE  path \in Seq(Names) /\ Len(path) = k
  <2>1. path \in Seq(Names) /\ DOMAIN path = 1..k /\ k \in Nat
    BY <1>1, SeqDef
  <2>2. Len(path) \in Nat /\ DOMAIN path = 1..Len(path)
    BY <2>1, LenProperties
  <2>. QED BY <2>1, <2>2
<1>3. ASSUME NEW path \in Seq(Names), Len(path) <= MaxDepth PROVE path \in Paths
  <2>1. Len(path) \in 0..MaxDepth
    BY <1>3, LenProperties, TreeReadAssumption
  <2>2. path \in [1..Len(path) -> Names]
    BY LenProperties
  <2>. QED BY <2>1, <2>2 DEF Paths
<1>. QED BY <1>1, <1>2, <1>3 DEF Paths

(* A path that leads somewhere is not too long.                            *)
LEMMA NotTooLong ==
  ASSUME NEW fs \in [Objects -> Nodes], Shallow(fs), ChildlessLeaves(fs), NEW from \in Objects,
         NEW path \in Seq(Names), Reached(fs, from, path) # Nowhere
  PROVE  path \in Paths
<1>. SUFFICES ASSUME ~(Len(path) <= MaxDepth) PROVE FALSE
  BY PathsAreSequences
<1>1. Len(path) \in Nat /\ MaxDepth + 1 \in 1..Len(path) /\ MaxDepth \in Nat
  BY TreeReadAssumption, LenProperties
<1>2. PICK c : Way(fs, from, path, c)
  BY WayExists DEF Place
<1>3. \A k \in 0..Len(path) : c[k] \in Objects
  BY <1>2, WayIsThere
<1>4. 0 \in 0..Len(path) /\ 1 \in 0..Len(path) /\ 1 \in 1..Len(path) /\ MaxDepth + 1 \in 0..Len(path)
  BY <1>1
<1>5. fs[from].kind = "dir"
  <2>1. c[1] = Child(fs, c[1 - 1], path[1]) /\ c[0] = from /\ path[1] \in Names
    BY <1>2, <1>4, ElementOfSeq DEF Way
  <2>2. c[1] # Nowhere /\ from # Nowhere
    BY <1>3, <1>4, TreeReadAssumption
  <2>3. fs[from].child[path[1]] # Nowhere
    BY <2>1, <2>2 DEF Child
  <2>. QED BY <2>1, <2>3 DEF ChildlessLeaves
<1>. DEFINE p == SubSeq(path, 1, MaxDepth + 1)
<1>6. Reached(fs, from, p) = c[MaxDepth + 1]
  BY <1>2, <1>4, WayOfBeginning
<1>7. p \in [1..MaxDepth + 1 -> Names]
  <2>1. p \in Seq(Names) /\ Len(p) = MaxDepth + 1
    BY <1>4, Beginning
  <2>. HIDE DEF p
  <2>. QED BY <2>1, LenProperties
<1>. HIDE DEF p
<1>8. Reached(fs, from, p) # Nowhere
  BY <1>3, <1>4, <1>6, TreeReadAssumption
<1>. QED BY <1>5, <1>7, <1>8 DEF Shallow

LEMMA LeavesArePaths == TypeOK => Administrative \/ selection \subseteq Paths
BY TreeReadAssumption DEF TypeOK, Administrative

(* The parents of what is wanted are wanted.                               *)
LEMMA WantedBeginning ==
  ASSUME TypeOK, NEW path \in Paths, Wanted(path), NEW m \in 1..Len(path)
  PROVE  Wanted(SubSeq(path, 1, m))
<1>. SUFFICES ASSUME ~Administrative PROVE SubSeq(path, 1, m) \in WithParents(selection)
  BY DEF Wanted
<1>. DEFINE p == SubSeq(path, 1, m)
<1>1. path \in Seq(Names) /\ Len(path) <= MaxDepth /\ Len(path) \in Nat /\ m \in 0..Len(path)
  BY PathsAreSequences
<1>2. p \in Seq(Names) /\ Len(p) = m /\ \A k \in 1..m : p[k] = path[k]
  BY <1>1, Beginning
<1>. HIDE DEF p
<1>3. PICK leaf \in selection : IsPrefix(path, leaf)
  BY DEF Wanted, WithParents
<1>4. leaf \in Seq(Names) /\ Len(leaf) \in Nat
  BY LeavesArePaths, PathsAreSequences
<1>5. Len(path) <= Len(leaf) /\ \A k \in 1..Len(path) : path[k] = leaf[k]
  BY <1>1, <1>3, <1>4, BeginsWith
<1>6. IsPrefix(p, leaf)
  <2>1. m \in Nat /\ m <= Len(leaf) /\ \A k \in 1..m : k \in 1..Len(path)
    BY <1>1, <1>4, <1>5
  <2>2. Len(p) <= Len(leaf) /\ \A k \in 1..Len(p) : p[k] = leaf[k]
    BY <1>2, <1>5, <2>1
  <2>. QED BY <1>2, <1>4, <2>2, BeginsWith
<1>7. p \in Paths /\ p # <<>>
  <2>1. m <= MaxDepth /\ m # 0
    BY <1>1, TreeReadAssumption
  <2>. QED BY <1>2, <2>1, PathsAreSequences
<1>8. p \in WithParents(selection)
  BY <1>6, <1>7 DEF WithParents
<1>. QED BY <1>8 DEF p

LEMMA TheTree ==
  ASSUME TypeOK, WorldInv, ToldInv, ShapeInv, Undeceived, Good, stack = <<>>, pc = "validate"
  PROVE  entries = TreeOf(node)
<1>1. /\ root \in Objects /\ node \in [Objects -> Nodes] /\ SeenObjects \in SUBSET Objects
      /\ Shallow(node) /\ ChildlessLeaves(node) /\ entries \subseteq Entries
  <2>1. SeenObjects \in SUBSET Objects
    BY InformationOf DEF SeenObjects, Information
  <2>. QED BY <2>1 DEF TypeOK, WorldInv, ShapeInv, PlaceShape, Reading
<1>2. ASSUME NEW e \in entries
      PROVE  /\ e.path \in Paths /\ Wanted(e.path) /\ Reached(node, root, e.path) \in Objects
             /\ e.kind = node[Reached(node, root, e.path)].kind
             /\ e = Entry(e.path, node[Reached(node, root, e.path)].kind,
                          Contents(node, Reached(node, root, e.path)))
  <2>1. PICK i \in SeenObjects : LedTo(e.path, i) /\ e.kind = node[i].kind /\ e.data = Contents(node, i)
    BY DEF Good, EntriesGood, EntryGood
  <2>2. e \in Entries /\ e.path \in Seq(Names)
    BY <1>1 DEF Entries
  <2>3. Reached(node, root, e.path) = i /\ i \in Objects
    BY <1>1, <2>1, <2>2, LeadsReached DEF LedTo
  <2>4. e.path \in Paths
    <3>1. i # Nowhere
      BY <2>3, TreeReadAssumption
    <3>. QED BY <1>1, <2>2, <2>3, <3>1, NotTooLong
  <2>5. Wanted(e.path)
    BY DEF ShapeInv, EntriesWanted
  <2>6. e = Entry(e.path, e.kind, e.data)
    BY <2>2 DEF Entries, Entry
  <2>. QED BY <2>1, <2>3, <2>4, <2>5, <2>6
<1>3. ASSUME NEW path \in Paths, Wanted(path), Reached(node, root, path) # Nowhere
      PROVE  path \in PathsOfEntries
  <2>1. path \in Seq(Names) /\ Len(path) \in Nat
    BY PathsAreSequences
  <2>2. PICK c : Way(node, root, path, c)
    BY <1>1, <2>1, WayExists DEF Place
  <2>3. \A k \in 0..Len(path) : c[k] \in Objects
    BY <1>1, <1>3, <2>1, <2>2, WayIsThere
  <2>. DEFINE B(m) == SubSeq(path, 1, m)
              S == {m \in 0..Len(path) : m = 0 \/ B(m) \in PathsOfEntries}
  <2>4. \A m \in 0..Len(path) : /\ B(m) \in Seq(Names) /\ Len(B(m)) = m
                                /\ Reached(node, root, B(m)) = c[m]
    BY <2>1, <2>2, Beginning, WayOfBeginning
  <2>5. 0 \in S
    BY <2>1
  <2>6. ASSUME NEW m \in 0..Len(path), m # Len(path), m \in S PROVE m + 1 \in S
    <3>. DEFINE n == path[m + 1]
    <3>1. m + 1 \in 1..Len(path) /\ m + 1 \in 0..Len(path) /\ (m + 1) - 1 = m /\ n \in Names
      <4>1. m + 1 \in 1..Len(path) /\ m + 1 \in 0..Len(path) /\ (m + 1) - 1 = m
        BY <2>1, <2>6
      <4>. QED BY <2>1, <4>1, ElementOfSeq
    <3>2. B(m + 1) = Append(B(m), n) /\ Wanted(B(m + 1))
      BY <1>3, <2>1, <2>6, <3>1, Beginning, WantedBeginning
    <3>3. node[c[m]].child[n] # Nowhere
      <4>1. c[m + 1] = Child(node, c[(m + 1) - 1], n) /\ c[m] \in Objects /\ c[m + 1] \in Objects
        BY <2>2, <2>3, <3>1 DEF Way
      <4>2. c[m] # Nowhere /\ c[m + 1] # Nowhere
        BY <4>1, TreeReadAssumption
      <4>. HIDE DEF n
      <4>. QED BY <3>1, <4>1, <4>2 DEF Child
    <3>4. node[c[m]].kind = "dir"
      BY <1>1, <2>3, <3>1, <3>3 DEF ChildlessLeaves
    <3>. HIDE DEF n, B
    <3>5. B(m) \in Entered
      <4>1. CASE m = 0
        <5>1. B(m) = <<>>
          BY <2>4, <4>1, EmptySeq
        <5>. QED BY <5>1 DEF Entered
      <4>2. CASE m # 0
        <5>1. PICK e \in entries : e.path = B(m)
          BY <2>6, <4>2 DEF PathsOfEntries
        <5>2. e.kind = "dir"
          BY <1>2, <2>4, <3>4, <5>1
        <5>. QED BY <5>1, <5>2 DEF Entered
      <4>. QED BY <4>1, <4>2
    <3>6. PICK i \in SeenObjects : LedTo(B(m), i) /\ Complete(B(m), i, PathsOfEntries, {})
      BY <3>5 DEF Good, LeftGood, Settled
    <3>7. i = c[m]
      BY <1>1, <2>4, <3>6, LeadsReached DEF LedTo
    <3>8. B(m + 1) \in PathsOfEntries
      BY <3>1, <3>2, <3>3, <3>6, <3>7 DEF Complete
    <3>. QED BY <3>1, <3>8
  <2>7. 0..Len(path) \subseteq S
    <3>. HIDE DEF S
    <3>. QED BY <2>1, <2>5, <2>6, HandedOn
  <2>8. Len(path) \in S
    BY <2>1, <2>7
  <2>9. CASE Len(path) = 0
    <3>1. path = <<>>
      BY <2>1, <2>9, EmptySeq
    <3>2. Administrative
      BY <1>3, <3>1 DEF Wanted, WithParents
    <3>. QED BY <3>1, <3>2 DEF Good, RootGood
  <2>10. CASE Len(path) # 0
    <3>1. B(Len(path)) = path
      BY <2>1, Beginning
    <3>. QED BY <2>8, <2>10, <3>1
  <2>. QED BY <2>9, <2>10
<1>4. entries \subseteq TreeOf(node)
  <2>1. ASSUME NEW e \in entries PROVE e \in TreeOf(node)
    <3>1. Reached(node, root, e.path) # Nowhere
      BY <1>2, TreeReadAssumption
    <3>. QED BY <1>2, <3>1 DEF TreeOf
  <2>. QED BY <2>1
<1>5. TreeOf(node) \subseteq entries
  <2>1. ASSUME NEW path \in Paths, Wanted(path), Reached(node, root, path) # Nowhere
        PROVE  Entry(path, node[Reached(node, root, path)].kind,
                     Contents(node, Reached(node, root, path))) \in entries
    <3>1. PICK e \in entries : e.path = path
      BY <1>3, <2>1 DEF PathsOfEntries
    <3>. QED BY <1>2, <3>1
  <2>. QED BY <2>1 DEF TreeOf
<1>. QED BY <1>4, <1>5

(* What is still to be looked at decides.                                  *)
LEMMA AgainStep ==
  /\ TypeOK /\ WorldInv /\ ToldInv /\ ShapeInv /\ ReadInv /\ AgainInv /\ [Next]_vars
  => AgainInv'
<1>. SUFFICES ASSUME TypeOK, WorldInv, ToldInv, ShapeInv, ReadInv, AgainInv, [Next]_vars
              PROVE  AgainInv'
  OBVIOUS
<1>1. pc \in Looking /\ Unchanged(then, seen) /\ Unchanged(then, checks) => entries = TreeOf(then)
  BY DEF AgainInv
<1>2. root' = root /\ selection' = selection => \A fs : TreeOf(fs)' = TreeOf(fs)
  BY DEF TreeOf, Wanted, WithParents, Paths, Administrative, Whole
<1>3. CASE Others \/ UNCHANGED vars
  <2>1. UNCHANGED <<pc, seen, checks, entries, then, root, selection>>
    BY <1>3 DEF Others, Write, Unlink, Put, Change, vars, reader
  <2>. QED BY <1>2, <2>1 DEF AgainInv, Unchanged
<1>4. CASE pc' \notin Looking
  BY <1>4 DEF AgainInv, Looking
<1>5. CASE Validate
  <2>1. /\ pc = "validate" /\ checks = <<>> /\ checks' = checks /\ then' = node /\ pc' = "again"
        /\ UNCHANGED <<root, selection, entries, node>>
        /\ seen' = Append(seen, Observation(Above, Top, seen[1].information, Nowhere, <<>>))
    BY <1>5 DEF Validate, Ready
  <2>2. seen # <<>> /\ stack = <<>>
    BY <2>1 DEF ShapeInv, PlaceShape, Reading, Inside, AtHand
  <2>. SUFFICES ASSUME Unchanged(node, seen') PROVE entries = TreeOf(node)
    BY <1>2, <2>1 DEF AgainInv
  <2>3. Observation(Above, Top, seen[1].information, Nowhere, <<>>) \in Observations
    <3>1. <<>> \in Seq(Part) /\ 1 \in DOMAIN seen
      BY <2>2, TailOf DEF TypeOK
    <3>2. seen[1].information \in Information
      BY <3>1, InformationOf
    <3>. QED BY <3>1, <3>2, ObservationType, TreeReadAssumption
  <2>4. \A k \in DOMAIN seen : node[seen[k].information.ino].at = seen[k].information.at
    BY <2>1, <2>3, SeenAfter DEF Unchanged
  <2>5. Undeceived
    BY <2>1, <2>4 DEF Undeceived
  <2>6. Good
    BY <2>1, <2>5 DEF ReadInv, Reading
  <2>. QED BY <2>1, <2>2, <2>5, <2>6, TheTree
<1>6. CASE Check /\ pc \in Looking
  <2>1. /\ UNCHANGED <<pc, seen, entries, then, root, selection>>
        /\ checks # <<>> /\ checks' = Tail(checks) /\ checks \in Seq(Comparisons)
    BY <1>6 DEF Check, TypeOK
  <2>. DEFINE x == checks[1].information
  <2>2. /\ Head(checks) = checks[1] /\ 1 \in DOMAIN checks
        /\ \A k \in DOMAIN checks : k # 1 => k - 1 \in DOMAIN checks' /\ checks'[k - 1] = checks[k]
    BY <2>1, TailOf
  <2>3. x.ino \in Objects /\ x.at \in Nat
    BY <2>2, InformationOf DEF Information
  <2>4. node[x.ino].at = x.at
    <3>1. Stat(Look(checks[1].dir, checks[1].name)) = x
      BY <1>6, <2>2 DEF Check
    <3>. HIDE DEF x
    <3>. QED BY <3>1 DEF Stat
  <2>5. x.at <= then[x.ino].at
    BY <1>6, <2>2 DEF ToldInv, Told, Tells
  <2>. HIDE DEF x
  <2>6. then[x.ino].at <= node[x.ino].at /\ then[x.ino].at \in Nat
    BY <2>3 DEF WorldInv, TypeOK, Nodes
  <2>7. then[x.ino].at = x.at
    BY <2>3, <2>4, <2>5, <2>6
  <2>8. Unchanged(then, checks') => Unchanged(then, checks)
    BY <2>2, <2>7 DEF Unchanged, x
  <2>9. pc' # "ok"
    BY <2>1 DEF AgainInv
  <2>. QED BY <1>1, <1>2, <1>6, <2>1, <2>8, <2>9 DEF AgainInv
<1>7. CASE Revalidate \/ ReadLinkAgain
  <2>1. /\ UNCHANGED <<entries, then, root, selection>> /\ checks = <<>> /\ seen # <<>>
        /\ pc \in Looking /\ pc' # "ok" /\ seen' \in {seen, Tail(seen)}
    BY <1>7 DEF Revalidate, ReadLinkAgain, Ready, ShapeInv, PlaceShape, Looking
  <2>2. /\ Head(seen) = seen[1] /\ Head(seen) \in Observations
        /\ \A k \in DOMAIN seen : k # 1 => k - 1 \in DOMAIN Tail(seen) /\ Tail(seen)[k - 1] = seen[k]
    BY <2>1, TailOf DEF TypeOK
  <2>3. 1 \in DOMAIN checks' /\ checks'[1].information = Head(seen).information
    <3>1. CASE Revalidate
      BY <2>2, <3>1, AgainOf DEF Revalidate
    <3>2. CASE ReadLinkAgain
      BY <3>2 DEF ReadLinkAgain, Compare
    <3>. QED BY <1>7, <3>1, <3>2
  <2>4. Unchanged(then, checks') => then[seen[1].information.ino].at = seen[1].information.at
    BY <2>2, <2>3 DEF Unchanged
  <2>5. Unchanged(then, checks') /\ Unchanged(then, seen') => Unchanged(then, seen)
    <3>1. CASE seen' = seen
      BY <3>1
    <3>2. CASE seen' = Tail(seen)
      <4>. SUFFICES ASSUME Unchanged(then, checks'), Unchanged(then, Tail(seen)), NEW k \in DOMAIN seen
                    PROVE  then[seen[k].information.ino].at = seen[k].information.at
        BY <3>2 DEF Unchanged
      <4>1. CASE k = 1
        BY <2>4, <4>1
      <4>2. CASE k # 1
        <5>1. k - 1 \in DOMAIN Tail(seen) /\ Tail(seen)[k - 1] = seen[k]
          BY <2>2, <4>2
        <5>. QED BY <5>1 DEF Unchanged
      <4>. QED BY <4>1, <4>2
    <3>. QED BY <2>1, <3>1, <3>2
  <2>6. Unchanged(then, checks)
    BY <2>1 DEF Unchanged
  <2>. QED BY <1>1, <1>2, <2>1, <2>5, <2>6 DEF AgainInv
<1>8. CASE Return
  <2>1. /\ UNCHANGED <<seen, checks, entries, then, root, selection>> /\ checks = <<>> /\ seen = <<>>
        /\ pc \in Looking
    BY <1>8 DEF Return, Ready, Looking
  <2>2. Unchanged(then, seen) /\ Unchanged(then, checks)
    BY <2>1 DEF Unchanged
  <2>. QED BY <1>1, <1>2, <2>1, <2>2 DEF AgainInv
<1>9. CASE Check /\ pc \notin Looking
  BY <1>4, <1>9 DEF Check
<1>10. CASE Fail \/ ObserveRoot \/ OpenRoot \/ OpenList \/ ListName \/ EndList \/ Walk \/ Collect \/ Leave
            \/ OpenDirectory \/ OpenFile \/ ReadPart \/ ReadEnd \/ Charge \/ ReadLink
  <2>1. pc' \notin Looking
    BY <1>10 DEF Fail, ObserveRoot, OpenRoot, OpenList, ListName, EndList, Walk, Collect, Observe, Leave,
                 OpenDirectory, OpenFile, ReadPart, ReadEnd, Charge, ReadLink, EntriesNext, Ready, Looking
  <2>. QED BY <1>4, <2>1
<1>. QED BY <1>3, <1>5, <1>6, <1>7, <1>8, <1>9, <1>10 DEF Next, Reads

--------------------------------------------------------------------------------
TreeInv == TypeOK /\ WorldInv /\ ToldInv /\ ShapeInv /\ ReadInv /\ AgainInv

LEMMA TreeInit == Init => TreeInv
<1>. SUFFICES ASSUME Init PROVE TreeInv
  OBVIOUS
<1>1. PICK fs \in FirstTrees, chosen \in {s \in Selections : Selectable(s)} : Start(fs, chosen)
  BY DEF Init
<1>2. /\ fs \in [Objects -> Nodes] /\ \A i \in Objects : fs[i].at = 0
      /\ ChildlessLeaves(fs) /\ Shallow(fs) /\ node = fs /\ then = fs /\ changes = 0
  BY <1>1, TreeReadAssumption DEF Start
<1>3. /\ selection = chosen /\ pc = "observeRoot" /\ checks = <<>> /\ root = Nowhere /\ stack = <<>>
      /\ seen = <<>> /\ entries = {} /\ bytes = 0 /\ reserved = 1
  BY <1>1 DEF Start
<1>. USE DEF AtHand, Inside, Reading, Looking
<1>4. TypeOK
  BY <1>1, <1>2, <1>3 DEF TypeOK
<1>5. WorldInv
  BY <1>2 DEF WorldInv
<1>6. ToldInv
  BY <1>3, ToldOne DEF ToldInv
<1>7. ShapeInv
  BY <1>3 DEF ShapeInv, PlaceShape, HereShape, ListShape, EntriesWanted
<1>8. ReadInv /\ AgainInv
  BY <1>3 DEF ReadInv, AgainInv
<1>. QED BY <1>4, <1>5, <1>6, <1>7, <1>8 DEF TreeInv

(* What the readers observed was so when they did, what they read so far    *)
(* is, unless something of it has changed since, a part of the tree there   *)
(* is, and what they still compare decides (read_administrative.go:43-133,  *)
(* read_untracked.go:43-133).                                               *)
THEOREM TreeInvariance == Spec => []TreeInv
<1>1. Init => TreeInv
  BY TreeInit
<1>2. TreeInv /\ [Next]_vars => TreeInv'
  BY TypeStep, WorldStep, ToldStep, ShapeStep, ReadStep, AgainStep DEF TreeInv
<1>. QED BY <1>1, <1>2, PTL DEF Spec

(* A snapshot is of one moment (read_administrative.go:121-133,             *)
(* read_untracked.go:112-133).                                              *)
THEOREM SnapshotOfOneMoment == Spec => []TreeOfOneMoment
<1>1. TreeInv => TreeOfOneMoment
  BY DEF TreeInv, AgainInv, Unchanged, TreeOfOneMoment, Looking
<1>. QED BY <1>1, TreeInvariance, PTL

--------------------------------------------------------------------------------
(* A further entry of the result.                                          *)
PartsOf(e) == IF e.kind = "file" THEN {e} \X DOMAIN e.data ELSE {}

LEMMA PartsOfEntry ==
  ASSUME NEW e \in Entries
  PROVE  IsFiniteSet(PartsOf(e)) /\ Cardinality(PartsOf(e)) = IF e.kind = "file" THEN Len(e.data) ELSE 0
<1>1. CASE e.kind # "file"
  BY <1>1, FS_EmptySet DEF PartsOf
<1>2. CASE e.kind = "file"
  <2>1. DOMAIN e.data = 1..Len(e.data) /\ Len(e.data) \in Nat
    BY DEF Entries
  <2>2. ASSUME NEW n \in Nat PROVE IsFiniteSet(1..n) /\ Cardinality(1..n) = n
    <3>1. 1 \in Int /\ n \in Int
      OBVIOUS
    <3>2. IsFiniteSet(1..n) /\ Cardinality(1..n) = IF 1 > n THEN 0 ELSE n - 1 + 1
      BY <3>1, FS_Interval
    <3>. QED BY <3>2
  <2>3. IsFiniteSet({e}) /\ Cardinality({e}) = 1
    BY FS_Singleton
  <2>4. IsFiniteSet(DOMAIN e.data) /\ Cardinality(DOMAIN e.data) = Len(e.data)
    BY <2>1, <2>2
  <2>5. IsFiniteSet({e} \X DOMAIN e.data) /\ Cardinality({e} \X DOMAIN e.data) = 1 * Len(e.data)
    <3>1. /\ IsFiniteSet({e} \X DOMAIN e.data)
          /\ Cardinality({e} \X DOMAIN e.data) = Cardinality({e}) * Cardinality(DOMAIN e.data)
      BY <2>3, <2>4, FS_Product, Zenon
    <3>. QED BY <2>3, <2>4, <3>1
  <2>6. PartsOf(e) = {e} \X DOMAIN e.data
    BY <1>2 DEF PartsOf
  <2>7. 1 * Len(e.data) = Len(e.data)
    BY <2>1
  <2>. QED BY <1>2, <2>5, <2>6, <2>7
<1>. QED BY <1>1, <1>2

LEMMA PartsMore ==
  ASSUME IsFiniteSet(Parts), NEW e \in Entries, entries' = entries \cup {e}
  PROVE  /\ IsFiniteSet(Parts')
         /\ Cardinality(Parts') <= Cardinality(Parts) + (IF e.kind = "file" THEN Len(e.data) ELSE 0)
<1>1. Parts' = Parts \cup PartsOf(e)
  <2>. DEFINE files == {x \in entries : x.kind = "file"}
  <2>1. Parts' = UNION {{x} \X DOMAIN x.data : x \in {y \in entries \cup {e} : y.kind = "file"}}
    BY DEF Parts
  <2>2. {y \in entries \cup {e} : y.kind = "file"} = files \cup (IF e.kind = "file" THEN {e} ELSE {})
    OBVIOUS
  <2>3. Parts = UNION {{x} \X DOMAIN x.data : x \in files}
    BY DEF Parts
  <2>. HIDE DEF files
  <2>4. CASE e.kind = "file"
    BY <2>1, <2>2, <2>3, <2>4 DEF PartsOf
  <2>5. CASE e.kind # "file"
    BY <2>1, <2>2, <2>3, <2>5 DEF PartsOf
  <2>. QED BY <2>4, <2>5
<1>2. IsFiniteSet(PartsOf(e)) /\ Cardinality(PartsOf(e)) = IF e.kind = "file" THEN Len(e.data) ELSE 0
  BY PartsOfEntry
<1>3. /\ IsFiniteSet(Parts \cup PartsOf(e))
      /\ Cardinality(Parts \cup PartsOf(e)) =
           Cardinality(Parts) + Cardinality(PartsOf(e)) - Cardinality(Parts \cap PartsOf(e))
  BY <1>2, FS_Union
<1>4. IsFiniteSet(Parts \cap PartsOf(e))
  BY FS_Intersection
<1>5. /\ Cardinality(Parts) \in Nat /\ Cardinality(PartsOf(e)) \in Nat
      /\ Cardinality(Parts \cap PartsOf(e)) \in Nat
  BY <1>2, <1>4, FS_CardinalityType
<1>6. Cardinality(Parts \cup PartsOf(e)) <= Cardinality(Parts) + Cardinality(PartsOf(e))
  BY <1>3, <1>5
<1>. QED BY <1>1, <1>2, <1>3, <1>6

LEMMA PartsSame ==
  ASSUME entries' = entries
  PROVE  Parts' = Parts
BY DEF Parts

LEMMA BytesStep == TypeOK /\ ShapeInv /\ BytesInv /\ [Next]_vars => BytesInv'
<1>. SUFFICES ASSUME TypeOK, ShapeInv, BytesInv, [Next]_vars PROVE BytesInv'
  OBVIOUS
<1>1. ASSUME UNCHANGED <<entries, bytes>>,
             pc' \in {"readFile", "charge"} => pc \in {"readFile", "charge"} /\ here'.information = here.information
      PROVE  BytesInv'
  BY <1>1, PartsSame DEF BytesInv
<1>2. ASSUME NEW e \in Entries, e.kind # "file", entries' = entries \cup {e}, bytes' = bytes,
             pc' \notin {"readFile", "charge"}
      PROVE  BytesInv'
  <2>1. IsFiniteSet(Parts') /\ Cardinality(Parts') <= Cardinality(Parts) + 0
    BY <1>2, PartsMore DEF BytesInv
  <2>2. Cardinality(Parts) \in Nat
    BY FS_CardinalityType DEF BytesInv
  <2>3. IsFiniteSet(Parts') /\ Cardinality(Parts') \in Nat
    BY <2>1, FS_CardinalityType
  <2>. QED BY <1>2, <2>1, <2>2, <2>3 DEF BytesInv, TypeOK
<1>3. ASSUME entries' = {}, bytes' \in Nat, bytes' <= MaxBytes, pc' \notin {"readFile", "charge"}
      PROVE  BytesInv'
  <2>1. Parts' = {}
    BY <1>3 DEF Parts
  <2>2. IsFiniteSet(Parts') /\ Cardinality(Parts') = 0
    BY <2>1, FS_EmptySet
  <2>. QED BY <1>3, <2>2 DEF BytesInv
<1>4. CASE UNCHANGED vars \/ Others
  BY <1>1, <1>4 DEF vars, reader, Others, Write, Unlink, Put, Change
<1>5. CASE Fail
  BY <1>3, <1>5, TreeReadAssumption DEF Fail
<1>6. CASE Check \/ ReadPart \/ ReadEnd
  <2>1. UNCHANGED <<entries, bytes>> /\ here'.information = here.information
    <3>1. CASE Check \/ ReadEnd
      BY <3>1 DEF Check, ReadEnd
    <3>2. CASE ReadPart
      <4>1. here \in HereAt
        BY <3>2 DEF TypeOK, ReadPart, Ready, AtHand
      <4>. QED BY <3>2, <4>1 DEF ReadPart, HereAt
    <3>. QED BY <1>6, <3>1, <3>2
  <2>2. pc' \in {"readFile", "charge"} => pc \in {"readFile", "charge"}
    BY <1>6 DEF Check, ReadPart, ReadEnd, Ready
  <2>. QED BY <1>1, <2>1, <2>2
<1>7. CASE ObserveRoot \/ OpenList \/ ListName \/ EndList \/ Leave \/ Validate \/ Revalidate \/ ReadLinkAgain \/ Return
  BY <1>1, <1>7 DEF ObserveRoot, OpenList, ListName, EndList, Leave, EntriesNext, Validate, Revalidate,
                    ReadLinkAgain, Return, Ready
<1>8. CASE Walk \/ Collect
  <2>1. \E kind, next : next \in {"openFile", "openDirectory", "readLink"} /\ Observe(kind, next)
    BY <1>8 DEF Walk, Collect
  <2>. QED BY <1>1, <2>1 DEF Observe
<1>9. CASE OpenRoot
  <2>1. bytes' = bytes /\ pc' \notin {"readFile", "charge"}
    BY <1>9 DEF OpenRoot
  <2>2. CASE ~Administrative
    BY <1>3, <1>9, <2>1, <2>2 DEF OpenRoot, BytesInv, TypeOK
  <2>3. CASE Administrative
    <3>1. entries' = {Entry(<<>>, "dir", <<>>)}
      BY <1>9, <2>3 DEF OpenRoot
    <3>2. Parts' = {}
      BY <3>1 DEF Parts, Entry
    <3>3. IsFiniteSet(Parts') /\ Cardinality(Parts') = 0
      BY <3>2, FS_EmptySet
    <3>. QED BY <2>1, <3>3 DEF BytesInv, TypeOK
  <2>. QED BY <2>2, <2>3
<1>10. CASE OpenDirectory
  <2>1. here \in HereAt
    BY <1>10 DEF TypeOK, OpenDirectory, Ready, AtHand
  <2>2. Entry(here.path, "dir", <<>>) \in Entries /\ Entry(here.path, "dir", <<>>).kind # "file"
    BY <2>1, EntryType DEF HereAt, Entry
  <2>3. /\ entries' = entries \cup {Entry(here.path, "dir", <<>>)} /\ bytes' = bytes
        /\ pc' \notin {"readFile", "charge"}
    BY <1>10 DEF OpenDirectory
  <2>. QED BY <1>2, <2>2, <2>3
<1>11. CASE ReadLink
  <2>1. here \in HereAt
    BY <1>11 DEF TypeOK, ReadLink, Ready, AtHand
  <2>. DEFINE text == TextOf(here.dir, here.name)
              e == Entry(here.path, "link", text)
  <2>2. entries' = entries \cup {e} /\ bytes' = bytes /\ pc' \notin {"readFile", "charge"}
    BY <1>11 DEF ReadLink
  <2>3. Look(here.dir, here.name) \in Objects
    BY <1>11, <2>1, LookType DEF ReadLink, IsLink, Place, HereAt
  <2>4. text \in Seq(Part)
    BY <2>3, ContentsType DEF TextOf, TypeOK
  <2>5. e \in Entries /\ e.kind # "file"
    BY <2>1, <2>4, EntryType DEF HereAt, Entry, Kinds
  <2>. QED BY <1>2, <2>2, <2>5
<1>12. CASE OpenFile
  <2>1. here \in HereAt /\ here.information.size \in Nat
    BY <1>12 DEF TypeOK, OpenFile, Ready, AtHand, HereAt, Information
  <2>2. here'.information = here.information /\ bytes' = bytes /\ entries' = entries
    BY <1>12, <2>1 DEF OpenFile, HereAt
  <2>3. here.information.size <= MaxBytes - bytes /\ bytes \in Nat /\ MaxBytes \in Nat
    BY <1>12, TreeReadAssumption DEF OpenFile, TypeOK
  <2>4. bytes + here.information.size <= MaxBytes
    BY <2>1, <2>3
  <2>. QED BY <2>2, <2>4, PartsSame DEF BytesInv
<1>13. CASE Charge
  <2>1. here \in HereAt /\ pc = "charge"
    BY <1>13 DEF TypeOK, Charge, Ready, AtHand
  <2>. DEFINE e == Entry(here.path, "file", here.data)
  <2>2. e \in Entries /\ e.kind = "file" /\ e.data = here.data
    BY <2>1, EntryType DEF HereAt, Entry, Kinds
  <2>3. entries' = entries \cup {e} /\ bytes' = bytes + Len(here.data) /\ pc' \notin {"readFile", "charge"}
    BY <1>13 DEF Charge, EntriesNext
  <2>4. Len(here.data) = here.information.size /\ Len(here.data) \in Nat /\ bytes + here.information.size <= MaxBytes
    BY <2>1 DEF ShapeInv, HereShape, BytesInv, HereAt
  <2>. HIDE DEF e
  <2>5. IsFiniteSet(Parts') /\ Cardinality(Parts') <= Cardinality(Parts) + Len(here.data)
    BY <2>2, <2>3, PartsMore DEF BytesInv
  <2>6. Cardinality(Parts) \in Nat /\ Cardinality(Parts') \in Nat /\ Cardinality(Parts) <= bytes /\ bytes \in Nat
    BY <2>5, FS_CardinalityType DEF BytesInv, TypeOK
  <2>. QED BY <2>3, <2>4, <2>5, <2>6 DEF BytesInv
<1>. QED BY <1>4, <1>5, <1>6, <1>7, <1>8, <1>9, <1>10, <1>11, <1>12, <1>13 DEF Next, Reads

--------------------------------------------------------------------------------
(* The names that wait.                                                    *)
LEMMA WaitingIs ==
  ASSUME NEW frames \in Seq(Frames)
  PROVE  /\ IsFiniteSet(Waiting(frames))
         /\ \A k, n : <<k, n>> \in Waiting(frames) <=> k \in 1..Len(frames) /\ n \in frames[k].names
         /\ \A w \in Waiting(frames) : /\ w = <<w[1], w[2]>> /\ w[1] \in 1..Len(frames)
                                       /\ w[2] \in frames[w[1]].names /\ w[2] \in Names
                                       /\ frames[w[1]] \in Frames /\ PathOf(frames, w) \in Seq(Names)
<1>1. DOMAIN frames = 1..Len(frames) /\ Len(frames) \in Nat /\ \A k \in 1..Len(frames) : frames[k] \in Frames
  OBVIOUS
<1>2. \A k \in 1..Len(frames) : frames[k].names \subseteq Names /\ frames[k].path \in Seq(Names)
  BY <1>1 DEF Frames
<1>3. IsFiniteSet((DOMAIN frames) \X Names)
  <2>1. ASSUME NEW n \in Nat PROVE IsFiniteSet(1..n)
    <3>1. 1 \in Int /\ n \in Int
      OBVIOUS
    <3>. QED BY <3>1, FS_Interval
  <2>2. IsFiniteSet(DOMAIN frames)
    BY <1>1, <2>1
  <2>3. IsFiniteSet(Names)
    BY TreeReadAssumption
  <2>. QED BY <2>2, <2>3, FS_Product
<1>4. Waiting(frames) \in SUBSET ((DOMAIN frames) \X Names)
  BY DEF Waiting
<1>5. IsFiniteSet(Waiting(frames))
  BY <1>3, <1>4, FS_Subset
<1>6. ASSUME NEW k, NEW n
      PROVE  <<k, n>> \in Waiting(frames) <=> k \in 1..Len(frames) /\ n \in frames[k].names
  BY <1>1, <1>2 DEF Waiting
<1>7. ASSUME NEW w \in Waiting(frames)
      PROVE  /\ w = <<w[1], w[2]>> /\ w[1] \in 1..Len(frames) /\ w[2] \in frames[w[1]].names
             /\ w[2] \in Names
  BY <1>1 DEF Waiting
<1>8. ASSUME NEW w \in Waiting(frames) PROVE frames[w[1]] \in Frames /\ PathOf(frames, w) \in Seq(Names)
  <2>1. w[1] \in 1..Len(frames) /\ w[2] \in Names
    BY <1>7
  <2>2. frames[w[1]].path \in Seq(Names)
    BY <1>2, <2>1
  <2>3. Append(frames[w[1]].path, w[2]) \in Seq(Names)
    BY <2>1, <2>2, AppendProperties
  <2>. QED BY <1>1, <2>1, <2>3 DEF PathOf
<1>. QED BY <1>5, <1>6, <1>7, <1>8

(* The name that is read waits no longer.                                  *)
LEMMA WaitingTaken ==
  ASSUME TypeOK, stack # <<>>, NEW f \in Frames, NEW n \in Inner.names,
         f.names = Inner.names \ {n}, f.path = Inner.path
  PROVE  LET last == <<Len(stack), n>>
         IN  /\ last \in Waiting(stack) /\ Waiting(InnerBecomes(f)) = Waiting(stack) \ {last}
             /\ PathOf(stack, last) = Append(Inner.path, n)
             /\ \A w \in Waiting(InnerBecomes(f)) : PathOf(InnerBecomes(f), w) = PathOf(stack, w)
<1>. DEFINE t == InnerBecomes(f)
            last == <<Len(stack), n>>
<1>1. /\ stack \in Seq(Frames) /\ Len(stack) \in 1..Len(stack) /\ Inner = stack[Len(stack)]
      /\ DOMAIN stack = 1..Len(stack)
  BY InnerOf DEF TypeOK
<1>2. /\ t \in Seq(Frames) /\ Len(t) = Len(stack) /\ t[Len(stack)] = f
      /\ \A k \in 1..Len(stack) : k # Len(stack) => t[k] = stack[k]
  BY <1>1, NewInner
<1>. HIDE DEF t
<1>3. last \in Waiting(stack)
  BY <1>1, WaitingIs
<1>4. \A k, m : <<k, m>> \in Waiting(t) <=> <<k, m>> \in Waiting(stack) /\ <<k, m>> # last
  <2>. SUFFICES ASSUME NEW k, NEW m
                PROVE  <<k, m>> \in Waiting(t) <=> <<k, m>> \in Waiting(stack) /\ <<k, m>> # last
    OBVIOUS
  <2>1. <<k, m>> \in Waiting(t) <=> k \in 1..Len(stack) /\ m \in t[k].names
    BY <1>2, WaitingIs
  <2>2. <<k, m>> \in Waiting(stack) <=> k \in 1..Len(stack) /\ m \in stack[k].names
    BY <1>1, WaitingIs
  <2>3. k \in 1..Len(stack) => (m \in t[k].names <=> m \in stack[k].names /\ ~(k = Len(stack) /\ m = n))
    BY <1>1, <1>2
  <2>. QED BY <2>1, <2>2, <2>3
<1>5. Waiting(t) = Waiting(stack) \ {last}
  <2>1. \A w \in Waiting(t) : w = <<w[1], w[2]>>
    BY <1>2, WaitingIs
  <2>2. \A w \in Waiting(stack) : w = <<w[1], w[2]>>
    BY <1>1, WaitingIs
  <2>. HIDE DEF last
  <2>3. \A w \in Waiting(t) : w \in Waiting(stack) /\ w # last
    BY <1>4, <2>1
  <2>4. \A w \in Waiting(stack) : w # last => w \in Waiting(t)
    BY <1>4, <2>2
  <2>. QED BY <2>3, <2>4
<1>6. \A k \in 1..Len(stack) : t[k].path = stack[k].path
  BY <1>1, <1>2
<1>7. \A w \in Waiting(t) : w[1] \in 1..Len(stack)
  BY <1>2, WaitingIs
<1>8. \A w \in Waiting(t) : PathOf(t, w) = PathOf(stack, w)
  BY <1>6, <1>7 DEF PathOf
<1>. QED BY <1>1, <1>3, <1>5, <1>8 DEF t, PathOf

(* A name that is listed waits.                                            *)
LEMMA WaitingListed ==
  ASSUME TypeOK, stack # <<>>, NEW f \in Frames, NEW listed, f.names = Inner.names \cup listed
  PROVE  Waiting(InnerBecomes(f)) = Waiting(stack) \cup {w \in {Len(stack)} \X Names : w[2] \in listed}
<1>. DEFINE t == InnerBecomes(f)
            new == {w \in {Len(stack)} \X Names : w[2] \in listed}
<1>1. /\ stack \in Seq(Frames) /\ Len(stack) \in 1..Len(stack) /\ Inner = stack[Len(stack)]
      /\ DOMAIN stack = 1..Len(stack)
  BY InnerOf DEF TypeOK
<1>2. /\ t \in Seq(Frames) /\ Len(t) = Len(stack) /\ t[Len(stack)] = f
      /\ \A k \in 1..Len(stack) : k # Len(stack) => t[k] = stack[k]
  BY <1>1, NewInner
<1>. HIDE DEF t
<1>3. f.names \subseteq Names
  BY DEF Frames
<1>4. \A k, m : <<k, m>> \in Waiting(t) <=> <<k, m>> \in Waiting(stack) \/ <<k, m>> \in new
  <2>. SUFFICES ASSUME NEW k, NEW m
                PROVE  <<k, m>> \in Waiting(t) <=> <<k, m>> \in Waiting(stack) \/ <<k, m>> \in new
    OBVIOUS
  <2>1. <<k, m>> \in Waiting(t) <=> k \in 1..Len(stack) /\ m \in t[k].names
    BY <1>2, WaitingIs
  <2>2. <<k, m>> \in Waiting(stack) <=> k \in 1..Len(stack) /\ m \in stack[k].names
    BY <1>1, WaitingIs
  <2>3. <<k, m>> \in new <=> k = Len(stack) /\ m \in Names /\ m \in listed
    OBVIOUS
  <2>4. k \in 1..Len(stack) => (m \in t[k].names <=> m \in stack[k].names \/ (k = Len(stack) /\ m \in listed))
    BY <1>1, <1>2
  <2>. HIDE DEF new
  <2>5. k = Len(stack) /\ m \in listed => m \in Names
    BY <1>3
  <2>. QED BY <1>1, <2>1, <2>2, <2>3, <2>4, <2>5
<1>5. Waiting(t) = Waiting(stack) \cup new
  <2>1. \A w \in Waiting(t) : w = <<w[1], w[2]>>
    BY <1>2, WaitingIs
  <2>2. \A w \in Waiting(stack) : w = <<w[1], w[2]>>
    BY <1>1, WaitingIs
  <2>3. \A w \in new : w = <<w[1], w[2]>>
    OBVIOUS
  <2>. HIDE DEF new
  <2>4. \A w \in Waiting(t) : w \in Waiting(stack) \cup new
    BY <1>4, <2>1
  <2>5. \A w \in Waiting(stack) \cup new : w \in Waiting(t)
    BY <1>4, <2>2, <2>3
  <2>. QED BY <2>4, <2>5
<1>. QED BY <1>5 DEF t

(* A directory that is left.                                               *)
LEMMA WaitingLeft ==
  ASSUME TypeOK, stack # <<>>
  PROVE  /\ Waiting(Front(stack)) \subseteq Waiting(stack)
         /\ \A w \in Waiting(Front(stack)) : PathOf(Front(stack), w) = PathOf(stack, w)
<1>. DEFINE t == Front(stack)
<1>1. stack \in Seq(Frames)
  BY DEF TypeOK
<1>2. /\ t \in Seq(Frames) /\ Len(t) = Len(stack) - 1 /\ Len(stack) \in Nat
      /\ \A k \in 1..Len(t) : k \in 1..Len(stack) /\ t[k] = stack[k]
  BY <1>1, LastOf
<1>. HIDE DEF t
<1>3. ASSUME NEW w \in Waiting(t) PROVE w \in Waiting(stack) /\ PathOf(t, w) = PathOf(stack, w)
  <2>1. w = <<w[1], w[2]>> /\ w[1] \in 1..Len(t) /\ w[2] \in t[w[1]].names
    BY <1>2, WaitingIs
  <2>2. w[1] \in 1..Len(stack) /\ t[w[1]] = stack[w[1]]
    BY <1>2, <2>1
  <2>3. <<w[1], w[2]>> \in Waiting(stack)
    BY <1>1, <2>1, <2>2, WaitingIs
  <2>. QED BY <2>1, <2>2, <2>3 DEF PathOf
<1>. QED BY <1>3 DEF t

(* A directory that is entered.                                            *)
LEMMA WaitingEntered ==
  ASSUME NEW frames \in Seq(Frames), NEW f \in Frames
  PROVE  LET t == Append(frames, f)
         IN  /\ t \in Seq(Frames)
             /\ \A w \in Waiting(frames) : w \in Waiting(t) /\ PathOf(t, w) = PathOf(frames, w)
             /\ \A w \in Waiting(t) : \/ w \in Waiting(frames)
                                      \/ /\ w = <<Len(frames) + 1, w[2]>> /\ w[2] \in f.names
                                         /\ PathOf(t, w) = Append(f.path, w[2])
<1>. DEFINE t == Append(frames, f)
<1>1. /\ t \in Seq(Frames) /\ Len(t) = Len(frames) + 1 /\ t[Len(frames) + 1] = f
      /\ \A k \in 1..Len(frames) : t[k] = frames[k]
  BY Appended
<1>. HIDE DEF t
<1>2. Len(frames) \in Nat
  OBVIOUS
<1>3. ASSUME NEW w \in Waiting(frames) PROVE w \in Waiting(t) /\ PathOf(t, w) = PathOf(frames, w)
  <2>1. w = <<w[1], w[2]>> /\ w[1] \in 1..Len(frames) /\ w[2] \in frames[w[1]].names
    BY WaitingIs
  <2>2. w[1] \in 1..Len(t) /\ t[w[1]] = frames[w[1]]
    BY <1>1, <1>2, <2>1
  <2>3. <<w[1], w[2]>> \in Waiting(t)
    BY <1>1, <2>1, <2>2, WaitingIs
  <2>. QED BY <2>1, <2>2, <2>3 DEF PathOf
<1>4. ASSUME NEW w \in Waiting(t)
      PROVE  \/ w \in Waiting(frames)
             \/ /\ w = <<Len(frames) + 1, w[2]>> /\ w[2] \in f.names
                /\ PathOf(t, w) = Append(f.path, w[2])
  <2>1. w = <<w[1], w[2]>> /\ w[1] \in 1..Len(t) /\ w[2] \in t[w[1]].names
    BY <1>1, WaitingIs
  <2>2. CASE w[1] \in 1..Len(frames)
    <3>1. <<w[1], w[2]>> \in Waiting(frames)
      BY <1>1, <2>1, <2>2, WaitingIs
    <3>. QED BY <2>1, <3>1
  <2>3. CASE w[1] = Len(frames) + 1
    <3>1. t[w[1]] = f
      BY <1>1, <2>3
    <3>. QED BY <2>1, <2>3, <3>1 DEF PathOf
  <2>4. w[1] \in 1..Len(frames) \/ w[1] = Len(frames) + 1
    BY <1>1, <1>2, <2>1
  <2>. QED BY <2>2, <2>3, <2>4
<1>. QED BY <1>1, <1>3, <1>4 DEF t

LEMMA EntriesMore ==
  ASSUME NEW S, NEW e, IsFiniteSet(S)
  PROVE  /\ IsFiniteSet(S \cup {e}) /\ Cardinality(S) \in Nat /\ Cardinality(S \cup {e}) \in Nat
         /\ Cardinality(S \cup {e}) <= Cardinality(S) + 1
<1>1. IsFiniteSet(S \cup {e}) /\ Cardinality(S \cup {e}) = IF e \in S THEN Cardinality(S) ELSE Cardinality(S) + 1
  BY FS_AddElement
<1>2. Cardinality(S) \in Nat /\ Cardinality(S \cup {e}) \in Nat
  BY <1>1, FS_CardinalityType
<1>. QED BY <1>1, <1>2

LEMMA ReservedStep == TypeOK /\ TypeOK' /\ ShapeInv /\ ReservedInv /\ [Next]_vars => ReservedInv'
<1>. SUFFICES ASSUME TypeOK, TypeOK', ShapeInv, ReservedInv, [Next]_vars PROVE ReservedInv'
  OBVIOUS
<1>. USE DEF AtHand
<1>1. stack \in Seq(Frames) /\ stack' \in Seq(Frames) /\ reserved \in Nat /\ reserved' \in Nat
  BY DEF TypeOK
<1>2. /\ IsFiniteSet(Waiting(stack)) /\ IsFiniteSet(Waiting(stack'))
      /\ Cardinality(Waiting(stack)) \in Nat /\ Cardinality(Waiting(stack')) \in Nat
  BY <1>1, WaitingIs, FS_CardinalityType
<1>3. selection' = selection => (Administrative' <=> Administrative)
  BY DEF Administrative
<1>. DEFINE before == IF pc \in AtHand THEN 1 ELSE 0
            after == IF pc' \in AtHand THEN 1 ELSE 0
<1>4. ASSUME UNCHANGED <<selection, entries, reserved>>,
             Cardinality(Waiting(stack')) + after <= Cardinality(Waiting(stack)) + before
      PROVE  ReservedInv'
  <2>1. Administrative => Cardinality(entries) \in Nat
    BY FS_CardinalityType DEF ReservedInv
  <2>2. Administrative' => IsFiniteSet(entries') /\ Reservations' <= reserved'
    BY <1>1, <1>2, <1>3, <1>4, <2>1 DEF ReservedInv, Reservations
  <2>. QED BY <1>4, <2>2 DEF ReservedInv
<1>5. ASSUME NEW e, UNCHANGED <<selection, reserved>>, entries' = entries \cup {e},
             pc \in AtHand, pc' \notin AtHand,
             Administrative => Cardinality(Waiting(stack')) <= Cardinality(Waiting(stack))
      PROVE  ReservedInv'
  <2>1. Administrative => /\ IsFiniteSet(entries') /\ Cardinality(entries) \in Nat
                          /\ Cardinality(entries') \in Nat /\ Cardinality(entries') <= Cardinality(entries) + 1
    BY <1>5, EntriesMore DEF ReservedInv
  <2>2. Administrative => Cardinality(entries) + Cardinality(Waiting(stack)) + 1 <= reserved
    BY <1>5 DEF ReservedInv, Reservations
  <2>3. Reservations' = Cardinality(entries') + Cardinality(Waiting(stack')) + 0
    BY <1>5 DEF Reservations
  <2>4. Administrative' => IsFiniteSet(entries') /\ Reservations' <= reserved'
    BY <1>1, <1>2, <1>3, <1>5, <2>1, <2>2, <2>3
  <2>. QED BY <1>5, <2>4 DEF ReservedInv
<1>6. stack' = stack => Cardinality(Waiting(stack')) <= Cardinality(Waiting(stack))
  BY <1>2
<1>7. CASE UNCHANGED vars \/ Others
  <2>1. UNCHANGED reader
    BY <1>7 DEF vars, reader, Others, Write, Unlink, Put, Change
  <2>. QED BY <2>1 DEF reader, ReservedInv, Reservations, Administrative
<1>8. CASE Fail
  <2>1. /\ entries' = {} /\ reserved' = 1 /\ stack' = <<>> /\ pc' \notin AtHand
        /\ 1 <= MaxEntries
    BY <1>8, TreeReadAssumption DEF Fail
  <2>2. Waiting(stack') = {}
    BY <2>1 DEF Waiting
  <2>3. IsFiniteSet(entries') /\ Cardinality(entries') = 0 /\ Cardinality(Waiting(stack')) = 0
    BY <2>1, <2>2, FS_EmptySet
  <2>. QED BY <2>1, <2>3 DEF ReservedInv, Reservations
<1>9. CASE Check \/ ObserveRoot \/ OpenList \/ EndList \/ OpenFile \/ ReadPart \/ ReadEnd \/ Validate
           \/ Revalidate \/ ReadLinkAgain \/ Return
  <2>1. /\ UNCHANGED <<selection, entries, reserved, stack>>
        /\ pc' \in AtHand => pc \in AtHand
    BY <1>9 DEF Check, ObserveRoot, OpenList, EndList, OpenFile, ReadPart, ReadEnd, Validate,
                Revalidate, ReadLinkAgain, Return, Ready
  <2>. QED BY <1>2, <1>4, <1>6, <2>1
<1>10. CASE OpenRoot
  <2>1. UNCHANGED <<selection, reserved>> /\ pc' \notin AtHand
    BY <1>10 DEF OpenRoot
  <2>. SUFFICES ASSUME Administrative
                PROVE  IsFiniteSet(entries') /\ Cardinality(entries') + Cardinality(Waiting(stack')) <= 1
    <3>1. ASSUME Administrative PROVE IsFiniteSet(entries') /\ Cardinality(entries') \in Nat
      BY <3>1, FS_CardinalityType
    <3>2. Administrative' => IsFiniteSet(entries') /\ Reservations' <= reserved'
      BY <1>1, <1>2, <1>3, <2>1, <3>1 DEF Reservations, ReservedInv
    <3>. QED BY <2>1, <3>2 DEF ReservedInv
  <2>2. entries' = {Entry(<<>>, "dir", <<>>)}
    BY <1>10 DEF OpenRoot
  <2>3. IsFiniteSet(entries') /\ Cardinality(entries') = 1
    BY <2>2, FS_Singleton
  <2>4. Chosen(<<>>) = {}
    BY DEF Chosen
  <2>5. PICK opened \in Opens(Above, Top) : stack' = <<Frame(opened, Chosen(<<>>))>>
    BY <1>10 DEF OpenRoot
  <2>6. Frame(opened, Chosen(<<>>)).names = {}
    BY <2>4 DEF Frame
  <2>7. \A k \in DOMAIN stack' : stack'[k].names = {}
    <3>. DEFINE f == Frame(opened, Chosen(<<>>))
    <3>1. stack' = <<f>> /\ f.names = {}
      BY <2>5, <2>6
    <3>. HIDE DEF f
    <3>2. \A k \in DOMAIN <<f>> : <<f>>[k] = f
      OBVIOUS
    <3>. QED BY <3>1, <3>2
  <2>8. Waiting(stack') = {}
    <3>. SUFFICES ASSUME NEW w \in Waiting(stack') PROVE FALSE
      OBVIOUS
    <3>. QED BY <2>7 DEF Waiting
  <2>. QED BY <2>3, <2>8, FS_EmptySet
<1>11. CASE ListName
  <2>. DEFINE n == Min(Inner.unlisted)
              listed == IF Look(Inner.dir, n) = Nowhere THEN {} ELSE {n}
              f == [Inner EXCEPT !.unlisted = @ \ {n}, !.names = @ \cup listed]
              new == {w \in {Len(stack)} \X Names : w[2] \in listed}
  <2>1. stack # <<>> /\ Inner.unlisted # {} /\ pc' = pc /\ UNCHANGED <<selection, entries>>
    BY <1>11 DEF ListName, Ready, ShapeInv, PlaceShape, Inside
  <2>2. /\ n \in Names /\ Cardinality(listed) \in Nat /\ f \in Frames
        /\ f.names = Inner.names \cup listed
    BY <2>1, ListedFrame
  <2>3. /\ reserved + Cardinality(listed) <= MaxEntries /\ reserved' = reserved + Cardinality(listed)
        /\ stack' = InnerBecomes(f)
    BY <1>11 DEF ListName
  <2>4. listed = {} \/ listed = {n}
    OBVIOUS
  <2>. HIDE DEF n, listed, f
  <2>5. Waiting(stack') = Waiting(stack) \cup new
    BY <2>1, <2>2, <2>3, WaitingListed
  <2>6. Cardinality(Waiting(stack')) <= Cardinality(Waiting(stack)) + Cardinality(listed)
    <3>1. CASE listed = {}
      <4>1. Waiting(stack') = Waiting(stack)
        BY <2>5, <3>1
      <4>. QED BY <1>2, <3>1, <4>1, FS_EmptySet
    <3>2. CASE listed = {n}
      <4>1. new = {<<Len(stack), n>>}
        BY <2>2, <3>2
      <4>2. Cardinality(Waiting(stack')) <= Cardinality(Waiting(stack)) + 1
        BY <1>2, <2>5, <4>1, EntriesMore
      <4>3. Cardinality(listed) = 1
        BY <3>2, FS_Singleton
      <4>. QED BY <4>2, <4>3
    <3>. QED BY <2>4, <3>1, <3>2
  <2>7. Administrative => Cardinality(entries) \in Nat
    BY FS_CardinalityType DEF ReservedInv
  <2>8. Administrative => Cardinality(entries) + Cardinality(Waiting(stack)) + before <= reserved
    BY DEF ReservedInv, Reservations
  <2>9. Reservations' = Cardinality(entries) + Cardinality(Waiting(stack')) + before
    BY <2>1 DEF Reservations
  <2>10. before \in Nat
    OBVIOUS
  <2>. HIDE DEF before
  <2>11. Administrative => Reservations' <= reserved'
    BY <1>1, <1>2, <2>2, <2>3, <2>6, <2>7, <2>8, <2>9, <2>10
  <2>12. 1 <= reserved'
    BY <1>1, <2>2, <2>3 DEF ReservedInv
  <2>. QED BY <1>3, <2>1, <2>3, <2>11, <2>12 DEF ReservedInv
<1>12. CASE Walk \/ Collect
  <2>1. stack # <<>> /\ pc \notin AtHand
    BY <1>12, Taken DEF ShapeInv, EntriesNext
  <2>2. PICK kind, next : Observe(kind, next)
    BY <1>12 DEF Walk, Collect
  <2>3. UNCHANGED <<selection, entries, reserved>>
    BY <2>2 DEF Observe
  <2>4. PICK n \in Inner.names, f \in Frames :
          stack' = InnerBecomes(f) /\ f.names = Inner.names \ {n} /\ f.path = Inner.path
    <3>1. PICK n \in Inner.names :
            LET g == [Inner EXCEPT !.names = @ \ {n}]
            IN  g \in Frames /\ stack' = InnerBecomes(g) /\ g.names = Inner.names \ {n} /\ g.path = Inner.path
      BY <2>1, <2>2, Observed
    <3>. DEFINE g == [Inner EXCEPT !.names = @ \ {n}]
    <3>2. g \in Frames /\ stack' = InnerBecomes(g) /\ g.names = Inner.names \ {n} /\ g.path = Inner.path
      BY <3>1
    <3>. HIDE DEF g
    <3>. QED BY <3>2
  <2>5. <<Len(stack), n>> \in Waiting(stack) /\ Waiting(stack') = Waiting(stack) \ {<<Len(stack), n>>}
    BY <2>1, <2>4, WaitingTaken
  <2>6. Cardinality(Waiting(stack')) = Cardinality(Waiting(stack)) - 1
    BY <1>2, <2>5, FS_RemoveElement
  <2>7. before = 0 /\ after \in 0..1
    BY <2>1
  <2>. HIDE DEF before, after
  <2>8. Cardinality(Waiting(stack')) + after <= Cardinality(Waiting(stack)) + before
    BY <1>2, <2>6, <2>7
  <2>. QED BY <1>4, <2>3, <2>8
<1>13. CASE Leave
  <2>1. stack # <<>> /\ stack' = Front(stack) /\ UNCHANGED <<selection, entries, reserved>> /\ pc' \notin AtHand
    BY <1>13 DEF Leave, EntriesNext
  <2>2. Waiting(stack') \in SUBSET Waiting(stack)
    BY <2>1, WaitingLeft
  <2>3. Cardinality(Waiting(stack')) <= Cardinality(Waiting(stack))
    BY <1>2, <2>2, FS_Subset
  <2>4. after = 0 /\ before \in Nat
    BY <2>1
  <2>. HIDE DEF after, before
  <2>5. Cardinality(Waiting(stack')) + after <= Cardinality(Waiting(stack)) + before
    BY <1>2, <2>3, <2>4
  <2>. QED BY <1>4, <2>1, <2>5
<1>14. CASE OpenDirectory
  <2>1. PICK child \in Opens(here.dir, here.name) : stack' = Append(stack, Frame(child, Chosen(here.path)))
    BY <1>14 DEF OpenDirectory
  <2>2. /\ UNCHANGED <<selection, reserved>> /\ entries' = entries \cup {Entry(here.path, "dir", <<>>)}
        /\ pc \in AtHand /\ pc' \notin AtHand
    BY <1>14 DEF OpenDirectory, Ready
  <2>3. ASSUME Administrative PROVE Waiting(stack') = Waiting(stack)
    <3>. DEFINE f == Frame(child, Chosen(here.path))
    <3>1. here \in HereAt
      BY <2>2 DEF TypeOK
    <3>2. child \in Objects
      BY <3>1, OpensType DEF HereAt
    <3>3. f \in Frames /\ f.names = {}
      BY <2>3, <3>1, <3>2, FrameType DEF Chosen
    <3>4. stack' = Append(stack, f)
      BY <2>1
    <3>. HIDE DEF f
    <3>5. \A w \in Waiting(stack') : w \in Waiting(stack)
      BY <1>1, <3>3, <3>4, WaitingEntered
    <3>6. \A w \in Waiting(stack) : w \in Waiting(stack')
      BY <1>1, <3>3, <3>4, WaitingEntered
    <3>. QED BY <3>5, <3>6
  <2>4. Administrative => Cardinality(Waiting(stack')) <= Cardinality(Waiting(stack))
    BY <1>2, <2>3
  <2>. QED BY <1>5, <2>2, <2>4
<1>15. CASE Charge \/ ReadLink
  <2>1. /\ UNCHANGED <<selection, reserved, stack>> /\ \E e : entries' = entries \cup {e}
        /\ pc \in AtHand /\ pc' \notin AtHand
    BY <1>15 DEF Charge, ReadLink, Ready, EntriesNext
  <2>. QED BY <1>5, <1>6, <2>1
<1>. QED BY <1>7, <1>8, <1>9, <1>10, <1>11, <1>12, <1>13, <1>14, <1>15 DEF Next, Reads

--------------------------------------------------------------------------------
(* A path, what lies below it and what lies beside it.                     *)
LEMMA Below ==
  ASSUME NEW p \in Seq(Names), NEW q \in Seq(Names), NEW n \in Names
  PROVE  /\ IsPrefix(p, p)
         /\ IsPrefix(Append(q, n), p) => IsPrefix(q, p)
         /\ ~IsPrefix(Append(q, n), q)
         /\ ApartFrom(p, q) => ApartFrom(p, Append(q, n))
         /\ \A m \in Names : m # n => ApartFrom(Append(q, m), Append(q, n))
<1>. DEFINE r(m) == Append(q, m)
<1>1. ASSUME NEW m \in Names
      PROVE  /\ r(m) \in Seq(Names) /\ Len(r(m)) = Len(q) + 1
             /\ r(m)[Len(q) + 1] = m /\ \A k \in 1..Len(q) : r(m)[k] = q[k]
  BY AppendProperties
<1>. HIDE DEF r
<1>2. Len(p) \in Nat /\ Len(q) \in Nat
  OBVIOUS
<1>3. IsPrefix(p, p)
  BY <1>2, BeginsWith
<1>4. ASSUME IsPrefix(r(n), p) PROVE IsPrefix(q, p)
  <2>1. Len(q) + 1 <= Len(p) /\ \A k \in 1..(Len(q) + 1) : r(n)[k] = p[k]
    BY <1>1, <1>4, BeginsWith
  <2>2. Len(q) <= Len(p) /\ \A k \in 1..Len(q) : k \in 1..(Len(q) + 1)
    BY <1>2, <2>1
  <2>3. \A k \in 1..Len(q) : q[k] = p[k]
    BY <1>1, <2>1, <2>2
  <2>. QED BY <2>2, <2>3, BeginsWith
<1>5. ~IsPrefix(r(n), q)
  BY <1>1, <1>2, BeginsWith
<1>6. ASSUME IsPrefix(p, r(n)) PROVE IsPrefix(p, q) \/ IsPrefix(q, p)
  <2>1. Len(p) <= Len(q) + 1 /\ \A k \in 1..Len(p) : p[k] = r(n)[k]
    BY <1>1, <1>6, BeginsWith
  <2>2. CASE Len(p) <= Len(q)
    <3>1. \A k \in 1..Len(p) : k \in 1..Len(q)
      BY <1>2, <2>2
    <3>2. \A k \in 1..Len(p) : p[k] = q[k]
      BY <1>1, <2>1, <3>1
    <3>. QED BY <2>2, <3>2, BeginsWith
  <2>3. CASE Len(q) <= Len(p)
    <3>1. \A k \in 1..Len(q) : k \in 1..Len(p)
      BY <1>2, <2>3
    <3>2. \A k \in 1..Len(q) : q[k] = p[k]
      BY <1>1, <2>1, <3>1
    <3>. QED BY <2>3, <3>2, BeginsWith
  <2>. QED BY <1>2, <2>2, <2>3
<1>7. ApartFrom(p, q) => ApartFrom(p, r(n))
  BY <1>4, <1>6 DEF ApartFrom
<1>8. ASSUME NEW m \in Names, NEW l \in Names, m # l PROVE ~IsPrefix(r(m), r(l))
  <2>1. Len(q) + 1 \in 1..(Len(q) + 1)
    BY <1>2
  <2>2. /\ r(m) \in Seq(Names) /\ r(l) \in Seq(Names) /\ Len(r(m)) = Len(q) + 1
        /\ r(m)[Len(q) + 1] # r(l)[Len(q) + 1]
    BY <1>1, <1>8
  <2>. QED BY <2>1, <2>2, BeginsWith
<1>. QED BY <1>3, <1>4, <1>5, <1>7, <1>8 DEF ApartFrom, r

LEMMA OnceStep == TypeOK /\ TypeOK' /\ ShapeInv /\ OnceInv /\ [Next]_vars => OnceInv'
<1>. SUFFICES ASSUME TypeOK, TypeOK', ShapeInv, OnceInv, [Next]_vars PROVE OnceInv'
  OBVIOUS
<1>. USE DEF AtHand
<1>1. stack \in Seq(Frames) /\ stack' \in Seq(Frames) /\ \A e \in entries : e.path \in Seq(Names)
  BY DEF TypeOK, Entries
<1>2. selection' = selection => (Administrative' <=> Administrative)
  BY DEF Administrative
<1>3. ~Administrative => /\ \A e, f \in entries : e.path = f.path => e = f
                         /\ WaitOnce(stack, entries)
                         /\ pc \in AtHand => HereOnce(stack, entries, here.path)
  BY DEF OnceInv
<1>4. ASSUME UNCHANGED <<selection, entries, stack>>,
             pc' \in AtHand => pc \in AtHand /\ here'.path = here.path
      PROVE  OnceInv'
  <2>. SUFFICES ASSUME ~Administrative
                PROVE  /\ \A e, f \in entries' : e.path = f.path => e = f
                       /\ WaitOnce(stack', entries')
                       /\ pc' \in AtHand => HereOnce(stack', entries', here'.path)
    BY <1>2, <1>4 DEF OnceInv
  <2>. QED BY <1>3, <1>4
<1>5. CASE UNCHANGED vars \/ Others
  BY <1>4, <1>5 DEF vars, reader, Others, Write, Unlink, Put, Change
<1>6. CASE Fail
  <2>1. entries' = {} /\ stack' = <<>> /\ pc' \notin AtHand
    BY <1>6 DEF Fail
  <2>2. Waiting(stack') = {}
    BY <2>1 DEF Waiting
  <2>3. WaitOnce(stack', entries')
    BY <2>2 DEF WaitOnce
  <2>. QED BY <2>1, <2>3 DEF OnceInv
<1>7. CASE Check \/ ReadPart \/ ReadEnd \/ OpenFile
  <2>1. UNCHANGED <<selection, entries, stack>> /\ here'.path = here.path
    <3>1. CASE Check \/ ReadEnd
      BY <3>1 DEF Check, ReadEnd
    <3>2. CASE ReadPart \/ OpenFile
      <4>1. here \in HereAt
        BY <3>2 DEF TypeOK, ReadPart, OpenFile, Ready
      <4>. QED BY <3>2, <4>1 DEF ReadPart, OpenFile, HereAt
    <3>. QED BY <1>7, <3>1, <3>2
  <2>2. pc' \in AtHand => pc \in AtHand
    BY <1>7 DEF Check, ReadPart, ReadEnd, OpenFile, Ready
  <2>. QED BY <1>4, <2>1, <2>2
<1>8. CASE ObserveRoot \/ EndList \/ OpenList \/ Validate \/ Revalidate \/ ReadLinkAgain \/ Return
  BY <1>4, <1>8 DEF ObserveRoot, EndList, OpenList, Validate, Revalidate, ReadLinkAgain, Return
<1>9. CASE ListName
  BY <1>2, <1>9 DEF ListName, Ready, ShapeInv, PlaceShape, OnceInv
<1>10. CASE OpenRoot
  <2>1. selection' = selection /\ pc' \notin AtHand /\ pc = "openRoot"
    BY <1>10 DEF OpenRoot, Ready
  <2>. SUFFICES ASSUME ~Administrative
                PROVE  /\ \A e, f \in entries' : e.path = f.path => e = f
                       /\ WaitOnce(stack', entries')
    BY <1>2, <2>1 DEF OnceInv
  <2>2. entries' = {}
    BY <1>10 DEF OpenRoot
  <2>3. PICK opened \in Opens(Above, Top) : stack' = <<Frame(opened, Chosen(<<>>))>>
    BY <1>10 DEF OpenRoot
  <2>. DEFINE f == Frame(opened, Chosen(<<>>))
  <2>4. stack' = <<f>> /\ f.path = here.path
    BY <2>3 DEF Frame
  <2>5. here.path \in Seq(Names)
    BY <2>1 DEF TypeOK, HereAt
  <2>. HIDE DEF f
  <2>6. Len(stack') = 1 /\ stack'[1] = f
    BY <2>4
  <2>7. ASSUME NEW v \in Waiting(stack'), NEW w \in Waiting(stack'), v # w
        PROVE  ApartFrom(PathOf(stack', v), PathOf(stack', w))
    <3>1. v[1] = 1 /\ w[1] = 1 /\ v = <<v[1], v[2]>> /\ w = <<w[1], w[2]>> /\ v[2] \in Names /\ w[2] \in Names
      BY <1>1, <2>6, WaitingIs
    <3>2. v[2] # w[2]
      BY <2>7, <3>1
    <3>3. PathOf(stack', v) = Append(here.path, v[2]) /\ PathOf(stack', w) = Append(here.path, w[2])
      BY <2>4, <2>6, <3>1 DEF PathOf
    <3>. QED BY <2>5, <3>1, <3>2, <3>3, Below
  <2>. QED BY <2>2, <2>7 DEF WaitOnce, Untouched
<1>11. CASE Walk \/ Collect
  <2>1. stack # <<>>
    BY <1>11, Taken DEF ShapeInv
  <2>2. PICK kind, next : Observe(kind, next)
    BY <1>11 DEF Walk, Collect
  <2>3. UNCHANGED <<selection, entries>>
    BY <2>2 DEF Observe
  <2>. SUFFICES ASSUME ~Administrative
                PROVE  /\ WaitOnce(stack', entries)
                       /\ HereOnce(stack', entries, here'.path)
    BY <1>2, <1>3, <2>3 DEF OnceInv
  <2>4. PICK n \in Inner.names :
          LET g == [Inner EXCEPT !.names = @ \ {n}]
          IN  /\ g \in Frames /\ stack' = InnerBecomes(g) /\ g.names = Inner.names \ {n} /\ g.path = Inner.path
              /\ here' = Found(Inner.dir, n, Append(Inner.path, n))
    BY <2>1, <2>2, Observed
  <2>5. PICK f \in Frames :
          stack' = InnerBecomes(f) /\ f.names = Inner.names \ {n} /\ f.path = Inner.path
    <3>. DEFINE g == [Inner EXCEPT !.names = @ \ {n}]
    <3>1. g \in Frames /\ stack' = InnerBecomes(g) /\ g.names = Inner.names \ {n} /\ g.path = Inner.path
      BY <2>4
    <3>. HIDE DEF g
    <3>. QED BY <3>1
  <2>6. here'.path = Append(Inner.path, n)
    BY <2>4 DEF Found
  <2>. DEFINE last == <<Len(stack), n>>
  <2>7. /\ last \in Waiting(stack) /\ Waiting(stack') = Waiting(stack) \ {last}
        /\ PathOf(stack, last) = here'.path
        /\ \A w \in Waiting(stack') : PathOf(stack', w) = PathOf(stack, w)
    BY <2>1, <2>5, <2>6, WaitingTaken
  <2>. HIDE DEF last
  <2>8. WaitOnce(stack, entries)
    BY <1>3
  <2>9. WaitOnce(stack', entries)
    BY <2>7, <2>8 DEF WaitOnce
  <2>10. HereOnce(stack', entries, here'.path)
    BY <2>7, <2>8 DEF WaitOnce, HereOnce
  <2>. QED BY <2>9, <2>10
<1>12. CASE Leave
  <2>1. stack # <<>> /\ stack' = Front(stack) /\ UNCHANGED <<selection, entries>> /\ pc' \notin AtHand
    BY <1>12 DEF Leave, EntriesNext
  <2>2. /\ Waiting(stack') \subseteq Waiting(stack)
        /\ \A w \in Waiting(stack') : PathOf(stack', w) = PathOf(stack, w)
    BY <2>1, WaitingLeft
  <2>3. ~Administrative => WaitOnce(stack', entries)
    BY <1>3, <2>2 DEF WaitOnce
  <2>. QED BY <1>2, <1>3, <2>1, <2>3 DEF OnceInv
<1>13. ASSUME NEW e, selection' = selection, entries' = entries \cup {e}, e.path = here.path,
              here.path \in Seq(Names), pc \in AtHand, ~Administrative
       PROVE  \A x, y \in entries' : x.path = y.path => x = y
  <2>1. \A x \in entries : ~IsPrefix(here.path, x.path)
    BY <1>3, <1>13 DEF HereOnce, Untouched
  <2>2. IsPrefix(here.path, here.path)
    BY <1>13, BeginsWith
  <2>3. \A x \in entries : x.path # e.path
    BY <1>13, <2>1, <2>2
  <2>. QED BY <1>3, <1>13, <2>3
<1>14. CASE OpenDirectory
  <2>1. PICK child \in Opens(here.dir, here.name) : stack' = Append(stack, Frame(child, Chosen(here.path)))
    BY <1>14 DEF OpenDirectory
  <2>. DEFINE f == Frame(child, Chosen(here.path))
              e == Entry(here.path, "dir", <<>>)
  <2>2. selection' = selection /\ entries' = entries \cup {e} /\ pc \in AtHand /\ pc' \notin AtHand
    BY <1>14 DEF OpenDirectory, Ready
  <2>3. here \in HereAt
    BY <2>2 DEF TypeOK
  <2>4. here.path \in Seq(Names) /\ child \in Objects
    BY <2>3, OpensType DEF HereAt
  <2>5. f \in Frames /\ f.path = here.path /\ e.path = here.path /\ f.names \subseteq Names
    BY <2>3, <2>4, FrameType, ChosenType DEF Entry
  <2>6. stack' = Append(stack, f)
    BY <2>1
  <2>. HIDE DEF f, e
  <2>. SUFFICES ASSUME ~Administrative PROVE WaitOnce(stack', entries')
    BY <1>2, <1>13, <2>2, <2>4, <2>5 DEF OnceInv
  <2>7. WaitOnce(stack, entries) /\ HereOnce(stack, entries, here.path)
    BY <1>3, <2>2
  <2>8. ASSUME NEW w \in Waiting(stack')
        PROVE  \/ w \in Waiting(stack) /\ PathOf(stack', w) = PathOf(stack, w)
                  /\ PathOf(stack, w) \in Seq(Names)
               \/ /\ w = <<Len(stack) + 1, w[2]>> /\ w[2] \in Names
                  /\ PathOf(stack', w) = Append(here.path, w[2])
    BY <1>1, <2>5, <2>6, WaitingEntered, WaitingIs
  <2>9. ASSUME NEW w \in Waiting(stack') PROVE Untouched(entries', PathOf(stack', w))
    <3>1. CASE w \in Waiting(stack) /\ PathOf(stack', w) = PathOf(stack, w)
      <4>1. Untouched(entries, PathOf(stack, w)) /\ ApartFrom(PathOf(stack, w), here.path)
        BY <2>7, <3>1 DEF WaitOnce, HereOnce
      <4>. QED BY <2>2, <2>5, <3>1, <4>1 DEF Untouched, ApartFrom
    <3>2. CASE w[2] \in Names /\ PathOf(stack', w) = Append(here.path, w[2])
      <4>1. \A x \in entries : IsPrefix(Append(here.path, w[2]), x.path) => IsPrefix(here.path, x.path)
        BY <1>1, <2>4, <3>2, Below
      <4>2. ~IsPrefix(Append(here.path, w[2]), here.path)
        BY <2>4, <3>2, Below
      <4>. QED BY <2>2, <2>5, <2>7, <3>2, <4>1, <4>2 DEF Untouched, HereOnce
    <3>. QED BY <2>8, <3>1, <3>2
  <2>10. ASSUME NEW v \in Waiting(stack'), NEW w \in Waiting(stack'), v # w
         PROVE  ApartFrom(PathOf(stack', v), PathOf(stack', w))
    <3>1. ASSUME NEW x \in Waiting(stack), PathOf(stack, x) \in Seq(Names), NEW n \in Names
          PROVE  /\ ApartFrom(PathOf(stack, x), Append(here.path, n))
                 /\ ApartFrom(Append(here.path, n), PathOf(stack, x))
      <4>1. ApartFrom(PathOf(stack, x), here.path)
        BY <2>7 DEF HereOnce
      <4>2. ApartFrom(PathOf(stack, x), Append(here.path, n))
        BY <2>4, <3>1, <4>1, Below
      <4>. QED BY <4>2 DEF ApartFrom
    <3>2. CASE v \in Waiting(stack) /\ w \in Waiting(stack)
      <4>1. PathOf(stack', v) = PathOf(stack, v) /\ PathOf(stack', w) = PathOf(stack, w)
        BY <1>1, <2>5, <2>6, <3>2, WaitingEntered
      <4>. QED BY <2>7, <2>10, <3>2, <4>1 DEF WaitOnce
    <3>3. CASE v \in Waiting(stack) /\ w \notin Waiting(stack)
      <4>1. PathOf(stack', v) = PathOf(stack, v) /\ PathOf(stack, v) \in Seq(Names)
        BY <1>1, <2>5, <2>6, <3>3, WaitingEntered, WaitingIs
      <4>2. w[2] \in Names /\ PathOf(stack', w) = Append(here.path, w[2])
        BY <2>8, <3>3
      <4>. QED BY <3>1, <3>3, <4>1, <4>2
    <3>4. CASE v \notin Waiting(stack) /\ w \in Waiting(stack)
      <4>1. PathOf(stack', w) = PathOf(stack, w) /\ PathOf(stack, w) \in Seq(Names)
        BY <1>1, <2>5, <2>6, <3>4, WaitingEntered, WaitingIs
      <4>2. v[2] \in Names /\ PathOf(stack', v) = Append(here.path, v[2])
        BY <2>8, <3>4
      <4>. QED BY <3>1, <3>4, <4>1, <4>2
    <3>5. CASE v \notin Waiting(stack) /\ w \notin Waiting(stack)
      <4>1. v = <<Len(stack) + 1, v[2]>> /\ v[2] \in Names /\ PathOf(stack', v) = Append(here.path, v[2])
        BY <2>8, <3>5
      <4>2. w = <<Len(stack) + 1, w[2]>> /\ w[2] \in Names /\ PathOf(stack', w) = Append(here.path, w[2])
        BY <2>8, <3>5
      <4>3. v[2] # w[2]
        BY <2>10, <4>1, <4>2
      <4>. QED BY <2>4, <4>1, <4>2, <4>3, Below
    <3>. QED BY <3>2, <3>3, <3>4, <3>5
  <2>. QED BY <2>9, <2>10 DEF WaitOnce
<1>15. CASE Charge \/ ReadLink
  <2>1. /\ UNCHANGED <<selection, stack>> /\ pc \in AtHand /\ pc' \notin AtHand
        /\ \E kind, data : entries' = entries \cup {Entry(here.path, kind, data)}
    BY <1>15 DEF Charge, ReadLink, Ready, EntriesNext
  <2>2. PICK e : entries' = entries \cup {e} /\ e.path = here.path
    <3>1. \A kind, data : Entry(here.path, kind, data).path = here.path
      BY DEF Entry
    <3>. QED BY <2>1, <3>1
  <2>3. here.path \in Seq(Names)
    BY <2>1 DEF TypeOK, HereAt
  <2>. SUFFICES ASSUME ~Administrative PROVE WaitOnce(stack, entries')
    BY <1>2, <1>13, <2>1, <2>2, <2>3 DEF OnceInv
  <2>4. WaitOnce(stack, entries) /\ HereOnce(stack, entries, here.path)
    BY <1>3, <2>1
  <2>. QED BY <2>2, <2>4 DEF WaitOnce, HereOnce, Untouched, ApartFrom
<1>. QED BY <1>5, <1>6, <1>7, <1>8, <1>9, <1>10, <1>11, <1>12, <1>14, <1>15 DEF Next, Reads

(* What is selected is finite.                                             *)
LEMMA WithParentsFinite ==
  ASSUME NEW leaves \in SUBSET Paths, IsFiniteSet(leaves)
  PROVE  IsFiniteSet(WithParents(leaves))
<1>. DEFINE T == leaves \X (0..MaxDepth)
            g == [w \in T |-> SubSeq(w[1], 1, w[2])]
            R == {g[w] : w \in T}
<1>1. IsFiniteSet(T)
  <2>1. 0 \in Int /\ MaxDepth \in Int
    BY TreeReadAssumption
  <2>2. IsFiniteSet(0..MaxDepth)
    BY <2>1, FS_Interval
  <2>. QED BY <2>2, FS_Product
<1>2. \A leaf \in leaves, m \in 0..MaxDepth : <<leaf, m>> \in T /\ g[<<leaf, m>>] = SubSeq(leaf, 1, m)
  OBVIOUS
<1>3. g \in Surjection(T, R)
  <2>1. g \in [T -> R]
    OBVIOUS
  <2>. HIDE DEF g, T
  <2>. QED BY <2>1 DEF Surjection
<1>. HIDE DEF g, T
<1>4. IsFiniteSet(R)
  BY <1>1, <1>3, FS_Surjection
<1>5. ASSUME NEW q \in WithParents(leaves) PROVE q \in R
  <2>1. PICK leaf \in leaves : IsPrefix(q, leaf)
    BY DEF WithParents
  <2>2. q \in Seq(Names) /\ Len(q) <= MaxDepth /\ Len(q) \in Nat
    BY PathsAreSequences DEF WithParents
  <2>3. Len(q) \in 0..Len(q) /\ Len(q) \in 0..MaxDepth
    BY <2>2, TreeReadAssumption
  <2>4. SubSeq(q, 1, Len(q)) = q
    BY <2>2, <2>3, Beginning
  <2>5. SubSeq(leaf, 1, Len(q)) = q
    BY <2>1, <2>4 DEF IsPrefix
  <2>6. <<leaf, Len(q)>> \in T /\ g[<<leaf, Len(q)>>] = q
    BY <1>2, <2>3, <2>5
  <2>. QED BY <2>6
<1>6. WithParents(leaves) \in SUBSET R
  BY <1>5
<1>. HIDE DEF R
<1>. QED BY <1>4, <1>6, FS_Subset

(* A selected path has at most one entry.                                  *)
LEMMA EntriesSelected ==
  ASSUME TypeOK, ShapeInv, OnceInv, ~Administrative
  PROVE  IsFiniteSet(entries) /\ Cardinality(entries) <= MaxEntries
<1>. DEFINE W == WithParents(selection)
            g == [e \in entries |-> e.path]
<1>1. IsFiniteSet(selection) /\ selection \in SUBSET Paths
  BY TreeReadAssumption DEF TypeOK, Administrative
<1>2. IsFiniteSet(W)
  BY <1>1, WithParentsFinite
<1>3. Cardinality(W) <= MaxEntries
  BY DEF TypeOK, Selectable, Administrative
<1>4. \A e \in entries : e.path \in W
  BY DEF ShapeInv, EntriesWanted, Wanted
<1>. HIDE DEF W
<1>5. g \in [entries -> W]
  BY <1>4
<1>6. \A e, f \in entries : g[e] = g[f] => e = f
  BY DEF OnceInv
<1>. HIDE DEF g
<1>7. g \in Injection(entries, W)
  BY <1>5, <1>6 DEF Injection, IsInjective
<1>8. IsFiniteSet(entries) /\ Cardinality(entries) <= Cardinality(W)
  BY <1>2, <1>7, FS_Injection
<1>9. Cardinality(entries) \in Nat /\ Cardinality(W) \in Nat /\ MaxEntries \in Nat
  BY <1>2, <1>8, FS_CardinalityType, TreeReadAssumption
<1>. QED BY <1>3, <1>8, <1>9

LimitsInv == BytesInv /\ ReservedInv /\ OnceInv

LEMMA LimitsInit == Init => LimitsInv
<1>. SUFFICES ASSUME Init PROVE LimitsInv
  OBVIOUS
<1>1. /\ pc = "observeRoot" /\ stack = <<>> /\ entries = {} /\ bytes = 0 /\ reserved = 1
      /\ MaxBytes \in Nat /\ MaxEntries \in Nat \ {0}
  BY TreeReadAssumption DEF Init, Start
<1>2. Parts = {} /\ Waiting(stack) = {}
  BY <1>1 DEF Parts, Waiting
<1>3. IsFiniteSet({}) /\ Cardinality({}) = 0
  BY FS_EmptySet
<1>4. BytesInv
  BY <1>1, <1>2, <1>3 DEF BytesInv
<1>5. ReservedInv
  <2>1. Cardinality(entries) = 0 /\ Cardinality(Waiting(stack)) = 0 /\ IsFiniteSet(entries)
    BY <1>1, <1>2, <1>3
  <2>2. Reservations = 0 + 0 + 0
    BY <1>1, <2>1 DEF Reservations, AtHand
  <2>. QED BY <1>1, <2>1, <2>2 DEF ReservedInv
<1>6. OnceInv
  BY <1>1, <1>2 DEF OnceInv, WaitOnce, AtHand
<1>. QED BY <1>4, <1>5, <1>6 DEF LimitsInv

LEMMA LimitsHold == TypeOK /\ ShapeInv /\ LimitsInv => WithinLimits
<1>. SUFFICES ASSUME TypeOK, ShapeInv, LimitsInv PROVE WithinLimits
  OBVIOUS
<1>1. Cardinality(entries) <= MaxEntries
  <2>1. CASE ~Administrative
    BY <2>1, EntriesSelected DEF LimitsInv
  <2>2. CASE Administrative
    <3>1. IsFiniteSet(entries) /\ Reservations <= reserved /\ reserved <= MaxEntries
      BY <2>2 DEF LimitsInv, ReservedInv
    <3>2. Cardinality(entries) \in Nat /\ Cardinality(Waiting(stack)) \in Nat
      BY <3>1, WaitingIs, FS_CardinalityType DEF TypeOK
    <3>. QED BY <3>1, <3>2, TreeReadAssumption DEF Reservations, TypeOK
  <2>. QED BY <2>1, <2>2
<1>2. Held <= MaxBytes
  <2>1. /\ bytes <= MaxBytes /\ IsFiniteSet(Parts) /\ Cardinality(Parts) <= bytes
        /\ pc \in {"readFile", "charge"} => bytes + here.information.size <= MaxBytes
    BY DEF LimitsInv, BytesInv
  <2>2. Cardinality(Parts) \in Nat /\ bytes \in Nat /\ MaxBytes \in Nat
    BY <2>1, FS_CardinalityType, TreeReadAssumption DEF TypeOK
  <2>3. pc \in {"readFile", "charge"} => here.information.size \in Nat
    BY DEF TypeOK, AtHand, HereAt, Information
  <2>. QED BY <2>1, <2>2, <2>3 DEF Held
<1>. QED BY <1>1, <1>2 DEF WithinLimits

(* A reader never holds more bytes or entries than its limits: what is left *)
(* of a file was free when it was opened, every name was reserved before it *)
(* was read, and no selected path is read twice (read_administrative.go:    *)
(* 212-216, 257; read_untracked_data.go:12).                                *)
THEOREM ReadersHoldLimits == Spec => []WithinLimits
<1>1. Init => LimitsInv
  BY LimitsInit
<1>2. TreeInv /\ TreeInv' /\ LimitsInv /\ [Next]_vars => LimitsInv'
  BY BytesStep, ReservedStep, OnceStep DEF TreeInv, LimitsInv
<1>3. TreeInv /\ LimitsInv => WithinLimits
  BY LimitsHold DEF TreeInv
<1>. QED BY <1>1, <1>2, <1>3, TreeInvariance, PTL DEF Spec
=================================================================================
