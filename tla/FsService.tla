------------------------------ MODULE FsService ------------------------------
(***************************************************************************)
(* The fs capability (src/src/server/fs/handler.ts, _jail.ts): operations  *)
(* of several requesters on one tree, which overlap at every await, and    *)
(* the names clients give to files (resolvePath of                         *)
(* src/src/cli/_commands.ts).                                              *)
(*                                                                         *)
(* A path is a sequence of names.  A file is a sequence of blocks, each as *)
(* large as the sample opRead takes: "n" holds a null byte, "t" none.      *)
(* Symbolic links are not in the tree.  That the real path of something    *)
(* that exists lies outside the root is an answer realpath may give, and   *)
(* what an operation does behind a link is left out.                       *)
(***************************************************************************)
EXTENDS Naturals, Sequences, SequencesExt, FiniteSets

CONSTANTS
  Requesters,  \* each makes one request
  Names,       \* names of files and directories
  Root,        \* the root of the jail
  Home,        \* the home directory, a path of the server's host
  Cwds,        \* working directories of the command line, paths of that host
  Typed,       \* paths as typed, [from |-> "/", "~" or ".", segs |-> names]
  Trees,       \* trees there may be at first: functions from paths to nodes
  Contents,    \* what files may hold
  MaxRead      \* maxReadSize, in blocks

Dir == 0  \* the node of a directory; files are numbered from 1

Blocks == {"n", "t"}

Dots == {".", ".."}

\* PathJail keeps its root resolved, and a client its home and its working
\* directory; what is typed may climb.  A path of a tree lies in directories of
\* the tree.
ASSUME FsAssumption ==
  /\ Names \cap Dots = {}
  /\ Root \in Seq(Names) /\ Home \in Seq(Names) /\ Cwds \subseteq Seq(Names)
  /\ \A t \in Typed : t.segs \in Seq(Names \cup Dots)
  /\ Contents \subseteq Seq(Blocks)
  /\ MaxRead \in Nat
  /\ \A t \in Trees :
       /\ IsFiniteSet(DOMAIN t) /\ DOMAIN t \subseteq Seq(Names)
       /\ t \in [DOMAIN t -> Nat]
       /\ \E n \in 0..Cardinality(DOMAIN t) :
            {t[p] : p \in DOMAIN t} \ {Dir} = 1..n
       /\ \A p \in DOMAIN t : \A k \in 0..Len(p) - 1 :
            SubSeq(p, 1, k) \in DOMAIN t /\ t[SubSeq(p, 1, k)] = Dir

VARIABLES
  tree,  \* the node at each path that exists
  data,  \* the blocks of each file
  op     \* the request of each requester

vars == <<tree, data, op>>

NoOp == [kind |-> "none", at |-> "idle", path |-> <<>>, to |-> <<>>,
         meant |-> <<>>, real |-> <<>>, content |-> <<>>, node |-> Dir, size |-> 0,
         encoding |-> "utf8", touched |-> FALSE, answer |-> "none"]

Init ==
  /\ tree \in Trees
  /\ \E c \in Contents :
       data = [f \in {tree[p] : p \in DOMAIN tree} \ {Dir} |-> c]
  /\ op = [r \in Requesters |-> NoOp]

-----------------------------------------------------------------------------
(* Names.                                                                  *)

\* A mutant, not part of the specification: one that forgets that ".." takes a
\* name away.
normalizeDrops(segs) == SelectSeq(segs, LAMBDA s : s \notin Dots)

\* normalize, of an absolute path: ".." at the top stays there.
Walk(here, seg) ==
  CASE seg = "." -> here
    [] seg = ".." -> IF here = <<>> THEN here ELSE Front(here)
    [] OTHER -> Append(here, seg)

normalize(segs) ==
  LET at[k \in 0..Len(segs)] ==
        IF k = 0 THEN <<>> ELSE LET here == at[k - 1] IN Walk(here, segs[k])
  IN at[Len(segs)]

\* Only the command line knows a home.
IsPath(t) == t.from \in {"/", "."}

Base(t, cwd) == CASE t.from = "/" -> <<>> [] t.from = "~" -> Home [] OTHER -> cwd

\* What a path means: a name is left unless a later ".." takes it away, as a
\* closing bracket takes the last one open.
NamesIn(segs, j, k) == {i \in j..k : segs[i] \notin Dots}
UpsIn(segs, j, k) == {i \in j..k : segs[i] = ".."}

Left(segs) ==
  {i \in NamesIn(segs, 1, Len(segs)) :
     \A k \in i..Len(segs) :
       Cardinality(UpsIn(segs, i, k)) < Cardinality(NamesIn(segs, i, k))}

Meaning(segs) ==
  [n \in 1..Cardinality(Left(segs)) |->
     segs[CHOOSE i \in Left(segs) : Cardinality(Left(segs) \cap 1..i) = n]]

\* The command line makes every path absolute; a program may send any.
resolvePath(t, cwd) == normalize(Base(t, cwd) \o t.segs)

Sent(cli, cwd, t) == IF cli THEN resolvePath(t, cwd) ELSE t.segs

\* The file of the host that the user of the command line means.
OfHost(t, cwd) == Meaning(Base(t, cwd) \o t.segs)

\* What a path stands for: of the command line, the name of a file of the host,
\* looked for below the root; of a program, a path from the root.
Meant(cli, cwd, t) == IF cli THEN Root \o OfHost(t, cwd) ELSE Meaning(Root \o t.segs)

\* Whether the path as it is resolved leaves the root.
Outside(segs) == ~IsPrefix(Root, normalize(Root \o segs))

\* A mutant, not part of the specification: a jail without the second check.
resolveByName(segs, real) ==
  [path |-> normalize(Root \o segs), denied |-> Outside(segs)]

\* PathJail.resolve: a path is taken from the root, absolute or not, and must
\* not leave it, and neither must its real path, if there is something.
resolve(segs, real) ==
  [path |-> normalize(Root \o segs),
   denied |-> Outside(segs) \/ real = "outside"]

-----------------------------------------------------------------------------
(* The file system (external: node:fs/promises).                           *)

Exists(p) == p \in DOMAIN tree

\* Where realpath finds what a path names, if it is asked.
RealPath(segs) ==
  IF ~Outside(segs) /\ Exists(normalize(Root \o segs)) THEN {"inside", "outside"}
  ELSE {"unasked"}

IsDir(p) == Exists(p) /\ tree[p] = Dir
Ancestors(p) == {SubSeq(p, 1, k) : k \in 0..Len(p)}
Below(p) == {q \in DOMAIN tree : IsPrefix(p, q)}

\* mkdir with recursive: every directory on the way.
Mkdir(p) ==
  /\ \A q \in Ancestors(p) : Exists(q) => IsDir(q)
  /\ tree' = [q \in DOMAIN tree \cup Ancestors(p) |->
                IF Exists(q) THEN tree[q] ELSE Dir]

\* open for writing: the file is made, or emptied.
Truncate(p) ==
  /\ p # <<>> /\ ~IsDir(p) /\ IsDir(Front(p))
  /\ LET f == IF Exists(p) THEN tree[p] ELSE Cardinality(DOMAIN data) + 1 IN
     /\ tree' = [q \in DOMAIN tree \cup {p} |-> IF q = p THEN f ELSE tree[q]]
     /\ data' = [g \in DOMAIN data \cup {f} |-> IF g = f THEN <<>> ELSE data[g]]

\* What is written at the start of a file, over what is there.
Over(old, new) == new \o SubSeq(old, Len(new) + 1, Len(old))

Renamable(from, to) ==
  /\ Exists(from) /\ from # <<>> /\ to # <<>> /\ IsDir(Front(to))
  /\ to = from \/ ~IsPrefix(from, to)
  /\ Exists(to) /\ to # from =>
       IF IsDir(from) THEN IsDir(to) /\ Below(to) = {to} ELSE ~IsDir(to)

Rename(from, to) ==
  LET Moved(q) == to \o SubSeq(q, Len(from) + 1, Len(q))
      Old(q) == IF IsPrefix(to, q) THEN from \o SubSeq(q, Len(to) + 1, Len(q)) ELSE q
  IN tree' = [q \in (DOMAIN tree \ Below(from)) \cup {Moved(b) : b \in Below(from)} |->
                tree[Old(q)]]

-----------------------------------------------------------------------------
(* The operations.                                                         *)

\* What a tree holds at a path.
Seen(t, d, p) == IF p \notin DOMAIN t THEN <<>>
                 ELSE IF t[p] = Dir THEN <<Dir>> ELSE <<t[p], d[t[p]]>>

Changes(p) == Seen(tree', data', p) # Seen(tree, data, p)

\* A step of r: what it leaves of its request, and whose paths it changes.
Step(r, next) ==
  op' = [q \in Requesters |->
           IF q = r THEN next
           ELSE [op[q] EXCEPT !.touched =
                   @ \/ Changes(op[q].path) \/ Changes(op[q].to)]]

Done(r, answer) == [op[r] EXCEPT !.at = "done", !.answer = answer]

\* handleFs turns whatever is thrown into an error frame.
Throws(r) == UNCHANGED <<tree, data>> /\ Step(r, Done(r, "FS_ERROR"))

\* A single call of the file system, which succeeds or throws.
Begins(r, kind) == op[r].kind = kind /\ op[r].at = "begin"
Fresh(r) == [Done(r, "ok") EXCEPT !.touched = FALSE]

\* A mutant, not part of the specification: a write that is answered when the
\* file is open.
opWriteEarly(r) ==
  LET o == op[r] IN
  \/ /\ Begins(r, "write") /\ Mkdir(Front(o.path)) /\ UNCHANGED data
     /\ Step(r, [o EXCEPT !.at = "open"])
  \/ o.at = "open" /\ Truncate(o.path) /\ Step(r, Fresh(r))

\* What is asked: denied if one of its paths is.
Asked(kind, from, to, meant, real, c) ==
  LET denied == from.denied \/ to.denied IN
  [NoOp EXCEPT !.kind = kind, !.path = from.path, !.to = to.path,
               !.meant = meant, !.real = real, !.content = c,
               !.at = IF denied THEN "done" ELSE "begin",
               !.answer = IF denied THEN "SECURITY_ERROR" ELSE @]

\* A request.  Its paths are resolved before anything is awaited.
Request(r) ==
  /\ op[r].at = "idle"
  /\ UNCHANGED <<tree, data>>
  /\ \E kind \in {"read", "write", "list", "delete", "stat", "mkdir", "rename"},
        cli \in BOOLEAN, cwd \in Cwds, t \in Typed :
     \E u \in IF kind = "rename" THEN Typed ELSE {t},
        c \in IF kind = "write" THEN Contents \cup {<<>>} ELSE {<<>>} :
     LET sent == Sent(cli, cwd, t)  target == Sent(cli, cwd, u) IN
     \E x \in RealPath(sent) : \E y \in IF u = t THEN {x} ELSE RealPath(target) :
       /\ cli \/ (IsPath(t) /\ IsPath(u))
       /\ Step(r, Asked(kind, resolve(sent, x), resolve(target, y),
                        <<Meant(cli, cwd, t), Meant(cli, cwd, u)>>, <<x, y>>, c))

\* stat, open, a sample of the first block, and only then the file, by its name
\* again.  The buffer of the sample is zeros where the file has become shorter.
opRead(r) ==
  LET o == op[r]
      size == IF IsDir(o.path) THEN 1 ELSE Len(data[tree[o.path]]) IN
  /\ UNCHANGED <<tree, data>>
  /\ \/ /\ Begins(r, "read") /\ Exists(o.path) /\ size <= MaxRead
        /\ Step(r, [o EXCEPT !.at = "open", !.size = size, !.touched = FALSE])
     \/ /\ o.at = "open" /\ o.kind = "read" /\ Exists(o.path)
        /\ Step(r, [o EXCEPT !.at = "sample", !.node = tree[o.path]])
     \/ /\ o.at = "sample" /\ o.node # Dir
        /\ LET blocks == data[o.node]
               isBinary == o.size > 0 /\ (blocks = <<>> \/ Head(blocks) = "n") IN
           Step(r, [o EXCEPT !.at = "readFile",
                             !.encoding = IF isBinary THEN "base64" ELSE @])
     \/ /\ o.at = "readFile" /\ Exists(o.path) /\ ~IsDir(o.path)
        /\ Step(r, [Done(r, "ok") EXCEPT !.content = data[tree[o.path]]])

\* The directory, the file, and what goes into it.
opWrite(r) ==
  LET o == op[r] IN
  \/ /\ Begins(r, "write") /\ o.path # <<>> /\ Mkdir(Front(o.path)) /\ UNCHANGED data
     /\ Step(r, [o EXCEPT !.at = "open"])
  \/ /\ o.at = "open" /\ o.kind = "write" /\ Truncate(o.path)
     /\ Step(r, [o EXCEPT !.at = "write", !.node = tree'[o.path], !.touched = FALSE])
  \/ /\ o.at = "write"
     /\ data' = [data EXCEPT ![o.node] = Over(@, o.content)]
     /\ UNCHANGED tree
     /\ Step(r, Done(r, "ok"))

opList(r) ==
  /\ Begins(r, "list") /\ IsDir(op[r].path)
  /\ UNCHANGED <<tree, data>> /\ Step(r, Fresh(r))

opStat(r) ==
  /\ Begins(r, "stat") /\ Exists(op[r].path)
  /\ UNCHANGED <<tree, data>> /\ Step(r, Fresh(r))

\* With everything below it.
opDelete(r) ==
  /\ Begins(r, "delete") /\ Exists(op[r].path) /\ op[r].path # <<>>
  /\ tree' = [q \in DOMAIN tree \ Below(op[r].path) |-> tree[q]]
  /\ UNCHANGED data
  /\ Step(r, Fresh(r))

opMkdir(r) ==
  /\ Begins(r, "mkdir") /\ Mkdir(op[r].path) /\ UNCHANGED data
  /\ Step(r, Fresh(r))

opRename(r) ==
  LET o == op[r] IN
  /\ Begins(r, "rename") /\ Renamable(o.path, o.to)
  /\ Rename(o.path, o.to) /\ UNCHANGED data
  /\ Step(r, [Fresh(r) EXCEPT !.node = tree[o.path]])

\* Any call may fail, for a reason of this tree or another.
handleFsThrows(r) ==
  /\ op[r].at \notin {"idle", "done"}
  /\ Throws(r)

Next ==
  \E r \in Requesters :
    \/ Request(r) \/ opRead(r) \/ opWrite(r) \/ opList(r) \/ opStat(r)
    \/ opDelete(r) \/ opMkdir(r) \/ opRename(r) \/ handleFsThrows(r)

Spec == Init /\ [][Next]_vars

-----------------------------------------------------------------------------

\* Client and jail agree on what a path names.  Of the command line it is the file
\* below the root that has the name the user means on the host, from the working
\* directory or home the server told: the same file only if the root is the top.
\* Of a program it is a path from the root.  A request is refused exactly when a
\* path of it leads out of the root, by its name or, when asked, by its real path.
PathsAgree ==
  \A r \in Requesters : op[r].at # "idle" =>
    LET inside == \A k \in 1..2 : IsPrefix(Root, op[r].meant[k])
        linkedOut == \E k \in 1..2 : op[r].real[k] = "outside" IN
    /\ op[r].answer = "SECURITY_ERROR" <=> ~inside \/ linkedOut
    /\ inside => <<op[r].path, op[r].to>> = op[r].meant

\* An answer holds until another request changes the paths it is about: a read
\* has told the content, size and encoding of one file within the limit; what
\* was written is there, what was deleted is gone and what was moved has moved.
AnswersHold ==
  \A r \in Requesters :
    LET o == op[r] IN
    o.answer = "ok" /\ ~o.touched =>
      CASE o.kind = "read" ->
             /\ Exists(o.path) /\ o.content = data[tree[o.path]]
             /\ o.size = Len(o.content) /\ o.size <= MaxRead
             /\ o.encoding = "base64" <=> (o.content # <<>> /\ Head(o.content) = "n")
        [] o.kind = "write" -> Exists(o.path) /\ data[tree[o.path]] = o.content
        [] o.kind = "delete" -> ~Exists(o.path)
        [] o.kind = "mkdir" -> IsDir(o.path)
        [] o.kind = "rename" -> /\ Exists(o.to) /\ tree[o.to] = o.node
                                /\ o.to # o.path => ~Exists(o.path)
        [] OTHER -> TRUE

=============================================================================
