------------------------------- MODULE FileSys -------------------------------
(***************************************************************************)
(* Inodes, directories and path names: the inode cache of fs.c and the      *)
(* system calls of sysfile.c that look up, create, link and remove names.   *)
(*                                                                          *)
(* An inode's sleep lock is explicit wherever a call holds it while it      *)
(* waits for another; a section that locks an inode, waits for no other     *)
(* inode and unlocks it is one step, and so is a section under icache.lock. *)
(* The in-memory copy of an inode is written through by iupdate under the   *)
(* inode's lock, so one copy of type and nlink stands for both; the flag    *)
(* valid is kept.  Transactions are the subject of module Log.              *)
(***************************************************************************)
EXTENDS Integers, Sequences, FiniteSets

CONSTANTS
  Procs,
  NINODES,    \* inodes on the disk, numbered from 1
  Names,      \* file names, without "." and ".."
  Calls       \* system calls that programs make: [op, path, new]

ROOTINO == 1
Inums == 1..NINODES
None == 0
Dots == {".", ".."}

ASSUME FileSysAssumption ==
  /\ NINODES \in Nat \ {0}
  /\ None \notin Procs
  /\ Names \cap Dots = {}

VARIABLES
  type, nlink,   \* struct dinode
  ents,          \* ents[d][name]: inum of an entry of directory d, or 0
  ref, valid,    \* struct inode
  lock,          \* owner of each inode's sleep lock
  cwd, fd,       \* current directory, and the inode of the open file
  th             \* the call each process is in, with its locals

disk == <<type, nlink, ents>>
vars == <<type, nlink, ents, ref, valid, lock, cwd, fd, th>>

NoEntries == [n \in Names \cup Dots |-> None]
Idle == [pc |-> "user", op |-> "", path |-> <<>>, new |-> <<>>,
         old |-> None, dp |-> None, ip |-> None, put |-> None, ret |-> "user"]

\* mkfs has made the root directory, the current directory of every process.
Init ==
  /\ type = [i \in Inums |-> IF i = ROOTINO THEN "dir" ELSE "free"]
  /\ nlink = [i \in Inums |-> IF i = ROOTINO THEN 1 ELSE 0]
  /\ ents = [i \in Inums |-> IF i = ROOTINO
               THEN [n \in Names \cup Dots |-> IF n \in Dots THEN ROOTINO ELSE None]
               ELSE NoEntries]
  /\ ref = [i \in Inums |-> IF i = ROOTINO THEN Cardinality(Procs) ELSE 0]
  /\ valid = [i \in Inums |-> FALSE]
  /\ lock = [i \in Inums |-> None]
  /\ cwd = [p \in Procs |-> ROOTINO]
  /\ fd = [p \in Procs |-> None]
  /\ th = [p \in Procs |-> Idle]

\* iget() or idup(): one more reference to i.
Ref(i) == [ref EXCEPT ![i] = @ + 1]

\* ilock() of an inode nobody holds: it is read from disk if need be.
CanLock(i) == lock[i] = None
ilock(p, i) == CanLock(i) /\ lock' = [lock EXCEPT ![i] = p]
              /\ valid' = [valid EXCEPT ![i] = TRUE]
iunlock(i) == lock' = [lock EXCEPT ![i] = None]
\* ilock() and iunlock() around reads of i.
Visit(i) == CanLock(i) /\ valid' = [valid EXCEPT ![i] = TRUE] /\ UNCHANGED lock

\* p's locals when it calls iput(i) and then goes on at ret.
Put(t, i, ret) == [t EXCEPT !.pc = "put", !.put = i, !.ret = ret]
Goto(t, pc) == IF pc = "user" THEN Idle ELSE [t EXCEPT !.pc = pc]

-----------------------------------------------------------------------------

\* iput(): take the lock, and look whether this is the last reference to an
\* inode without links.
IputTest(p) ==
  LET i == th[p].put IN
  /\ th[p].pc = "put" /\ CanLock(i)
  /\ IF valid[i] /\ nlink[i] = 0 /\ ref[i] = 1
       THEN /\ lock' = [lock EXCEPT ![i] = p]
            /\ th' = [th EXCEPT ![p].pc = "put_free"]
       ELSE /\ th' = [th EXCEPT ![p].pc = "put_drop"]
            /\ UNCHANGED lock
  /\ UNCHANGED <<disk, ref, valid, cwd, fd>>

\* iput(): free the inode and its contents.
IputFree(p) ==
  LET i == th[p].put IN
  /\ th[p].pc = "put_free"
  /\ type' = [type EXCEPT ![i] = "free"]
  /\ ents' = [ents EXCEPT ![i] = NoEntries]
  /\ valid' = [valid EXCEPT ![i] = FALSE]
  /\ iunlock(i)
  /\ th' = [th EXCEPT ![p].pc = "put_drop"]
  /\ UNCHANGED <<nlink, ref, cwd, fd>>

\* iput(): drop the reference, and return to the caller.  The cache entry of
\* an inode without references is free, and iget() sets valid to 0 when it
\* takes one; nothing reads it in between.
IputDrop(p) ==
  LET i == th[p].put IN
  /\ th[p].pc = "put_drop"
  /\ ref' = [ref EXCEPT ![i] = @ - 1]
  /\ valid' = [valid EXCEPT ![i] = @ /\ ref[i] > 1]
  /\ th' = [th EXCEPT ![p] = Goto([@ EXCEPT !.put = None, !.ret = "user"], @.ret)]
  /\ UNCHANGED <<disk, lock, cwd, fd>>

-----------------------------------------------------------------------------
\* namex() starts at the root or at the current directory.
Start(p, path) == IF path[1] = "/" THEN ROOTINO ELSE cwd[p]
Relative(path) == IF path[1] = "/" THEN Tail(path) ELSE path

WantsParent(op) == op \in {"create", "mkdir", "unlink", "link_new"}
OnFail(op) == IF op = "link_new" THEN "link_bad" ELSE "user"

\* A system call with a path.
Call(p, c) ==
  /\ th[p].pc = "user"
  /\ ref' = Ref(Start(p, c.path))
  /\ th' = [th EXCEPT ![p] = [Idle EXCEPT !.pc = "namex", !.op = c.op,
              !.path = Relative(c.path), !.new = c.new, !.ip = Start(p, c.path)]]
  /\ UNCHANGED <<disk, valid, lock, cwd, fd>>

\* namex() has no path left.
NamexEnd(p) ==
  /\ th[p].pc = "namex" /\ th[p].path = <<>>
  /\ th' = [th EXCEPT ![p] =
              IF WantsParent(@.op) THEN Put([@ EXCEPT !.ip = None], @.ip, OnFail(@.op))
              ELSE Goto(@, @.op)]
  /\ UNCHANGED <<disk, ref, valid, lock, cwd, fd>>

\* One path element of namex(): not a directory, or the parent that is
\* wanted, or a lookup with dirlookup().
Namex(p) ==
  LET i == th[p].ip
      next == ents[i][Head(th[p].path)]
      stop == WantsParent(th[p].op) /\ Len(th[p].path) = 1
      found == type[i] = "dir" /\ ~stop /\ next # None
  IN
  /\ th[p].pc = "namex" /\ th[p].path # <<>>
  /\ Visit(i)
  /\ ref' = IF found THEN Ref(next) ELSE ref
  /\ th' = [th EXCEPT ![p] =
       IF found THEN Put([@ EXCEPT !.ip = next, !.path = Tail(@)], i, "namex")
       ELSE IF type[i] = "dir" /\ stop
            THEN Goto([@ EXCEPT !.ip = None, !.dp = i], @.op)
            ELSE Put([@ EXCEPT !.ip = None], i, OnFail(@.op))]
  /\ UNCHANGED <<disk, cwd, fd>>

-----------------------------------------------------------------------------
\* sys_open() without O_CREATE, for reading; no free descriptor is a failure.
Open(p) ==
  /\ th[p].pc = "open"
  /\ Visit(th[p].ip)
  /\ IF fd[p] = None
       THEN /\ fd' = [fd EXCEPT ![p] = th[p].ip]
            /\ th' = [th EXCEPT ![p] = Idle]
       ELSE /\ th' = [th EXCEPT ![p] = Put([@ EXCEPT !.ip = None], @.ip, "user")]
            /\ UNCHANGED fd
  /\ UNCHANGED <<disk, ref, cwd>>

\* sys_close() of the last descriptor for an open file.
Close(p) ==
  /\ th[p].pc = "user" /\ fd[p] # None
  /\ fd' = [fd EXCEPT ![p] = None]
  /\ th' = [th EXCEPT ![p] = Put(@, fd[p], "user")]
  /\ UNCHANGED <<disk, ref, valid, lock, cwd>>

\* sys_chdir() gives up the old directory ...
Chdir(p) ==
  /\ th[p].pc = "chdir"
  /\ Visit(th[p].ip)
  /\ th' = [th EXCEPT ![p] =
              IF type[@.ip] # "dir" THEN Put([@ EXCEPT !.ip = None], @.ip, "user")
              ELSE Put(@, cwd[p], "chdir_set")]
  /\ UNCHANGED <<disk, ref, cwd, fd>>

\* ... and takes the new one.
ChdirSet(p) ==
  /\ th[p].pc = "chdir_set"
  /\ cwd' = [cwd EXCEPT ![p] = th[p].ip]
  /\ th' = [th EXCEPT ![p] = Idle]
  /\ UNCHANGED <<disk, ref, valid, lock, fd>>

-----------------------------------------------------------------------------
\* Variant: sys_link() that counts no link.
LinkUncounted(p) ==
  LET i == th[p].ip IN
  /\ th[p].pc = "link"
  /\ Visit(i)
  /\ IF type[i] = "dir"
       THEN /\ th' = [th EXCEPT ![p] = Put([@ EXCEPT !.ip = None], i, "user")]
            /\ UNCHANGED ref
       ELSE /\ ref' = Ref(Start(p, th[p].new))
            /\ th' = [th EXCEPT ![p] = [Idle EXCEPT !.pc = "namex", !.op = "link_new",
                        !.path = Relative(th[p].new), !.old = i,
                        !.ip = Start(p, th[p].new)]]
  /\ UNCHANGED <<disk, cwd, fd>>

\* sys_link(): count the new link, then look for the new name's directory.
Link(p) ==
  LET i == th[p].ip IN
  /\ th[p].pc = "link"
  /\ Visit(i)
  /\ IF type[i] = "dir"
       THEN /\ th' = [th EXCEPT ![p] = Put([@ EXCEPT !.ip = None], i, "user")]
            /\ UNCHANGED <<nlink, ref>>
       ELSE /\ nlink' = [nlink EXCEPT ![i] = @ + 1]
            /\ ref' = Ref(Start(p, th[p].new))
            /\ th' = [th EXCEPT ![p] = [Idle EXCEPT !.pc = "namex", !.op = "link_new",
                        !.path = Relative(th[p].new), !.old = i,
                        !.ip = Start(p, th[p].new)]]
  /\ UNCHANGED <<type, ents, cwd, fd>>

\* sys_link(): dirlink() finds the name taken, and keeps dp locked while it
\* puts the inode it found.
LinkTaken(p) ==
  LET d == th[p].dp  name == th[p].path[1] IN
  /\ th[p].pc = "link_new" /\ ents[d][name] # None
  /\ ilock(p, d)
  /\ ref' = Ref(ents[d][name])
  /\ th' = [th EXCEPT ![p] = Put(@, ents[d][name], "link_taken")]
  /\ UNCHANGED <<disk, cwd, fd>>

LinkTakenPut(p) ==
  /\ th[p].pc = "link_taken"
  /\ iunlock(th[p].dp)
  /\ th' = [th EXCEPT ![p] = Put([@ EXCEPT !.dp = None], @.dp, "link_bad")]
  /\ UNCHANGED <<disk, ref, valid, cwd, fd>>

\* sys_link(): the entry is made.
LinkMade(p) ==
  LET d == th[p].dp  name == th[p].path[1] IN
  /\ th[p].pc = "link_new" /\ ents[d][name] = None
  /\ Visit(d)
  /\ ents' = [ents EXCEPT ![d][name] = th[p].old]
  /\ th' = [th EXCEPT ![p] = Put([@ EXCEPT !.dp = None], d, "link_done")]
  /\ UNCHANGED <<type, nlink, ref, cwd, fd>>

LinkDone(p) ==
  /\ th[p].pc = "link_done"
  /\ th' = [th EXCEPT ![p] = Put([@ EXCEPT !.old = None], @.old, "user")]
  /\ UNCHANGED <<disk, ref, valid, lock, cwd, fd>>

\* sys_link(): bad.
LinkBad(p) ==
  LET i == th[p].old IN
  /\ th[p].pc = "link_bad"
  /\ Visit(i)
  /\ nlink' = [nlink EXCEPT ![i] = @ - 1]
  /\ th' = [th EXCEPT ![p] = Put([@ EXCEPT !.old = None], i, "user")]
  /\ UNCHANGED <<type, ents, ref, cwd, fd>>

-----------------------------------------------------------------------------
\* sys_unlink(): lock the directory and look the name up.
Unlink(p) ==
  LET d == th[p].dp  i == ents[d][th[p].path[1]] IN
  /\ th[p].pc = "unlink"
  /\ IF th[p].path[1] \in Dots \/ i = None
       THEN /\ Visit(d)
            /\ th' = [th EXCEPT ![p] = Put([@ EXCEPT !.dp = None], d, "user")]
            /\ UNCHANGED ref
       ELSE /\ ilock(p, d)
            /\ ref' = Ref(i)
            /\ th' = [th EXCEPT ![p] = [@ EXCEPT !.pc = "unlink_ip", !.ip = i]]
  /\ UNCHANGED <<disk, cwd, fd>>

isdirempty(i) == \A n \in Names : ents[i][n] = None

\* sys_unlink(): a directory with entries stays.
UnlinkBusy(p) ==
  LET i == th[p].ip IN
  /\ th[p].pc = "unlink_ip" /\ type[i] = "dir" /\ ~isdirempty(i)
  /\ Visit(i)
  /\ th' = [th EXCEPT ![p] = Put([@ EXCEPT !.ip = None], i, "unlink_bad")]
  /\ UNCHANGED <<disk, ref, cwd, fd>>

UnlinkBad(p) ==
  /\ th[p].pc = "unlink_bad"
  /\ iunlock(th[p].dp)
  /\ th' = [th EXCEPT ![p] = Put([@ EXCEPT !.dp = None], @.dp, "user")]
  /\ UNCHANGED <<disk, ref, valid, cwd, fd>>

\* sys_unlink(): clear the entry, and put the directory while the inode is
\* locked.
UnlinkEntry(p) ==
  LET d == th[p].dp  i == th[p].ip IN
  /\ th[p].pc = "unlink_ip" /\ ~(type[i] = "dir" /\ ~isdirempty(i))
  /\ CanLock(i)
  /\ lock' = [lock EXCEPT ![i] = p, ![d] = None]
  /\ valid' = [valid EXCEPT ![i] = TRUE]
  /\ ents' = [ents EXCEPT ![d][th[p].path[1]] = None]
  /\ nlink' = IF type[i] = "dir" THEN [nlink EXCEPT ![d] = @ - 1] ELSE nlink
  /\ th' = [th EXCEPT ![p] = Put([@ EXCEPT !.dp = None], d, "unlink_done")]
  /\ UNCHANGED <<type, ref, cwd, fd>>

UnlinkDone(p) ==
  LET i == th[p].ip IN
  /\ th[p].pc = "unlink_done"
  /\ nlink' = [nlink EXCEPT ![i] = @ - 1]
  /\ iunlock(i)
  /\ th' = [th EXCEPT ![p] = Put([@ EXCEPT !.ip = None], i, "user")]
  /\ UNCHANGED <<type, ents, ref, valid, cwd, fd>>

-----------------------------------------------------------------------------
\* Variant: create() that uses an inode it found without a reference.
CreateFoundNoRef(p) ==
  LET d == th[p].dp  i == ents[d][th[p].path[1]] IN
  /\ th[p].pc \in {"create", "mkdir"} /\ i # None
  /\ Visit(d)
  /\ th' = [th EXCEPT ![p] = Put([@ EXCEPT !.dp = None, !.ip = i], d, "create_found")]
  /\ UNCHANGED <<disk, ref, cwd, fd>>

\* create(): the name exists.
CreateFound(p) ==
  LET d == th[p].dp  i == ents[d][th[p].path[1]] IN
  /\ th[p].pc \in {"create", "mkdir"} /\ i # None
  /\ Visit(d)
  /\ ref' = Ref(i)
  /\ th' = [th EXCEPT ![p] = Put([@ EXCEPT !.dp = None, !.ip = i], d, "create_found")]
  /\ UNCHANGED <<disk, cwd, fd>>

\* create(): an existing file may be opened; anything else is a failure.
CreateOld(p) ==
  LET i == th[p].ip IN
  /\ th[p].pc = "create_found" /\ CanLock(i)
  /\ valid' = [valid EXCEPT ![i] = TRUE]
  /\ IF th[p].op = "create" /\ type[i] = "file"
       THEN /\ lock' = [lock EXCEPT ![i] = p]
            /\ th' = [th EXCEPT ![p].pc = "create_done"]
       ELSE /\ th' = [th EXCEPT ![p] = Put([@ EXCEPT !.ip = None], i, "user")]
            /\ UNCHANGED lock
  /\ UNCHANGED <<disk, ref, cwd, fd>>

\* create(): ialloc() takes a free inode while the directory is locked.
CreateAlloc(p, i) ==
  LET d == th[p].dp IN
  /\ th[p].pc \in {"create", "mkdir"} /\ ents[d][th[p].path[1]] = None
  /\ type[i] = "free"
  /\ ilock(p, d)
  /\ type' = [type EXCEPT ![i] = IF th[p].op = "mkdir" THEN "dir" ELSE "file"]
  /\ nlink' = [nlink EXCEPT ![i] = 0]
  /\ ref' = Ref(i)
  /\ th' = [th EXCEPT ![p] = [@ EXCEPT !.pc = "create_new", !.ip = i]]
  /\ UNCHANGED <<ents, cwd, fd>>

\* create(): link the new inode, and put the directory while the inode is
\* locked.
CreateLink(p) ==
  LET d == th[p].dp  i == th[p].ip IN
  /\ th[p].pc = "create_new" /\ CanLock(i)
  /\ lock' = [lock EXCEPT ![i] = p, ![d] = None]
  /\ valid' = [valid EXCEPT ![i] = TRUE]
  /\ nlink' = IF th[p].op = "mkdir" THEN [nlink EXCEPT ![i] = 1, ![d] = @ + 1]
                                    ELSE [nlink EXCEPT ![i] = 1]
  /\ ents' = [ents EXCEPT ![d][th[p].path[1]] = i,
                ![i] = IF th[p].op = "mkdir"
                         THEN [@ EXCEPT !["."] = i, ![".."] = d] ELSE @]
  /\ th' = [th EXCEPT ![p] = Put([@ EXCEPT !.dp = None], d, "create_done")]
  /\ UNCHANGED <<type, ref, cwd, fd>>

\* sys_open() or sys_mkdir() after create().
CreateDone(p) ==
  LET i == th[p].ip IN
  /\ th[p].pc = "create_done"
  /\ iunlock(i)
  /\ IF th[p].op = "create" /\ fd[p] = None
       THEN /\ fd' = [fd EXCEPT ![p] = i]
            /\ th' = [th EXCEPT ![p] = Idle]
       ELSE /\ th' = [th EXCEPT ![p] = Put([@ EXCEPT !.ip = None], i, "user")]
            /\ UNCHANGED fd
  /\ UNCHANGED <<disk, ref, valid, cwd>>

Step(p) ==
  \/ IputTest(p) \/ IputFree(p) \/ IputDrop(p)
  \/ NamexEnd(p) \/ Namex(p)
  \/ Open(p) \/ Chdir(p) \/ ChdirSet(p)
  \/ Link(p) \/ LinkTaken(p) \/ LinkTakenPut(p) \/ LinkMade(p) \/ LinkDone(p) \/ LinkBad(p)
  \/ Unlink(p) \/ UnlinkBusy(p) \/ UnlinkBad(p) \/ UnlinkEntry(p) \/ UnlinkDone(p)
  \/ CreateFound(p) \/ CreateOld(p) \/ CreateLink(p) \/ CreateDone(p)
  \/ \E i \in Inums : CreateAlloc(p, i)

Next ==
  \E p \in Procs :
    \/ \E c \in Calls : Call(p, c)
    \/ Close(p)
    \/ Step(p)

Spec == Init /\ [][Next]_vars

-----------------------------------------------------------------------------
\* The inodes that p has a reference to, one for each of its variables.
Refs(p) ==
  {<<v, th[p][v]>> : v \in {"old", "dp", "ip", "put"}} \cup {<<"fd", fd[p]>>}
    \cup (IF th[p].ret = "chdir_set" \/ th[p].pc = "chdir_set"
          THEN {} ELSE {<<"cwd", cwd[p]>>})

\* The reference count of an inode is the number of variables that refer to
\* it: current directories, open files, and the locals of calls in progress.
RefsExact ==
  \A i \in Inums :
    ref[i] = Cardinality({<<p, r>> \in Procs \X {"old", "dp", "ip", "put", "fd", "cwd"} :
                            <<r, i>> \in Refs(p)})


\* An inode is freed by the holder of its only reference, and without links:
\* nobody finds it between iput()'s look at ref and its release.
FreedUnreferenced ==
  [][\A i \in Inums : type[i] # "free" /\ type'[i] = "free"
                        => ref[i] = 1 /\ nlink[i] = 0]_vars

\* The inode whose lock p's next step takes.
Wants(p) ==
  CASE th[p].pc = "put" -> th[p].put
    [] th[p].pc \in {"open", "chdir", "link", "unlink_ip", "create_found", "create_new"} -> th[p].ip
    [] th[p].pc = "namex" /\ th[p].path # <<>> -> th[p].ip
    [] th[p].pc \in {"link_new", "unlink", "create", "mkdir"} -> th[p].dp
    [] th[p].pc = "link_bad" -> th[p].old
    [] OTHER -> None
WaitsFor(p, q) == Wants(p) # None /\ lock[Wants(p)] = q

\* Processes do not wait for each other's inode locks in a circle.
NoCircularWait ==
  \A p, q \in Procs : ~(WaitsFor(p, q) /\ WaitsFor(q, p))
=============================================================================
