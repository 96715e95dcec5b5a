------------------------------- MODULE Inode --------------------------------
(***************************************************************************)
(* Inodes, directories and the system calls that use them (fs.c, sysfile.c,*)
(* file.c): the inode cache with its reference counts and sleeping locks,  *)
(* path lookup, create, link, unlink, chdir, open, close, and exit's last  *)
(* iput.                                                                   *)
(*                                                                         *)
(* The disk is what Log shows it to be, an AtomicDisk: `view' is what a    *)
(* read finds, `stable' what a reboot would find.  A step ends where the   *)
(* code releases icache.lock or an inode, waits for an inode or for the    *)
(* log, or drops a reference.  File contents are left out.                 *)
(***************************************************************************)
EXTENDS Naturals, Sequences, FiniteSets, FiniteSetsExt

ROOTINO == 1

CONSTANTS
  Proc,       \* processes other than init, which stays in "/"
  NINUM,      \* inodes on the disk (sb.ninodes - 1)
  NINODE,     \* entries of the inode cache
  NFILE,      \* entries of the file table; a process has one descriptor
  Name,       \* names other than "." and ".."
  Path,       \* the paths processes use: [abs, elems]
  Calls,      \* the system calls they make
  Image,      \* the disks the machine may boot from first
  MaxCalls,   \* bound: system calls in a behaviour
  None

ASSUME InodeAssumption ==
  /\ IsFiniteSet(Proc)
  /\ NINUM \in Nat \ {0} /\ NINODE \in Nat \ {0} /\ NFILE \in Nat \ {0}
  /\ NINODE >= NINUM   \* iget finds an entry: its panic is left out
  /\ MaxCalls \in Nat
  /\ \A d \in Image : d[ROOTINO].type = "dir"
  /\ Name \intersect {".", ".."} = {}
  /\ None \notin Nat

Inum == 1 .. NINUM
Entry == 1 .. NINODE
File == 1 .. NFILE
Elem == Name \union {".", ".."}

VARIABLES
  view, stable,   \* dinodes, with the entries of a directory
  tx,             \* the process inside a transaction (log.busy), or None
  icache,         \* inum, ref, I_BUSY, I_VALID and the copied type and nlink
  asleep,         \* processes asleep in ilock
  cwd,            \* an entry of icache, None for a process that does not exist
  ftable, ofile,  \* open files; the file of a process's one descriptor
  k,              \* what a process is doing in the kernel, with its locals
  panicked,       \* None or the panic's message
  calls           \* system calls so far

disk == <<view, stable, tx>>
files == <<ftable, ofile>>
vars == <<view, stable, tx, icache, asleep, cwd, ftable, ofile, k, panicked, calls>>

NoEntries == [n \in Elem |-> 0]
Free == [type |-> "free", nlink |-> 0, dir |-> NoEntries]

\* Between system calls.  arg and cont: the inode that ilock or iput is about
\* and where to go on; cur, rest and par: namex's inode, the elements left and
\* nameiparent.
Idle == [call |-> "none", pc |-> "user", arg |-> None, cont |-> "user",
         cur |-> None, rest |-> <<>>, par |-> FALSE,
         ip |-> None, dp |-> None, name |-> None, new |-> None]

\* iinit, fileinit, and userinit's cwd = namei("/"), which init's children
\* inherit.
BootCache ==
  [s \in Entry |-> [inum |-> IF s = 1 THEN ROOTINO ELSE 0, ref |-> IF s = 1 THEN Cardinality(Proc) + 1 ELSE 0,
                    busy |-> FALSE, valid |-> FALSE, type |-> "free", nlink |-> 0]]
BootCwd == [p \in Proc |-> 1]
NoFiles == [f \in File |-> [ref |-> 0, ip |-> None]]

Init ==
  /\ stable \in Image /\ view = stable
  /\ tx = None
  /\ icache = BootCache /\ cwd = BootCwd
  /\ k = [p \in Proc |-> Idle]
  /\ ftable = NoFiles /\ ofile = [p \in Proc |-> None]
  /\ asleep = {}
  /\ panicked = None
  /\ calls = 0

-----------------------------------------------------------------------------
(* The inode cache                                                         *)

Cached(c, i) == {s \in Entry : c[s].ref > 0 /\ c[s].inum = i}
Empty(c) == {s \in Entry : c[s].ref = 0}

\* iget: the entry for inode i of cache c, and c once it counts the reference.
Slot(c, i) == IF Cached(c, i) # {} THEN Min(Cached(c, i)) ELSE Min(Empty(c))

iget(c, i) ==
  LET s == Slot(c, i)
  IN IF Cached(c, i) # {}
     THEN [c EXCEPT ![s].ref = @ + 1]
     ELSE [c EXCEPT ![s] = [@ EXCEPT !.inum = i, !.ref = 1, !.busy = FALSE, !.valid = FALSE]]

idup(c, s) == [c EXCEPT ![s].ref = @ + 1]

\* The inode behind an entry, on the disk.
Dinode(s) == view[icache[s].inum]

\* iunlock(s) clears I_BUSY and wakes whoever sleeps on s.
Unlocked(cache, s) == [cache EXCEPT ![s].busy = FALSE]
AfterWakeup_Nobody(s) == asleep

AfterWakeup(s) == asleep \ {p \in Proc : k[p].arg = s}

\* Where a process goes to lock s, or to drop its reference to s, before c.
Lock(l, s, c) == [l EXCEPT !.pc = "ilock", !.arg = s, !.cont = c]
Put(l, s, c) == [l EXCEPT !.pc = "iput", !.arg = s, !.cont = c]

\* iunlockput of the inode in local f of p, when the rest of the step leaves
\* `cache', and then c.
iunlockput(p, cache, f, c) ==
  LET s == k[p][f]
  IN /\ icache' = Unlocked(cache, s)
     /\ asleep' = AfterWakeup(s)
     /\ k' = [k EXCEPT ![p] = Put([@ EXCEPT ![f] = None], s, c)]

Goto(l, c) == [l EXCEPT !.pc = c, !.arg = None, !.cont = "user"]

At(p, l) == panicked = None /\ k[p].pc = l

-----------------------------------------------------------------------------
(* Path lookup, as a change of a process's locals                          *)

\* What each system call does when namei or nameiparent returns an inode, or
\* none.  link looks up two paths: the old name, then the new one's parent.
link_looked(l, found) ==
  IF l.par THEN IF found THEN Lock(l, l.dp, "dirlink") ELSE Lock(l, l.ip, "link_bad")
  ELSE IF found THEN Goto(l, "begin") ELSE Idle
unlink_looked(l, found) == IF found THEN Goto(l, "begin") ELSE Idle
create_looked(l, found) == IF found THEN Lock(l, l.dp, "create") ELSE Goto(l, "commit")
open_looked(l, found)   == IF found THEN Lock(l, l.ip, "open") ELSE Idle
chdir_looked(l, found)  == IF found THEN Lock(l, l.ip, "chdir") ELSE Idle

Looked(l, found) ==
  CASE l.call = "link"              -> link_looked(l, found)
    [] l.call = "unlink"            -> unlink_looked(l, found)
    [] l.call \in {"creat", "mkdir"} -> create_looked(l, found)
    [] l.call = "open"              -> open_looked(l, found)
    [] l.call = "chdir"             -> chdir_looked(l, found)

\* The head of namex's loop.
namex(l) ==
  IF l.rest # <<>> THEN Lock(l, l.cur, "look")
  ELSE IF l.par THEN Put([l EXCEPT !.cur = None], l.cur, "missing")
  ELSE Looked([l EXCEPT !.ip = l.cur, !.cur = None], TRUE)

\* namex(path) from its start: "/" or the current directory.
StartCache(p, c, path) == IF path.abs THEN iget(c, ROOTINO) ELSE idup(c, cwd[p])
Start(p, c, l, path, par, new) ==
  namex([l EXCEPT !.cur = IF path.abs THEN Slot(c, ROOTINO) ELSE cwd[p],
                  !.rest = path.elems, !.par = par, !.new = new])

\* Where a process goes on after iput.
Resume(l) ==
  CASE l.cont = "namex"   -> namex(l)
    [] l.cont = "missing" -> Looked(l, FALSE)
    [] l.cont = "user"    -> Idle
    [] l.cont = "old"     -> Lock(l, l.ip, "create_old")
    [] l.cont = "put_ip"  -> Put([l EXCEPT !.ip = None], l.ip, "commit")
    [] l.cont = "bad"     -> Lock(l, l.ip, "link_bad")
    [] OTHER              -> Goto(l, l.cont)

-----------------------------------------------------------------------------
(* ilock and iput                                                          *)

ilock_sleep(p) ==
  /\ At(p, "ilock") /\ p \notin asleep /\ icache[k[p].arg].busy
  /\ asleep' = asleep \union {p}
  /\ UNCHANGED <<disk, icache, cwd, files, k, panicked>>

\* I_BUSY is clear; the inode is read from the disk unless it is valid.
ilock(p) ==
  LET s == k[p].arg
      d == IF icache[s].valid THEN icache[s] ELSE Dinode(s)
  IN /\ At(p, "ilock") /\ p \notin asleep /\ ~icache[s].busy
     /\ icache' = [icache EXCEPT ![s].busy = TRUE, ![s].valid = TRUE,
                                 ![s].type = d.type, ![s].nlink = d.nlink]
     /\ panicked' = IF d.type = "free" THEN "ilock: no type" ELSE None
     /\ k' = [k EXCEPT ![p] = Goto(@, @.cont)]
     /\ UNCHANGED <<disk, asleep, cwd, files>>

Unlinked(s) == icache[s].ref = 1 /\ icache[s].valid /\ icache[s].nlink = 0

iput(p) ==
  LET s == k[p].arg
  IN /\ At(p, "iput") /\ ~Unlinked(s)
     /\ icache' = [icache EXCEPT ![s].ref = @ - 1]
     /\ k' = [k EXCEPT ![p] = Resume(k[p])]
     /\ UNCHANGED <<disk, asleep, cwd, files, panicked>>

\* The last reference to an inode without links: iput locks it and lets
\* icache.lock go.
iput_last(p) ==
  LET s == k[p].arg
  IN /\ At(p, "iput") /\ Unlinked(s)
     /\ icache' = [icache EXCEPT ![s].busy = TRUE]
     /\ panicked' = IF icache[s].busy THEN "iput busy" ELSE None
     /\ k' = [k EXCEPT ![p].pc = "itrunc"]
     /\ UNCHANGED <<disk, asleep, cwd, files>>

\* itrunc and iupdate free it on the disk.  log_write needs some process to be
\* in a transaction.
iput_free(p) ==
  LET s == k[p].arg
  IN /\ At(p, "itrunc")
     /\ IF tx = None
        THEN /\ panicked' = "write outside of trans"
             /\ UNCHANGED <<view, icache, k>>
        ELSE /\ view' = [view EXCEPT ![icache[s].inum] = Free]
             /\ icache' = [icache EXCEPT ![s].type = "free"]
             /\ k' = [k EXCEPT ![p].pc = "freed"]
             /\ UNCHANGED panicked
     /\ UNCHANGED <<stable, tx, asleep, cwd, files>>

iput_freed_KeepsValid(p) ==
  LET s == k[p].arg
  IN /\ At(p, "freed")
     /\ icache' = [icache EXCEPT ![s].ref = @ - 1, ![s].busy = FALSE]
     /\ asleep' = AfterWakeup(s)
     /\ k' = [k EXCEPT ![p] = Resume(k[p])]
     /\ UNCHANGED <<disk, cwd, files, panicked>>

\* Under icache.lock again: by now ialloc may have given the inode, and with it
\* this entry, to another process.
iput_freed(p) ==
  LET s == k[p].arg
  IN /\ At(p, "freed")
     /\ icache' = [icache EXCEPT ![s].ref = @ - 1, ![s].busy = FALSE, ![s].valid = FALSE]
     /\ asleep' = AfterWakeup(s)
     /\ k' = [k EXCEPT ![p] = Resume(k[p])]
     /\ UNCHANGED <<disk, cwd, files, panicked>>

-----------------------------------------------------------------------------
(* namex, with its inode locked                                            *)

dirlookup(s, n) == Dinode(s).dir[n]

look_missing_NoPut(p) ==
  LET l == k[p]
  IN /\ At(p, "look")
     /\ \/ icache[l.cur].type # "dir"
        \/ ~(l.par /\ Len(l.rest) = 1) /\ dirlookup(l.cur, Head(l.rest)) = 0
     /\ icache' = Unlocked(icache, l.cur)
     /\ asleep' = AfterWakeup(l.cur)
     /\ k' = [k EXCEPT ![p] = Looked([l EXCEPT !.cur = None], FALSE)]
     /\ UNCHANGED <<disk, cwd, files, panicked>>

\* Not a directory, or no such entry.
look_missing(p) ==
  LET l == k[p]
  IN /\ At(p, "look")
     /\ \/ icache[l.cur].type # "dir"
        \/ ~(l.par /\ Len(l.rest) = 1) /\ dirlookup(l.cur, Head(l.rest)) = 0
     /\ iunlockput(p, icache, "cur", "missing")
     /\ UNCHANGED <<disk, cwd, files, panicked>>

\* nameiparent stops one level early.
look_parent(p) ==
  LET l == k[p]
  IN /\ At(p, "look") /\ icache[l.cur].type = "dir"
     /\ l.par /\ Len(l.rest) = 1
     /\ icache' = Unlocked(icache, l.cur)
     /\ asleep' = AfterWakeup(l.cur)
     /\ k' = [k EXCEPT ![p] = Looked([l EXCEPT !.dp = l.cur, !.cur = None,
                                               !.name = Head(l.rest), !.rest = <<>>], TRUE)]
     /\ UNCHANGED <<disk, cwd, files, panicked>>

look_next(p) ==
  LET l == k[p]
      i == dirlookup(l.cur, Head(l.rest))
  IN /\ At(p, "look") /\ icache[l.cur].type = "dir"
     /\ ~(l.par /\ Len(l.rest) = 1) /\ i # 0
     /\ icache' = Unlocked(iget(icache, i), l.cur)
     /\ asleep' = AfterWakeup(l.cur)
     /\ k' = [k EXCEPT ![p] = Put([l EXCEPT !.cur = Slot(icache, i), !.rest = Tail(l.rest)],
                                  l.cur, "namex")]
     /\ UNCHANGED <<disk, cwd, files, panicked>>

-----------------------------------------------------------------------------
(* Transactions and crashes                                                *)

\* What a system call does once it is in its transaction.
begin_trans(p) ==
  LET l == k[p]
  IN /\ At(p, "begin") /\ tx = None
     /\ tx' = p
     /\ IF l.call \in {"creat", "mkdir"}
        THEN /\ icache' = StartCache(p, icache, l.new)
             /\ k' = [k EXCEPT ![p] = Start(p, icache, l, l.new, TRUE, None)]
        ELSE /\ k' = [k EXCEPT ![p] =
                        CASE l.call = "link"   -> Lock(l, l.ip, "link")
                          [] l.call = "unlink" -> Lock(l, l.dp, "unlink_dp")
                          [] OTHER             -> Put([l EXCEPT !.ip = None], l.ip, "commit")]
             /\ UNCHANGED icache
     /\ UNCHANGED <<view, stable, asleep, cwd, files, panicked>>

\* open goes on with the inode that create returned locked, exit with its
\* current directory; the other calls return.
commit_trans(p) ==
  LET l == k[p]
  IN /\ At(p, "commit")
     /\ stable' = view /\ tx' = None
     /\ k' = [k EXCEPT ![p] =
                CASE l.call = "creat" /\ l.ip # None -> [l EXCEPT !.pc = "open"]
                  [] l.call = "exit"                 -> Put(l, cwd[p], "user")
                  [] OTHER                           -> Idle]
     /\ cwd' = IF l.call = "exit" THEN [cwd EXCEPT ![p] = None] ELSE cwd
     /\ UNCHANGED <<view, icache, asleep, files, panicked>>

\* The machine stops and boots again; recovery brings back the last commit.
crash ==
  /\ view' = stable /\ tx' = None
  /\ icache' = BootCache /\ cwd' = BootCwd
  /\ k' = [p \in Proc |-> Idle]
  /\ ftable' = NoFiles /\ ofile' = [p \in Proc |-> None]
  /\ asleep' = {}
  /\ panicked' = None
  /\ UNCHANGED stable

-----------------------------------------------------------------------------
(* System calls                                                            *)

Running(p) == At(p, "user") /\ cwd[p] # None

\* open without O_CREATE, chdir, unlink and link start by looking up a path,
\* unlink that of the directory; link keeps its second path for later.
lookup(p, call, path, new) ==
  /\ Running(p) /\ call \in Calls
  /\ icache' = StartCache(p, icache, path)
  /\ k' = [k EXCEPT ![p] = Start(p, icache, [Idle EXCEPT !.call = call], path, call = "unlink", new)]
  /\ UNCHANGED <<disk, asleep, cwd, files, panicked>>

sys_open(p) == \E path \in Path : lookup(p, "open", path, None)
sys_chdir(p) == \E path \in Path : lookup(p, "chdir", path, None)
sys_unlink(p) == \E path \in Path : lookup(p, "unlink", path, None)
sys_link(p) == \E old, new \in Path : lookup(p, "link", old, new)

\* open with O_CREATE, and mkdir, start with the transaction.
sys_create(p) ==
  /\ Running(p)
  /\ \E call \in {"creat", "mkdir"} \intersect Calls, path \in Path :
       k' = [k EXCEPT ![p] = [Idle EXCEPT !.call = call, !.pc = "begin", !.new = path]]
  /\ UNCHANGED <<disk, icache, asleep, cwd, files, panicked>>

UnusedFiles == {f \in File : ftable[f].ref = 0}

\* The inode is locked: a file structure and a descriptor are allocated.
open_file(p) ==
  LET l == k[p]
  IN /\ At(p, "open") /\ UnusedFiles # {} /\ ofile[p] = None
     /\ ftable' = [ftable EXCEPT ![Min(UnusedFiles)] = [ref |-> 1, ip |-> l.ip]]
     /\ ofile' = [ofile EXCEPT ![p] = Min(UnusedFiles)]
     /\ icache' = Unlocked(icache, l.ip)
     /\ asleep' = AfterWakeup(l.ip)
     /\ k' = [k EXCEPT ![p] = Idle]
     /\ UNCHANGED <<disk, cwd, panicked>>

\* A directory opened for writing, or no file structure, or no descriptor.
open_fail(p) ==
  LET l == k[p]
  IN /\ At(p, "open")
     /\ \/ l.call = "open" /\ icache[l.ip].type = "dir"
        \/ UnusedFiles = {} \/ ofile[p] # None
     /\ iunlockput(p, icache, "ip", "user")
     /\ UNCHANGED <<disk, cwd, files, panicked>>

chdir(p) ==
  LET l == k[p]
      isdir == icache[l.ip].type = "dir"
  IN /\ At(p, "chdir")
     /\ icache' = Unlocked(icache, l.ip)
     /\ asleep' = AfterWakeup(l.ip)
     /\ k' = [k EXCEPT ![p] = Put([l EXCEPT !.ip = None], IF isdir THEN cwd[p] ELSE l.ip, "user")]
     /\ cwd' = IF isdir THEN [cwd EXCEPT ![p] = l.ip] ELSE cwd
     /\ UNCHANGED <<disk, files, panicked>>

\* fileclose: the last reference to a file structure drops the inode, inside a
\* transaction.  exit does the same before it drops the current directory.
fileclose(p, call) ==
  LET f == ofile[p]
      last == ftable[f].ref = 1
  IN /\ Running(p) /\ call \in Calls /\ f # None
     /\ ofile' = [ofile EXCEPT ![p] = None]
     /\ ftable' = [ftable EXCEPT ![f] = [ref |-> @.ref - 1, ip |-> IF last THEN None ELSE @.ip]]
     /\ k' = [k EXCEPT ![p] =
                CASE last           -> [Idle EXCEPT !.call = call, !.pc = "begin", !.ip = ftable[f].ip]
                  [] call = "close" -> Idle
                  [] OTHER          -> Put(Idle, cwd[p], "user")]
     /\ cwd' = IF ~last /\ call = "exit" THEN [cwd EXCEPT ![p] = None] ELSE cwd
     /\ UNCHANGED <<disk, icache, asleep, panicked>>

sys_close(p) == fileclose(p, "close")

exit(p) ==
  \/ fileclose(p, "exit")
  \/ /\ Running(p) /\ "exit" \in Calls /\ ofile[p] = None
     /\ k' = [k EXCEPT ![p] = Put(Idle, cwd[p], "user")]
     /\ cwd' = [cwd EXCEPT ![p] = None]
     /\ UNCHANGED <<disk, icache, asleep, files, panicked>>

\* The child shares the parent's files and directory.
fork(p, np) ==
  /\ Running(p) /\ cwd[np] = None /\ k[np] = Idle
  /\ icache' = idup(icache, cwd[p])
  /\ cwd' = [cwd EXCEPT ![np] = cwd[p]]
  /\ ofile' = [ofile EXCEPT ![np] = ofile[p]]
  /\ ftable' = IF ofile[p] = None THEN ftable ELSE [ftable EXCEPT ![ofile[p]].ref = @ + 1]
  /\ UNCHANGED <<disk, asleep, k, panicked>>

-----------------------------------------------------------------------------
(* create, inside the transaction and with the directory dp locked         *)

\* The name exists: let dp go, then look at the inode.
create_exists(p) ==
  LET l == k[p]
      i == dirlookup(l.dp, l.name)
  IN /\ At(p, "create") /\ i # 0
     /\ icache' = Unlocked(iget(icache, i), l.dp)
     /\ asleep' = AfterWakeup(l.dp)
     /\ k' = [k EXCEPT ![p] = Put([l EXCEPT !.ip = Slot(icache, i), !.dp = None], l.dp, "old")]
     /\ UNCHANGED <<disk, cwd, files, panicked>>

\* Only open accepts it, and only a file; open gets it locked.
create_old(p) ==
  LET l == k[p]
  IN /\ At(p, "create_old")
     /\ IF l.call = "creat" /\ icache[l.ip].type = "file"
        THEN /\ k' = [k EXCEPT ![p].pc = "commit"]
             /\ UNCHANGED <<icache, asleep>>
        ELSE iunlockput(p, icache, "ip", "commit")
     /\ UNCHANGED <<disk, cwd, files, panicked>>

FreeInums == {i \in Inum : view[i].type = "free"}

TypeOf(call) == IF call = "mkdir" THEN "dir" ELSE "file"

\* ialloc takes the first free inode, and does not lock it.
ialloc(p) ==
  LET l == k[p]
      i == Min(FreeInums)
  IN /\ At(p, "create") /\ dirlookup(l.dp, l.name) = 0 /\ FreeInums # {}
     /\ view' = [view EXCEPT ![i] = [Free EXCEPT !.type = TypeOf(l.call)]]
     /\ icache' = iget(icache, i)
     /\ k' = [k EXCEPT ![p] = Lock([l EXCEPT !.ip = Slot(icache, i)], Slot(icache, i), "create_new")]
     /\ UNCHANGED <<stable, tx, asleep, cwd, files, panicked>>

ialloc_panic(p) ==
  /\ At(p, "create") /\ dirlookup(k[p].dp, k[p].name) = 0 /\ FreeInums = {}
  /\ panicked' = "ialloc: no inodes"
  /\ UNCHANGED <<disk, icache, asleep, cwd, files, k>>

\* The new inode is locked too: its link, its dots, the entry in dp.
create_new(p) ==
  LET l == k[p]
      i == icache[l.ip].inum
      d == icache[l.dp].inum
      isdir == l.call = "mkdir"
      nlink == icache[l.dp].nlink + (IF isdir THEN 1 ELSE 0)
  IN /\ At(p, "create_new")
     /\ view' = [view EXCEPT
                   ![i] = [@ EXCEPT !.nlink = 1,
                                    !.dir = IF isdir THEN [@ EXCEPT !["."] = i, ![".."] = d] ELSE @],
                   ![d] = [@ EXCEPT !.nlink = nlink, !.dir = [@ EXCEPT ![l.name] = i]]]
     /\ iunlockput(p, [icache EXCEPT ![l.ip].nlink = 1, ![l.dp].nlink = nlink], "dp",
                   IF isdir THEN "mkdir" ELSE "commit")
     /\ UNCHANGED <<stable, tx, cwd, files, panicked>>

sys_mkdir(p) ==
  /\ At(p, "mkdir")
  /\ iunlockput(p, icache, "ip", "commit")
  /\ UNCHANGED <<disk, cwd, files, panicked>>

-----------------------------------------------------------------------------
(* link, inside the transaction                                            *)

\* ip->nlink = n and iupdate(ip), on the cache and on the disk.
CacheLinks(s, n) == [icache EXCEPT ![s].nlink = n]
DiskLinks_NoUpdate(s, n) == view
DiskLinks(s, n) == [view EXCEPT ![icache[s].inum].nlink = n]

\* The old name's inode is locked; a directory cannot be linked.
link(p) ==
  LET l == k[p]
      cache == Unlocked(CacheLinks(l.ip, icache[l.ip].nlink + 1), l.ip)
  IN /\ At(p, "link")
     /\ IF icache[l.ip].type = "dir"
        THEN /\ iunlockput(p, icache, "ip", "commit")
             /\ UNCHANGED view
        ELSE /\ view' = DiskLinks(l.ip, icache[l.ip].nlink + 1)
             /\ icache' = StartCache(p, cache, l.new)
             /\ asleep' = AfterWakeup(l.ip)
             /\ k' = [k EXCEPT ![p] = Start(p, cache, l, l.new, TRUE, None)]
     /\ UNCHANGED <<stable, tx, cwd, files, panicked>>

\* The new name's directory is locked.
dirlink(p) ==
  LET l == k[p]
      absent == dirlookup(l.dp, l.name) = 0
  IN /\ At(p, "dirlink")
     /\ view' = IF absent
                THEN [view EXCEPT ![icache[l.dp].inum].dir = [@ EXCEPT ![l.name] = icache[l.ip].inum]]
                ELSE view
     /\ iunlockput(p, icache, "dp", IF absent THEN "put_ip" ELSE "bad")
     /\ UNCHANGED <<stable, tx, cwd, files, panicked>>

link_bad(p) ==
  LET l == k[p]
      n == icache[l.ip].nlink - 1
  IN /\ At(p, "link_bad")
     /\ view' = DiskLinks(l.ip, n)
     /\ iunlockput(p, CacheLinks(l.ip, n), "ip", "commit")
     /\ UNCHANGED <<stable, tx, cwd, files, panicked>>

-----------------------------------------------------------------------------
(* unlink, inside the transaction                                          *)

\* The directory is locked.
unlink_lookup(p) ==
  LET l == k[p]
      i == dirlookup(l.dp, l.name)
  IN /\ At(p, "unlink_dp")
     /\ IF l.name \in {".", ".."} \/ i = 0
        THEN iunlockput(p, icache, "dp", "commit")
        ELSE /\ icache' = iget(icache, i)
             /\ k' = [k EXCEPT ![p] = Lock([l EXCEPT !.ip = Slot(icache, i)], Slot(icache, i), "unlink")]
             /\ UNCHANGED asleep
     /\ UNCHANGED <<disk, cwd, files, panicked>>

isdirempty(s) == \A n \in Name : Dinode(s).dir[n] = 0

\* The inode is locked too, but is a directory in use.
unlink_nonempty(p) ==
  LET l == k[p]
  IN /\ At(p, "unlink")
     /\ icache[l.ip].nlink > 0 /\ icache[l.ip].type = "dir" /\ ~isdirempty(l.ip)
     /\ iunlockput(p, icache, "ip", "unlink_bad")
     /\ UNCHANGED <<disk, cwd, files, panicked>>

unlink_bad(p) ==
  /\ At(p, "unlink_bad")
  /\ iunlockput(p, icache, "dp", "commit")
  /\ UNCHANGED <<disk, cwd, files, panicked>>

\* The entry is erased, and with a directory its "..".
unlink(p) ==
  LET l == k[p]
      isdir == icache[l.ip].type = "dir"
      n == IF isdir THEN icache[l.dp].nlink - 1 ELSE icache[l.dp].nlink
  IN /\ At(p, "unlink") /\ (icache[l.ip].nlink < 1 \/ ~isdir \/ isdirempty(l.ip))
     /\ panicked' = IF icache[l.ip].nlink < 1 THEN "unlink: nlink < 1" ELSE None
     /\ view' = [view EXCEPT ![icache[l.dp].inum] =
                   [@ EXCEPT !.nlink = n, !.dir = [@ EXCEPT ![l.name] = 0]]]
     /\ iunlockput(p, CacheLinks(l.dp, n), "dp", "unlinked")
     /\ UNCHANGED <<stable, tx, cwd, files>>

unlinked(p) ==
  LET l == k[p]
      n == icache[l.ip].nlink - 1
  IN /\ At(p, "unlinked")
     /\ view' = DiskLinks(l.ip, n)
     /\ iunlockput(p, CacheLinks(l.ip, n), "ip", "commit")
     /\ UNCHANGED <<stable, tx, cwd, files, panicked>>

-----------------------------------------------------------------------------
Step(p) ==
  \/ ilock_sleep(p) \/ ilock(p) \/ iput(p) \/ iput_last(p) \/ iput_free(p) \/ iput_freed(p)
  \/ look_missing(p) \/ look_parent(p) \/ look_next(p)
  \/ begin_trans(p) \/ commit_trans(p)
  \/ open_file(p) \/ open_fail(p) \/ chdir(p)
  \/ create_exists(p) \/ create_old(p) \/ ialloc(p) \/ ialloc_panic(p) \/ create_new(p) \/ sys_mkdir(p)
  \/ link(p) \/ dirlink(p) \/ link_bad(p)
  \/ unlink_lookup(p) \/ unlink_nonempty(p) \/ unlink_bad(p) \/ unlink(p) \/ unlinked(p)

Call(p) ==
  \/ sys_open(p) \/ sys_chdir(p) \/ sys_unlink(p) \/ sys_link(p) \/ sys_create(p)
  \/ sys_close(p) \/ exit(p)

Next ==
  \/ \E p \in Proc : \/ (Step(p) \/ \E np \in Proc : fork(p, np)) /\ UNCHANGED calls
                     \/ calls < MaxCalls /\ Call(p) /\ calls' = calls + 1
  \/ crash /\ UNCHANGED calls

Spec == Init /\ [][Next]_vars

-----------------------------------------------------------------------------
Pointer == Entry \union {None}
Dinodes == [Inum -> [type : {"free", "dir", "file"}, nlink : Nat, dir : [Elem -> 0 .. NINUM]]]

\* Link and reference counts are never negative, entries name inodes, pointers
\* point into the cache.
TypeOK ==
  /\ view \in Dinodes /\ stable \in Dinodes
  /\ tx \in Proc \union {None} /\ asleep \in SUBSET Proc
  /\ icache \in [Entry -> [inum : 0 .. NINUM, ref : Nat, busy : BOOLEAN, valid : BOOLEAN,
                           type : {"free", "dir", "file"}, nlink : Nat]]
  /\ cwd \in [Proc -> Pointer] /\ ofile \in [Proc -> File \union {None}]
  /\ ftable \in [File -> [ref : Nat, ip : Pointer]]
  /\ \A p \in Proc : {k[p].arg, k[p].cur, k[p].ip, k[p].dp} \subseteq Pointer

\* The pointers to entry s: init's and the processes' current directories, open
\* files, the locals of the calls in progress, and what iput is about to drop.
Pointers(s) ==
  {<<"init", 1>> : c \in {1} \intersect {s}}
  \union {<<"cwd", p>> : p \in {q \in Proc : cwd[q] = s}}
  \union {<<"file", f>> : f \in {g \in File : ftable[g].ip = s}}
  \union {l \in {"cur", "ip", "dp"} \X Proc : k[l[2]][l[1]] = s}
  \union {<<"arg", p>> : p \in {q \in Proc : k[q].pc \in {"iput", "itrunc", "freed"} /\ k[q].arg = s}}

\* ip->ref counts the pointers to the entry exactly (fs.c: "ip->ref tracks the
\* number of in-memory pointers"), whichever way a call returned; and an inode
\* in use has one entry.
RefsMatch ==
  /\ \A s \in Entry : icache[s].ref = Cardinality(Pointers(s))
  /\ \A s, t \in Entry : icache[s].ref > 0 /\ icache[t].ref > 0 /\ s # t
                           => icache[s].inum # icache[t].inum

\* The inodes that the code of p relies on having locked.
Held(p) ==
  LET l == k[p]
      at == IF l.pc \in {"ilock", "iput", "itrunc", "freed"} THEN l.cont ELSE l.pc
      dp == CASE l.pc = "ilock" /\ at \in {"create_new", "unlink"} -> {l.dp}
              [] l.pc \in {"create", "create_new", "dirlink", "unlink_dp", "unlink"} -> {l.dp}
              [] at = "unlink_bad" -> {l.dp}
              [] OTHER -> {}
      ip == CASE l.pc \in {"open", "chdir", "link", "link_bad", "create_old", "create_new", "unlink"} -> {l.ip}
              [] at \in {"mkdir", "unlinked"} \/ (at = "commit" /\ l.call = "creat") -> {l.ip}
              [] OTHER -> {}
      here == CASE l.pc = "look" -> {l.cur}
                [] l.pc \in {"itrunc", "freed"} -> {l.arg}
                [] OTHER -> {}
  IN (dp \union ip \union here) \ {None}

\* I_BUSY is set exactly while one process works on the inode, across commits,
\* sleeps and every early return.
LocksMatch ==
  panicked = None =>
    /\ {s \in Entry : icache[s].busy} = UNION {Held(p) : p \in Proc}
    /\ \A p, q \in Proc : p # q => Held(p) \intersect Held(q) = {}

\* Whenever the machine stops, every name left on the disk leads to an allocated
\* inode whose link count covers it: create, link and unlink are all or nothing.
\* The ".." of a removed directory, to which no name leads, does not count.
NamesAreSafe ==
  LET dirs == {i \in Inum : stable[i].type = "dir"}
      named == {e \in dirs \X Name : stable[e[1]].dir[e[2]] # 0}
      linked == {ROOTINO} \union {stable[e[1]].dir[e[2]] : e \in named}
      links == named \union ((linked \intersect dirs) \X {".."})
  IN \A i \in Inum :
       LET n == Cardinality({e \in links : stable[e[1]].dir[e[2]] = i})
       IN n <= stable[i].nlink /\ (n > 0 => stable[i].type # "free")

\* A valid entry holds what the disk holds, also after the entry was recycled,
\* or its inode freed and allocated again; except for the one iput is freeing.
ValidMatchesDisk ==
  \A s \in Entry :
    icache[s].ref > 0 /\ icache[s].valid /\ ~(\E p \in Proc : k[p].pc = "freed" /\ k[p].arg = s) =>
      icache[s].type = Dinode(s).type /\ icache[s].nlink = Dinode(s).nlink

\* Holding inodes while waiting for inodes or for the log never blocks all
\* processes in the kernel, and iput and unlink find what their checks expect.
KeepsRunning ==
  LET inside == {p \in Proc : k[p].pc # "user"}
  IN /\ panicked \notin {"iput busy", "unlink: nlink < 1"}
     /\ panicked = None /\ inside # {} =>
          \E p \in inside : p \notin asleep /\ (k[p].pc = "begin" => tx = None)

\* Every call that writes the file system does so inside its transaction
\* (log.c: "Each system call that might write the file system should be
\* surrounded with begin_trans() and commit_trans() calls").
WritesInTransaction == panicked # "write outside of trans"
=============================================================================
