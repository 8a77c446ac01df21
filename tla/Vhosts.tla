------------------------------- MODULE Vhosts -------------------------------
(***************************************************************************)
(* The vhost directory.  vhosts_new() opens every web root it finds in the  *)
(* directory and then has inotify report changes; each report makes         *)
(* vhost_add() or vhost_del() bring the table up to date (vhosts.c,         *)
(* nbio-inotify.c, webroot.c).  The administrator changes the directory at  *)
(* any time, so a report may be handled long after other changes: vhost_add *)
(* opens what the name stands for by then.  The table is a map by CritBit;  *)
(* when cb_insert() crashes, or webroot_unref() of an address that is no    *)
(* web root, the behaviour ends.                                            *)
(*                                                                         *)
(* Several reports come in one read; one step handles one of them.  A file   *)
(* is complete when it appears, or is being copied, in which case it may be *)
(* read before it is complete; after that it is not written to.             *)
(***************************************************************************)
EXTENDS Integers, FiniteSets, FiniteSetsExt, Sequences, SequencesExt

CONSTANTS
    Names,      \* file names in the directory
    Default,    \* "__default__", which is one of them
    Versions,   \* web root files webroot_open() accepts
    Others,     \* other directory entries: "junk" files and subdirectories "dir"
    Objs,       \* structs _webroot
    NoObj,      \* the null pointer
    Fails,      \* which of "open", "insert" and "name" may fail for want of
                \* resources
    Conns,      \* connections that may be sending a file
    MaxQueue,   \* max_queued_events: reports the kernel keeps
    MaxChanges  \* bound: changes to the directory

ASSUME NameAssumption == Default \in Names
ASSUME FiniteAssumption == IsFiniteSet(Names) /\ IsFiniteSet(Conns)
ASSUME EntryAssumption ==
    /\ Others \subseteq {"junk", "dir"}
    /\ Versions \cap {"junk", "dir", "none"} = {}
ASSUME ObjAssumption == NoObj \notin Objs
ASSUME ChoiceAssumption ==
    Fails \subseteq {"open", "insert", "name"} /\ {MaxQueue, MaxChanges} \subseteq Nat

Entries == Versions \cup Others \cup {"none"}

VARIABLES
    dir,     \* what each name stands for
    phase,   \* "scan", then "run" once the directory is watched
    todo,    \* names readdir() has not returned yet
    queue,   \* reports not handled yet
    table,   \* the web root of each name; v->vdefault is that of Default
    ref,     \* r_ref of each web root, 0 when it is not open
    file,    \* the file each was opened from
    pins,    \* the web root each connection holds a reference to
    copying, \* names of web root files that are not complete yet
    off,     \* history: by how much the count of each web root is off
    failed,  \* history: names whose last report could not be acted on
    missed,  \* history: names whose last change was not reported
    changes  \* history: how many changes the administrator made

vars == <<dir, phase, todo, queue, table, ref, file, pins, copying, off,
          failed, missed, changes>>
tableVars == <<table, ref, file, off, failed>>
adminVars == <<dir, copying, missed, changes>>

Init ==
    /\ dir \in [Names -> Entries]
    /\ phase = "scan" /\ todo = Names /\ queue = <<>>
    /\ table = [n \in Names |-> NoObj]
    /\ ref = [o \in Objs |-> 0]
    /\ file = [o \in Objs |-> "none"]
    /\ pins = [c \in Conns |-> NoObj]
    /\ copying = {} /\ off = [o \in Objs |-> 0]
    /\ failed = {} /\ missed = {} /\ changes = 0

-----------------------------------------------------------------------------
(* webroot.c *)

Unreffed(o) == IF o = NoObj THEN ref ELSE [ref EXCEPT ![o] = @ - 1]

\* webroot_open() succeeds with o.
Opens(n, o) == dir[n] \in Versions /\ ref[o] = 0

\* webroot_open() finds no such file, or one whose header is not a web root's.
NotARoot(n) == dir[n] \notin Versions

-----------------------------------------------------------------------------
(* vhosts.c *)

\* Mutant: the web root that is replaced is not given back.
StoredOver(n, o) ==
    /\ table' = [table EXCEPT ![n] = o]
    /\ ref' = [ref EXCEPT ![o] = 1]

\* The end of vhost_add(), the same for the default and for the others.
Stored(n, o) ==
    /\ table' = [table EXCEPT ![n] = o]
    /\ ref' = [Unreffed(table[n]) EXCEPT ![o] = 1]

\* Mutant: a name that is there already is left alone.
VhostAddOnce(n) ==
    /\ \/ /\ NotARoot(n) \/ table[n] # NoObj
          /\ UNCHANGED <<table, ref, file>>
       \/ \E o \in Objs :
             /\ Opens(n, o) /\ table[n] = NoObj
             /\ file' = [file EXCEPT ![o] = dir[n]]
             /\ Stored(n, o)
    /\ failed' = failed \ {n}
    /\ UNCHANGED off

\* vhost_add().  webroot_open() may be out of descriptors or memory, or read
\* an index that is not complete; and cb_insert(), which allocates only for a
\* name that is new, may be out of memory: then the web root is forgotten.
VhostAdd(n) ==
    \/ /\ NotARoot(n)
       /\ failed' = failed \ {n}
       /\ UNCHANGED <<table, ref, file, off>>
    \/ /\ ~NotARoot(n) /\ ("open" \in Fails \/ n \in copying)
       /\ failed' = failed \cup {n}
       /\ UNCHANGED <<table, ref, file, off>>
    \/ \E o \in Objs :
          /\ Opens(n, o)
          /\ file' = [file EXCEPT ![o] = dir[n]]
          /\ \/ Stored(n, o) /\ failed' = failed \ {n} /\ UNCHANGED off
             \/ /\ n # Default /\ table[n] = NoObj /\ "insert" \in Fails
                /\ ref' = [ref EXCEPT ![o] = 1]
                /\ off' = [off EXCEPT ![o] = @ + 1]
                /\ failed' = failed \cup {n}
                /\ UNCHANGED table

\* When cb_delete() does not find the name, w is what was on the stack: null,
\* or a web root used before.  It is given back all the same.
StrayUnref ==
    \E w \in {NoObj} \cup {o \in Objs : ref[o] > 0} :
        /\ ref' = Unreffed(w)
        /\ off' = IF w = NoObj THEN off ELSE [off EXCEPT ![w] = @ - 1]

\* vhost_del()
VhostDel(n) ==
    /\ \/ /\ n = Default \/ table[n] # NoObj
          /\ ref' = Unreffed(table[n])
          /\ table' = [table EXCEPT ![n] = NoObj]
          /\ UNCHANGED off
       \/ /\ n # Default /\ table[n] = NoObj
          /\ StrayUnref
          /\ UNCHANGED table
    /\ failed' = failed \ {n}
    /\ UNCHANGED file

\* vhosts_lookup()
Lookup(n) == IF table[n] # NoObj THEN table[n] ELSE table[Default]

-----------------------------------------------------------------------------
(* Start-up and reports. *)

\* One turn of the loop over the directory in vhosts_new().
Scan(n) ==
    /\ phase = "scan" /\ n \in todo
    /\ todo' = todo \ {n}
    /\ \/ dir[n] \in {"none", "dir"} /\ UNCHANGED tableVars
       \/ dir[n] \notin {"none", "dir"} /\ VhostAdd(n)
    /\ UNCHANGED <<phase, queue, pins, adminVars>>

\* nbio_inotify_new() and nbio_inotify_watch_dir()
Watch ==
    /\ phase = "scan" /\ todo = {}
    /\ phase' = "run"
    /\ UNCHANGED <<todo, queue, tableVars, pins, adminVars>>

\* "You can dynamically add and remove websites and/or atomically replace
\* webroots on the fly" (README.md:50-52): no change to the directory has
\* vhost_del() close a web root that the table or a connection still uses.
\* It can: a site that is created and deleted before the first report of it is
\* handled is not in the table when the second is (vhosts.c:82-86).
InUseOpen ==
    /\ \A n \in Names : table[n] # NoObj => ref[table[n]] > 0
    /\ \A c \in Conns : pins[c] # NoObj => ref[pins[c]] > 0

\* What happens once a web root that is in use was closed, and its memory given
\* back, is not followed any further.
Running == phase = "run" /\ InUseOpen

\* The report that reports were dropped, which has no watch descriptor.
Overflow == [mask |-> "IN_Q_OVERFLOW"]

\* ifd_read() has dispatch() handle the next report, for which it needs memory
\* for the name.
Dispatch ==
    /\ Running /\ queue # <<>>
    /\ LET ev == Head(queue) IN
          \/ ev = Overflow /\ UNCHANGED tableVars
          \/ /\ ev # Overflow /\ "name" \in Fails
             /\ failed' = failed \cup {ev.name}
             /\ UNCHANGED <<table, ref, file, off>>
          \/ ev # Overflow /\ ev.isdir /\ UNCHANGED tableVars
          \/ /\ ev # Overflow /\ ~ev.isdir /\ ev.mask \in {"IN_CREATE", "IN_MOVED_TO"}
             /\ VhostAdd(ev.name)
          \/ /\ ev # Overflow /\ ~ev.isdir /\ ev.mask \in {"IN_DELETE", "IN_MOVED_FROM"}
             /\ VhostDel(ev.name)
    /\ queue' = Tail(queue)
    /\ UNCHANGED <<phase, todo, pins, adminVars>>

\* A connection sends a file of the web root it looked up, and is done.
Pin(c, n) ==
    /\ Running /\ pins[c] = NoObj /\ Lookup(n) # NoObj
    /\ pins' = [pins EXCEPT ![c] = Lookup(n)]
    /\ ref' = [ref EXCEPT ![Lookup(n)] = @ + 1]
    /\ UNCHANGED <<phase, todo, queue, table, file, off, failed, adminVars>>

Unpin(c) ==
    /\ Running /\ pins[c] # NoObj
    /\ pins' = [pins EXCEPT ![c] = NoObj]
    /\ ref' = Unreffed(pins[c])
    /\ UNCHANGED <<phase, todo, queue, table, file, off, failed, adminVars>>

-----------------------------------------------------------------------------
(* The administrator, and what inotify reports of it. *)

Report(mask, n, entry) ==
    [mask |-> mask, name |-> n, isdir |-> entry = "dir"]

\* The names reports are about, other than of directories, which are ignored.
NamesIn(reports) == {ev.name : ev \in {e \in ToSet(reports) : ~e.isdir}}

\* The kernel queues as many of the reports as it has room for, and drops the
\* rest.
Notify(reports) ==
    LET room == Max({0, MaxQueue - Len(queue)})
        kept == SubSeq(reports, 1, Min({room, Len(reports)}))
        dropped == SubSeq(reports, Len(kept) + 1, Len(reports))
    IN  /\ queue' = queue \o kept \o
              (IF dropped = <<>> \/ Overflow \in ToSet(queue) THEN <<>> ELSE <<Overflow>>)
        /\ missed' = (missed \ NamesIn(kept)) \cup NamesIn(dropped)

\* The directory becomes d.  Before it is watched nothing is reported, and a
\* change to a name readdir() has returned already is missed.
Change(d, reports) ==
    /\ changes < MaxChanges
    /\ changes' = changes + 1 /\ dir' = d
    /\ \/ Running /\ Notify(reports)
       \/ /\ phase = "scan"
          /\ missed' = missed \cup {n \in Names \ todo : d[n] # dir[n]}
          /\ UNCHANGED queue
    /\ UNCHANGED <<phase, todo, tableVars, pins>>

\* ln -s, mkdir, or cp, whose file is complete only later.  That is not
\* reported: the watch is for neither IN_MODIFY nor IN_CLOSE_WRITE.
Create(n, e) ==
    /\ dir[n] = "none" /\ e # "none"
    /\ Change([dir EXCEPT ![n] = e], <<Report("IN_CREATE", n, e)>>)
    /\ \/ UNCHANGED copying
       \/ e \in Versions /\ copying' = copying \cup {n}

\* mv or ln -sf from elsewhere, which may replace a file
MoveIn(n, e) ==
    /\ e # "none" /\ (dir[n] = "none" \/ "dir" \notin {e, dir[n]})
    /\ Change([dir EXCEPT ![n] = e], <<Report("IN_MOVED_TO", n, e)>>)
    /\ copying' = copying \ {n}

Delete(n) ==
    /\ dir[n] # "none"
    /\ \E mask \in {"IN_DELETE", "IN_MOVED_FROM"} :
          Change([dir EXCEPT ![n] = "none"], <<Report(mask, n, dir[n])>>)
    /\ copying' = copying \ {n}

Rename(n, m) ==
    /\ n # m /\ dir[n] # "none"
    /\ dir[m] = "none" \/ "dir" \notin {dir[n], dir[m]}
    /\ Change([dir EXCEPT ![n] = "none", ![m] = dir[n]],
              <<Report("IN_MOVED_FROM", n, dir[n]),
                Report("IN_MOVED_TO", m, dir[n])>>)
    /\ copying' = (copying \ {n, m}) \cup (IF n \in copying THEN {m} ELSE {})

\* cp is done with the file.
CopyDone(n) ==
    /\ n \in copying /\ copying' = copying \ {n}
    /\ UNCHANGED <<dir, phase, todo, queue, tableVars, pins, missed, changes>>

Admin ==
    \E n \in Names :
        \/ \E e \in Entries : Create(n, e) \/ MoveIn(n, e)
        \/ Delete(n) \/ CopyDone(n)
        \/ \E m \in Names : Rename(n, m)

Server ==
    \/ Watch \/ Dispatch
    \/ \E n \in Names : Scan(n) \/ \E c \in Conns : Pin(c, n)
    \/ \E c \in Conns : Unpin(c)

Next == Server \/ Admin

Spec == Init /\ [][Next]_vars

-----------------------------------------------------------------------------
(* Properties. *)

\* "You can dynamically add and remove websites and/or atomically replace
\* webroots on the fly": once the reports have been handled, each name is
\* served from the very file it stands for and a name that is gone from none,
\* however many changes were made before the first report of them was looked
\* at.  The exceptions, until the name changes again: changes made at start-up
\* between the scan and the watch, changes the kernel dropped the report of,
\* those there were no resources for, and files that were still being copied
\* when their report was handled (their end is never reported).  And nothing is
\* said once a delete of a name that is not in the table has closed a web root
\* that is in use (vhosts.c:82-86).  (A file that is no web root leaves what
\* the name had.)
Converged ==
    Running /\ queue = <<>> =>
        \A n \in Names \ (missed \cup failed) :
            /\ dir[n] \in Versions => table[n] # NoObj /\ file[table[n]] = dir[n]
            /\ dir[n] \in {"none", "dir"} => table[n] = NoObj

\* Reference counts are exact but for two errors, counted in off: the reference
\* vhost_add() forgets when cb_insert() is out of memory, and the one
\* vhost_del() gives back without having it when the name is not in the table.
\* Every other step of the table and of the connections keeps a web root open
\* as long as, and no longer than, they use it: after those errors too, until
\* one has closed a web root that is in use, which is where a behaviour ends.
RefExact ==
    \A o \in Objs :
        ref[o] = Cardinality({n \in Names : table[n] = o})
                 + Cardinality({c \in Conns : pins[c] = o}) + off[o]

=============================================================================
