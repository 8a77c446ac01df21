------------------------------- MODULE Mkroot -------------------------------
(***************************************************************************)
(* mkroot: the scan of a directory tree (scan_item() and what it calls),    *)
(* the preparation of index and layout (webroot_prep()), and the writing of *)
(* the web root (webroot_write()) through a buffer, while files of the tree *)
(* are changed and the machine may fail.  An administrator switches the     *)
(* vhost's name to the new file when mkroot says OK, as the README has it.  *)
(* The web root is read back by the code of webroot.c and fsck.c.           *)
(*                                                                         *)
(* A byte of a file is [item, k]: byte k of a header, edge, object, or a    *)
(* character or byte of text.  SHA1 is taken to have no collisions.  The    *)
(* switches indexdirs and dotfiles are as the program sets them: 1 and 0.   *)
(***************************************************************************)
EXTENDS Trie, Fobuf, StrPool

CONSTANTS
    Trees,        \* directory trees: paths, as sequences of names, to entries
    Slash, Dot,   \* characters
    IndexPages,   \* index_pages
    TextHtml,     \* the type of a generated page, as a string
    Mime,         \* what libmagic says of an inode
    Garbage,      \* what readlink()'s buffer may have behind a target, up to a NUL
    Contents,     \* what files hold to begin with, and may come to hold
    BaseLen,      \* strlen(r_base)
    HdrSz, EdgeSz, RedirSz, FileSz,   \* sizes of the structures on disk
    TmpBuf, BUFFER_SIZE, ReadMax,     \* buffer sizes; ReadMax is that of write_file()
    MaxEdits,     \* bound: changes to files
    Faults        \* which of "io" and "power" may fail

ASSUME SizeAssumption ==
    {HdrSz, EdgeSz, RedirSz, FileSz, TmpBuf, BUFFER_SIZE, ReadMax} \subseteq Nat \ {0}
ASSUME TreeAssumption ==
    \A t \in Trees : /\ <<>> \in DOMAIN t /\ t[<<>>].kind = "dir"
                     /\ \A p \in DOMAIN t \ {<<>>} :
                           Front(p) \in DOMAIN t /\ t[Front(p)].kind = "dir"

ASSUME GarbageAssumption == <<>> \in Garbage

VARIABLES
    tree,      \* the directory tree
    content,   \* the bytes of each inode
    edited,    \* history: the inodes changed since mkroot began
    r,         \* struct webroot
    astray,    \* history: the links whose target had no NUL behind it
    stack,     \* the calls of scan_dir() that have not returned
    phase,     \* what mkroot is at
    pend,      \* calls of fobuf_write() to come: what each is to write
    cur,       \* write_file(): the file, and what was read of it so far
    out,       \* the output file
    name       \* which file the vhost's name stands for

vars == <<tree, content, edited, r, astray, stack, phase, pend, cur, out, name>>

Inodes == DOMAIN Mime

NoFile == [n |-> 0, got |-> <<>>]   \* write_file() is not running

-----------------------------------------------------------------------------
(* Bytes. *)

Bytes(item, n) == [k \in 1..n |-> [item |-> item, k |-> k]]
Text(s) == [k \in DOMAIN s |-> [item |-> [t |-> "char", c |-> s[k]], k |-> 1]]

NoDigest == [t |-> "none"]
Sha1(data) == [t |-> "sha1", of |-> data]

-----------------------------------------------------------------------------
(* The lists of struct webroot.  An object is known by its list and place. *)

NoWebroot == [uri |-> <<>>, redirect |-> <<>>, file |-> <<>>, mime |-> <<>>,
              str |-> StrPoolNew, tmp |-> FobufNew(TmpBuf), tmpoff |-> 0,
              trie |-> <<>>]

PathSplice(dir, path) ==
    IF (dir # <<>> /\ Last(dir) = Slash) \/ path[1] = Slash THEN dir \o path
    ELSE dir \o <<Slash>> \o path

WebrootStrdup(w, len) == [w EXCEPT !.str = StrPoolAlloc(@, len + 1)]

WebrootLink(w, u, obj) ==
    [WebrootStrdup(w, Len(u)) EXCEPT !.uri = Append(@, [uri |-> u, obj |-> obj])]

MimeAdd(w, m) ==
    IF m \in ToSet(w.mime) THEN w
    ELSE [WebrootStrdup(w, Len(m)) EXCEPT !.mime = <<m>> \o @]

ObjRedirect(w, path) ==
    [WebrootStrdup(w, Len(path)) EXCEPT !.redirect = Append(@, path)]

\* The place of the object of an inode, the end of the list if there is none.
FileAt(w, ino) ==
    LET i == SelectInSeq(w.file, LAMBDA f : f.ino = ino)
    IN  IF i = 0 THEN Len(w.file) + 1 ELSE i

\* Mutant: a second link to an inode is taken for another file.
ObjFileAlways(w, ino, size) ==
    [w EXCEPT !.file = Append(@, [ino |-> ino, size |-> size, tmp |-> FALSE,
                                  tmpoff |-> 0, mime |-> <<>>, digest |-> NoDigest])]

\* obj_file(): a second link to an inode, or an index page, is the same object,
\* of the size it had when it was first met.
ObjFile(w, ino, size) ==
    IF FileAt(w, ino) <= Len(w.file) THEN w
    ELSE [w EXCEPT !.file = Append(@, [ino |-> ino, size |-> size, tmp |-> FALSE,
                                       tmpoff |-> 0, mime |-> <<>>, digest |-> NoDigest])]

ObjFilePath(w, pathlen, ino) ==
    LET w1 == MimeAdd(WebrootStrdup(ObjFile(w, ino, Len(content[ino])), pathlen), Mime[ino])
    IN  [w1 EXCEPT !.file[FileAt(w, ino)].tmp = FALSE,
                   !.file[FileAt(w, ino)].mime = Mime[ino]]

-----------------------------------------------------------------------------
(* The scan. *)

Hidden(n) == n[1] = Dot
Names(p) == {Last(q) : q \in {q \in DOMAIN tree : q # <<>> /\ Front(q) = p}}
Visible(p) == {n \in Names(p) : ~Hidden(n)}

\* The URI of a path: what scan_dir() splices together on the way down.
UriOf(p) == FoldLeft(PathSplice, <<>>, p)

\* stat(), which follows symbolic links, finds a regular file: its inode.
StatReg(p) ==
    IF p \in DOMAIN tree /\ tree[p].kind \in {"file", "link"} THEN tree[p].ino ELSE 0

\* try_index() of each page in turn: the first that is there.
TryIndex(p) == SelectInSeq(IndexPages, LAMBDA page : StatReg(Append(p, page)) # 0)

\* What index_dir() prints.
Page(p) ==
    <<[item |-> [t |-> "title", of |-> UriOf(p)], k |-> 1]>>
    \o SetToSeq({[item |-> [t |-> "href", of |-> UriOf(Append(p, n))], k |-> 1]
                    : n \in Visible(p)})

\* obj_file_tmpchunks()
ObjFileTmpchunks(w, ino) ==
    LET w1 == MimeAdd(ObjFile(w, ino, 0), TextHtml)
    IN  [w1 EXCEPT !.file[FileAt(w, ino)].tmp = TRUE,
                   !.file[FileAt(w, ino)].tmpoff = w.tmpoff,
                   !.file[FileAt(w, ino)].mime = TextHtml]

\* tc_printf(): the file of temporary chunks is written through a buffer.
TcPrintf(w, b) == [w EXCEPT !.tmp = FobufWrite(@, <<b>>), !.tmpoff = @ + 1]

\* index_dir()
IndexDir(w, p, ino) ==
    LET w1 == FoldLeft(TcPrintf, ObjFileTmpchunks(w, ino), Page(p))
        i == FileAt(w, ino)
    IN  [w1 EXCEPT !.file[i].size = w1.tmpoff - w1.file[i].tmpoff]

\* add_index()
AddIndex(w, p) ==
    LET dpath == PathSplice(UriOf(p), <<Slash>>)
        page == TryIndex(p)
        ino == IF page = 0 THEN tree[p].ino ELSE StatReg(Append(p, IndexPages[page]))
        w1 == IF page = 0 THEN IndexDir(w, p, ino)
              ELSE ObjFilePath(w, BaseLen + Len(dpath) + Len(IndexPages[page]), ino)
    IN  WebrootLink(w1, dpath, [list |-> "file", n |-> FileAt(w, ino)])

\* A directory, up to the call of scan_dir().
Enter(w, p) ==
    LET w1 == AddIndex(w, p)
    IN  IF p = <<>> THEN w1 ELSE ObjRedirect(w1, PathSplice(UriOf(p), <<Slash>>))

Frame(w, p) == [path |-> p, todo |-> Visible(p), redirect |-> Len(Enter(w, p).redirect)]

\* scan_item() of anything but a directory.  What is neither file nor link is
\* passed over.  readlink() does not put a NUL behind the target, so path_splice()
\* goes on into the garbage: the end of a longer target read before, say.
ScanLeaf(w, p, garbage) ==
    LET u == UriOf(p) e == tree[p] IN
    CASE e.kind = "file" ->
            WebrootLink(ObjFilePath(w, BaseLen + Len(u), e.ino), u,
                        [list |-> "file", n |-> FileAt(w, e.ino)])
      [] e.kind = "link" ->
            WebrootLink(ObjRedirect(w, PathSplice(UriOf(Front(p)), e.to \o garbage)), u,
                        [list |-> "redirect", n |-> Len(w.redirect) + 1])
      [] OTHER -> w

outVars == <<pend, cur, out, name>>

\* do_mkroot() up to the first call of scan_dir().
ScanTop ==
    /\ phase = "start"
    /\ r' = Enter(r, <<>>)
    /\ stack' = <<Frame(r, <<>>)>>
    /\ phase' = "scan"
    /\ UNCHANGED <<tree, content, edited, astray, outVars>>

\* One turn of the loop in scan_dir().
ScanItem(n) ==
    /\ phase = "scan" /\ stack # <<>> /\ n \in Last(stack).todo
    /\ LET p == Append(Last(stack).path, n)
           rest == [stack EXCEPT ![Len(stack)].todo = @ \ {n}]
       IN  \/ /\ tree[p].kind = "dir"
              /\ r' = Enter(r, p) /\ stack' = Append(rest, Frame(r, p))
              /\ UNCHANGED astray
           \/ /\ tree[p].kind # "dir"
              /\ \E g \in IF tree[p].kind = "link" THEN Garbage ELSE {<<>>} :
                    /\ r' = ScanLeaf(r, p, g) /\ stack' = rest
                    /\ astray' = IF g = <<>> THEN astray ELSE astray \cup {p}
    /\ UNCHANGED <<tree, content, edited, phase, outVars>>

\* The end of scan_item() for a directory other than the top.
ScanDirEnd(w, f) ==
    IF f.path = <<>> THEN w
    ELSE WebrootLink(w, UriOf(f.path), [list |-> "redirect", n |-> f.redirect])

\* scan_dir() returns.
ScanLeave ==
    /\ phase = "scan" /\ stack # <<>> /\ Last(stack).todo = {}
    /\ r' = ScanDirEnd(r, Last(stack))
    /\ stack' = Front(stack)
    /\ phase' = IF Len(stack) = 1 THEN "prep" ELSE "scan"
    /\ UNCHANGED <<tree, content, edited, astray, outVars>>

-----------------------------------------------------------------------------
(* webroot_prep(): index and layout. *)

\* sort_objects() numbers the redirects before the files.
Oid(w, obj) ==
    IF obj.list = "redirect" THEN obj.n - 1 ELSE Len(w.redirect) + obj.n - 1

Entries(w) ==
    LET s == SortUris(w.uri)
    IN  [i \in DOMAIN s |-> [str |-> s[i].uri, oid |-> Oid(w, s[i].obj)]]

Total(lens) == FoldLeft(+, 0, lens)
Lens(strs) == [i \in DOMAIN strs |-> Len(strs[i])]
Sizes(files) == [i \in DOMAIN files |-> files[i].size]

\* Where the parts of the file begin.
RedirBegin(w) == HdrSz + EdgeSz * Len(w.trie)
FileBegin(w) == RedirBegin(w) + RedirSz * Len(w.redirect)
MimeBegin(w) == FileBegin(w) + FileSz * Len(w.file)
StrBegin(w) == MimeBegin(w) + Total(Lens(w.mime))
FilesBegin(w) == StrBegin(w) + Total(Lens(w.redirect))

\* m_strtab_off, redirect.strtab_off and file.off
MimeOff(w, m) ==
    MimeBegin(w) + Total(Lens(SubSeq(w.mime, 1, SelectInSeq(w.mime, LAMBDA x : x = m) - 1)))
RedirOff(w, i) == StrBegin(w) + Total(Lens(SubSeq(w.redirect, 1, i - 1)))

\* Mutant: a file that has no name of its own takes no room.
FileOffNamed(w, i) ==
    FilesBegin(w) + Total(Sizes(SelectSeq(SubSeq(w.file, 1, i - 1), LAMBDA f : ~f.tmp)))

FileOff(w, i) == FilesBegin(w) + Total(Sizes(SubSeq(w.file, 1, i - 1)))

\* Mutant: the strings of redirects are left out.
OutputSizeShort(w) == MimeBegin(w) + Total(Lens(w.mime)) + Total(Sizes(w.file))

\* webroot_output_size()
OutputSize(w) == FilesBegin(w) + Total(Sizes(w.file))

Prep ==
    /\ phase = "prep"
    /\ r' = [r EXCEPT !.trie = WriteTrie(Entries(r))]
    /\ phase' = "open"
    /\ UNCHANGED <<tree, content, edited, astray, stack, outVars>>

-----------------------------------------------------------------------------
(* webroot_write(): what each call of fobuf_write() is given, in order. *)

Header(w) ==
    Bytes([t |-> "hdr", num_edges |-> Len(w.trie), num_redirect |-> Len(w.redirect),
           num_file |-> Len(w.file), files_begin |-> FilesBegin(w),
           strtab_sz |-> Total(Lens(w.mime)) + Total(Lens(w.redirect))], HdrSz)

TrieEdges(w) ==
    [i \in DOMAIN w.trie |-> Bytes([t |-> "edge"] @@ w.trie[i], EdgeSz)]

RedirectObjs(w) ==
    [i \in DOMAIN w.redirect |->
        Bytes([t |-> "redirect", off |-> RedirOff(w, i), len |-> Len(w.redirect[i])], RedirSz)]

FileObjs(w) ==
    [i \in DOMAIN w.file |-> LET f == w.file[i] IN
        Bytes([t |-> "file", off |-> FileOff(w, i), len |-> f.size,
               type |-> MimeOff(w, f.mime), type_len |-> Len(f.mime),
               digest |-> f.digest], FileSz)]

Strings(strs) == [i \in DOMAIN strs |-> Text(strs[i])]

\* Up to write_redirtab()
Index(w) ==
    <<Header(w)>> \o TrieEdges(w) \o RedirectObjs(w) \o FileObjs(w)
        \o Strings(w.mime) \o Strings(w.redirect)

\* open() of a new file, posix_fallocate() and fobuf_new()
Open ==
    /\ phase = "open"
    /\ out' = FdSeek(FdWrite(FobufNew(BUFFER_SIZE), [i \in 1..OutputSize(r) |-> Zero]), 0)
    /\ pend' = Index(r)
    /\ phase' = "index"
    /\ UNCHANGED <<tree, content, edited, r, astray, stack, cur, name>>

\* node_to_disk() asserts that the edge can count the edges below it, and has
\* room for its bytes.
Overlong(data) ==
    /\ data # <<>> /\ data[1].item.t = "edge"
    /\ data[1].item.num >= MaxFanout \/ Len(data[1].item.str) > RE_EDGE_MAX

\* The next call of fobuf_write() of the index, or of the second round of
\* file objects.
WriteNext ==
    /\ phase \in {"index", "etags"} /\ pend # <<>>
    /\ IF Overlong(Head(pend))
       THEN phase' = "aborted" /\ UNCHANGED <<out, pend>>
       ELSE /\ out' = FobufWrite(out, Head(pend))
            /\ pend' = Tail(pend)
            /\ UNCHANGED phase
    /\ UNCHANGED <<tree, content, edited, r, astray, stack, cur, name>>

\* Mutant: the temporary chunks stay in their buffer.
FlushChunksNot(w) == w

\* The start of write_files()
FlushChunks(w) == [w EXCEPT !.tmp = FobufFlush(@)]

WriteFiles ==
    /\ phase = "index" /\ pend = <<>>
    /\ r' = FlushChunks(r)
    /\ cur' = [n |-> 1, got |-> <<>>]
    /\ phase' = "files"
    /\ UNCHANGED <<tree, content, edited, astray, stack, pend, out, name>>

\* What read() has to offer of a file, from its beginning.
Source(f) ==
    IF f.tmp THEN SubSeq(r.tmp.file, f.tmpoff + 1, Len(r.tmp.file)) ELSE content[f.ino]

\* The next read() of write_file(): never past the size the scan found.
NextRead ==
    LET f == r.file[cur.n]
        end == Min({Len(cur.got) + ReadMax, f.size, Len(Source(f))})
    IN  SubSeq(Source(f), Len(cur.got) + 1, end)

WriteChunk ==
    /\ phase = "files" /\ cur.n <= Len(r.file) /\ NextRead # <<>>
    /\ out' = FobufWrite(out, NextRead)
    /\ cur' = [cur EXCEPT !.got = @ \o NextRead]
    /\ UNCHANGED <<tree, content, edited, r, astray, stack, phase, pend, name>>

\* read() says end of file: the digest is of what was written.  A file that
\* has become shorter is an error; of temporary chunks this is asserted not to
\* happen.
FileDone ==
    /\ phase = "files" /\ cur.n <= Len(r.file) /\ NextRead = <<>>
    /\ LET f == r.file[cur.n] IN
       IF Len(cur.got) = f.size
       THEN /\ r' = [r EXCEPT !.file[cur.n].digest = Sha1(cur.got)]
            /\ cur' = [n |-> cur.n + 1, got |-> <<>>]
            /\ UNCHANGED phase
       ELSE /\ phase' = IF f.tmp THEN "aborted" ELSE "failed"
            /\ UNCHANGED <<r, cur>>
    /\ UNCHANGED <<tree, content, edited, astray, stack, pend, out, name>>

\* write_etags() up to write_file_objs()
SeekBack(o, w) == FdSeek(FobufFlush(o), FileBegin(w))

WriteEtags ==
    /\ phase = "files" /\ cur.n > Len(r.file)
    /\ out' = SeekBack(out, r)
    /\ pend' = FileObjs(r)
    /\ phase' = "etags"
    /\ UNCHANGED <<tree, content, edited, r, astray, stack, cur, name>>

\* Mutant: there is no fsync().
CloseUnsynced(o) == FobufFlush(o)

\* fobuf_close()
Closed(o) == FdSync(FobufFlush(o))

Close ==
    /\ phase = "etags" /\ pend = <<>>
    /\ out' = Closed(out)
    /\ phase' = "ok"
    /\ UNCHANGED <<tree, content, edited, r, astray, stack, pend, cur, name>>

-----------------------------------------------------------------------------
(* Failures, and the world around mkroot. *)

\* Any step of the scan or of the preparation runs out of memory or is
\* refused a file; the output has not been touched.
ScanFails ==
    /\ "io" \in Faults /\ phase \in {"start", "scan", "prep", "open"}
    /\ phase' = "failed"
    /\ UNCHANGED <<tree, content, edited, r, astray, stack, outVars>>

\* A write, having got some way, or an open(), read(), lseek() or fsync()
\* fails: mkroot stops and leaves the file.
WriteFails ==
    /\ "io" \in Faults
    /\ \/ phase \in {"index", "etags"} /\ pend # <<>> /\ out' \in WriteFailed(out, Head(pend))
       \/ /\ phase = "files" /\ cur.n <= Len(r.file) /\ NextRead # <<>>
          /\ out' \in WriteFailed(out, NextRead)
       \/ phase = "files" /\ cur.n > Len(r.file) /\ out' \in FlushFailed(out)
       \/ /\ phase = "etags" /\ pend = <<>>
          /\ out' \in FlushFailed(out) \cup {FobufFlush(out)}
       \/ phase \in {"index", "files", "etags"} /\ out' = out
    /\ phase' = "failed"
    /\ UNCHANGED <<tree, content, edited, r, astray, stack, pend, cur, name>>

Ended == {"ok", "failed", "aborted", "crashed"}

\* Somebody writes to a file of the tree.
Edit(ino, data) ==
    /\ phase \notin Ended /\ Cardinality(edited) < MaxEdits /\ data # content[ino]
    /\ content' = [content EXCEPT ![ino] = data]
    /\ edited' = edited \cup {ino}
    /\ UNCHANGED <<tree, r, astray, stack, phase, outVars>>

\* The administrator has the vhost's name stand for the new file.
Switch ==
    /\ phase = "ok" /\ name = "old"
    /\ name' = "new"
    /\ UNCHANGED <<tree, content, edited, r, astray, stack, phase, pend, cur, out>>

\* The machine fails.  The change of name may be lost too.
PowerFailure ==
    /\ "power" \in Faults /\ phase \in {"index", "files", "etags", "ok"}
    /\ out' \in {[FobufNew(BUFFER_SIZE) EXCEPT !.file = f] : f \in CrashLeaves(out)}
    /\ name' \in {"old", name}
    /\ phase' = "crashed" /\ pend' = <<>> /\ cur' = NoFile
    /\ UNCHANGED <<tree, content, edited, r, astray, stack>>

Init ==
    /\ tree \in Trees
    /\ content \in [Inodes -> Contents] /\ edited = {}
    /\ r = NoWebroot /\ astray = {} /\ stack = <<>> /\ phase = "start"
    /\ pend = <<>> /\ cur = NoFile /\ out = FobufNew(BUFFER_SIZE) /\ name = "old"

Scan == ScanTop \/ ScanLeave \/ \E f \in Range(stack) : \E n \in f.todo : ScanItem(n)
Write == Open \/ WriteNext \/ WriteFiles \/ WriteChunk \/ FileDone \/ WriteEtags \/ Close

Next ==
    \/ Scan \/ Prep \/ Write \/ ScanFails \/ WriteFails
    \/ Switch \/ PowerFailure
    \/ \E ino \in Inodes, data \in Contents : Edit(ino, data)

Spec == Init /\ [][Next]_vars

-----------------------------------------------------------------------------
(* webroot.c and fsck.c: a web root is read back. *)

\* The structure of type t and n bytes at off.  One that is there in part reads
\* as zeroes: the part that comes last has what it is for, the length of a
\* string, the bytes of an edge or the magic number.
ReadItem(f, off, n, t, zero) ==
    IF /\ off + n <= Len(f) /\ f[off + 1].item.t = t
       /\ \A k \in 1..n : f[off + k] = [item |-> f[off + 1].item, k |-> k]
    THEN f[off + 1].item ELSE zero

NoHeader == [t |-> "none"]
NoEdge == [t |-> "edge", oid |-> 0, str |-> <<>>, num |-> 0, idx |-> 0]
NoRedirect == [t |-> "redirect", off |-> 0, len |-> 0]
NoFileObj == [t |-> "file", off |-> 0, len |-> 0, type |-> 0, type_len |-> 0,
              digest |-> NoDigest]

HeaderOf(f) == ReadItem(f, 0, HdrSz, "hdr", NoHeader)

\* Where webroot_open() takes the parts of the index to be.
RedirAt(h) == HdrSz + EdgeSz * h.num_edges
FileAtDisk(h) == RedirAt(h) + RedirSz * h.num_redirect
StrtabAt(h) == FileAtDisk(h) + FileSz * h.num_file

\* webroot_open() and map_webroot()
WebrootOpens(f) ==
    LET h == HeaderOf(f)
    IN  h # NoHeader /\ Len(f) >= h.files_begin
        /\ StrtabAt(h) + h.strtab_sz <= h.files_begin

\* A file object; one half of which is from before the digests were known has
\* all but its digest.
ReadFile(f, off) ==
    LET Object(k) == [f[off + k].item EXCEPT !.digest = NoDigest]
    IN  IF ReadItem(f, off, FileSz, "file", NoFileObj) = NoFileObj
           /\ \A k \in 1..FileSz : /\ off + k <= Len(f)
                                   /\ f[off + k].item.t = "file" /\ f[off + k].k = k
                                   /\ Object(k) = Object(1)
        THEN Object(1)
        ELSE ReadItem(f, off, FileSz, "file", NoFileObj)

TrieOf(f) ==
    [i \in 1..HeaderOf(f).num_edges |->
        ReadItem(f, HdrSz + EdgeSz * (i - 1), EdgeSz, "edge", NoEdge)]

At(f, off, len) == SubSeq(f, off + 1, off + len)

\* webroot_find(), and the bytes httpd sends: a redirect's location, or a file's
\* type, data and ETag.
WebrootFind(f, trie, u) ==
    LET h == HeaderOf(f)
        idx == TrieQuery(trie, 0, 1, u)
        d == ReadItem(f, RedirAt(h) + RedirSz * idx, RedirSz, "redirect", NoRedirect)
        o == ReadFile(f, FileAtDisk(h) + FileSz * (idx - h.num_redirect))
    IN  IF idx = NoOid THEN [t |-> "none"]
        ELSE IF idx < h.num_redirect THEN [t |-> "moved", to |-> At(f, d.off, d.len)]
        ELSE [t |-> "file", type |-> At(f, o.type, o.type_len),
              data |-> At(f, o.off, o.len), etag |-> o.digest]

-----------------------------------------------------------------------------
(* Reference definitions and properties. *)

\* What is to be served of a tree, by URI: a regular file and a redirect to
\* where a link points for each entry that is not hidden; for a directory its
\* index page, or a list of it, and without the final slash a redirect there.
Shown == {p \in DOMAIN tree : \A i \in DOMAIN p : ~Hidden(p[i])}
OfKind(kind) == {p \in Shown : tree[p].kind = kind}

IndexOf(p) ==
    IF TryIndex(p) = 0 THEN [t |-> "page", of |-> p]
    ELSE [t |-> "file", of |-> StatReg(Append(p, IndexPages[TryIndex(p)]))]

Exactly(uri) == [t |-> "moved", of |-> uri, exact |-> TRUE]
Beginning(uri) == [t |-> "moved", of |-> uri, exact |-> FALSE]

\* Where a link leads: an absolute target from the top directory, a relative one
\* from the link's.  Of a link whose target had no NUL behind it only the
\* beginning is known, and nothing of one further down with an absolute target,
\* which mkroot appends to the link's directory.
LinkTo(p) ==
    LET to == tree[p].to
        known == IF to[1] # Slash THEN UriOf(Front(p)) \o <<Slash>> \o to
                 ELSE IF Len(p) = 1 THEN to ELSE <<>>
    IN  IF p \in astray \/ known = <<>> THEN Beginning(known) ELSE Exactly(known)

Site ==
    {[uri |-> UriOf(p), is |-> [t |-> "file", of |-> tree[p].ino]] : p \in OfKind("file")}
    \cup {[uri |-> UriOf(p), is |-> LinkTo(p)] : p \in OfKind("link")}
    \cup {[uri |-> UriOf(p) \o <<Slash>>, is |-> IndexOf(p)] : p \in OfKind("dir")}
    \cup {[uri |-> UriOf(p), is |-> Exactly(UriOf(p) \o <<Slash>>)]
            : p \in OfKind("dir") \ {<<>>}}

Linked == {e.uri : e \in ToSet(r.uri)}

\* Requests that have a URI as prefix, or all of one but its last character.
Neighbours ==
    {Append(u, c) : u \in Linked, c \in {Slash, Dot}}
        \cup {Front(u) : u \in Linked \ {<<Slash>>}}

\* The answer to a request for something of the site is right: location, type
\* and contents are those of the tree, and the ETag is that of the bytes that
\* are sent.  A file that was written to meanwhile has its former length.
Answers(got, is) ==
    CASE is.t = "moved" -> /\ got.t = "moved" /\ IsPrefix(Text(is.of), got.to)
                           /\ is.exact => got.to = Text(is.of)
      [] is.t = "page" -> /\ got.t = "file" /\ got.type = Text(TextHtml)
                          /\ got.data = Page(is.of) /\ got.etag = Sha1(got.data)
      [] OTHER -> /\ got.t = "file" /\ got.type = Text(Mime[is.of])
                  /\ got.etag = Sha1(got.data)
                  /\ is.of \notin edited => got.data = content[is.of]

\* "atomic replacements of entire webroots" (README.md): from the moment mkroot
\* says OK, also when the machine fails, the vhost's name stands for a file
\* that httpd opens and finds the whole tree in and nothing else, each answer
\* complete and with the ETag of its own bytes, even if files were written to
\* during the scan.  The exceptions are the locations of links: one may go on
\* into garbage if readlink()'s buffer had no NUL behind the target, and one with
\* an absolute target leads astray unless the link is in the top directory.
ServedWhole ==
    name = "new" =>
        /\ WebrootOpens(out.file)
        /\ LET trie == TrieOf(out.file)
           IN  /\ \A s \in Site : Answers(WebrootFind(out.file, trie, s.uri), s.is)
               /\ \A u \in Neighbours \ {s.uri : s \in Site} :
                     WebrootFind(out.file, trie, u).t = "none"

\* got is the beginning of want as far as it has been written.
Fits(got, want) ==
    Len(got) <= Len(want) /\ \A i \in DOMAIN got : got[i] \in {Zero, want[i]}

\* The same of the location of a redirect, as far as Site knows it.
FitsLocation(got, is) ==
    LET known == Min({Len(got), Len(is.of)})
    IN  Fits(IF is.exact THEN got ELSE SubSeq(got, 1, known), Text(is.of))

\* A server that opens the file while mkroot writes it, or after mkroot gave
\* up on it, may find nothing, or an object of which bytes are still missing,
\* but never the bytes of another object or of the index.  (What a link's
\* location has behind a target without a NUL was in no object's place, but on
\* mkroot's stack; it may be anything.)
NoWrongObject ==
    phase # "crashed" /\ WebrootOpens(out.file) =>
        LET trie == TrieOf(out.file) IN
        /\ \A s \in Site :
              LET got == WebrootFind(out.file, trie, s.uri) is == s.is IN
              CASE got.t = "none" -> TRUE
                [] is.t = "moved" -> got.t = "moved" /\ FitsLocation(got.to, is)
                [] is.t = "page" -> /\ got.t = "file" /\ Fits(got.type, Text(TextHtml))
                                    /\ Fits(got.data, Page(is.of))
                [] OTHER -> /\ got.t = "file" /\ Fits(got.type, Text(Mime[is.of]))
                            /\ is.of \notin edited => Fits(got.data, content[is.of])
        /\ \A u \in Neighbours \ {s.uri : s \in Site} :
              WebrootFind(out.file, trie, u).t = "none"

\* What the object of a link is taken to be.
IsRecorded(obj, is) ==
    IF obj.list = "redirect"
    THEN LET location == r.redirect[obj.n]
         IN  /\ is.t = "moved" /\ IsPrefix(is.of, location)
             /\ is.exact => location = is.of
    ELSE LET f == r.file[obj.n]
         IN  is = IF f.tmp THEN [t |-> "page", of |-> CHOOSE p \in OfKind("dir") : tree[p].ino = f.ino]
                  ELSE [t |-> "file", of |-> f.ino]

\* The scan links every URI of the site once and nothing else, to an object that
\* is what the tree has there, and keeps one object for an inode however many
\* links and directories lead to it.  The locations of links are excepted as in
\* ServedWhole.
ScanExact ==
    phase = "prep" =>
        /\ Cardinality(Linked) = Len(r.uri) /\ Linked = {s.uri : s \in Site}
        /\ \A e \in ToSet(r.uri), s \in Site : e.uri = s.uri => IsRecorded(e.obj, s.is)
        /\ \A i, j \in DOMAIN r.file : r.file[i].ino = r.file[j].ino => i = j

\* Whatever URIs a web root has, none of them long, trie_query() finds each of
\* them as the object it was linked to, and finds nothing for any other URI:
\* the trie that do_radix() builds, its layout and the binary search fit
\* together.
FindExact ==
    phase = "open" /\ (\A u \in Linked : Len(u) < LongUri) =>
        /\ \A e \in ToSet(r.uri) : TrieQuery(r.trie, 0, 1, e.uri) = Oid(r, e.obj)
        /\ \A u \in Neighbours \ Linked : TrieQuery(r.trie, 0, 1, u) = NoOid

\* fsckroot lists just the URIs of the web root, with their objects, and its
\* histogram has a place for every edge if there is more than the top
\* directory in it.
FsckExact ==
    phase = "open" =>
        /\ DoDeets(r.trie, 0, 1, <<>>) = {[uri |-> e.uri, oid |-> Oid(r, e.obj)] : e \in ToSet(r.uri)}
        /\ Len(r.uri) > 1 =>
              \A i \in DOMAIN r.trie : Len(r.trie[i].str) < DoDump(r.trie, 0, 1)

\* The assertions of node_to_disk() and write_file() fail only for a web root
\* with a URI that do_radix() takes for long: otherwise every edge has room for
\* its bytes, and all temporary chunks have left the buffer they were printed
\* through by the time they are copied.
AssertionsHold == phase = "aborted" => \E u \in Linked : Len(u) >= LongUri

\* Every write stays within what posix_fallocate() reserved, and at the end all
\* of it has been written.
FitsAllocation ==
    phase \in {"index", "files", "etags", "ok"} =>
        /\ Len(out.file) = OutputSize(r)
        /\ phase = "ok" => \A i \in DOMAIN out.file : out.file[i] # Zero

\* The strings mkroot keeps (URIs, paths, types, locations) never overlap.
StringsDisjoint == Disjoint(r.str)

=============================================================================
