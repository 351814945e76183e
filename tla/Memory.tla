------------------------------- MODULE Memory --------------------------------
(***************************************************************************)
(* The notes of one kind that a repository keeps in .le/memory: processes  *)
(* that add and remove notes, each by reading the whole file, changing it  *)
(* and writing it back without a lock, and the export and import of        *)
(* bundles, the only channel between repositories.                         *)
(*                                                                         *)
(* A text is the repository it was first written in and a number.          *)
(***************************************************************************)
EXTENDS Naturals, Sequences, FiniteSets, Functions

CONSTANTS
    Stores,      \* the repositories, each with its notes
    Writers,     \* le memory, le lessons and the tool server's processes
    PerKind,     \* Caps.PerKind
    MaxCommands, \* bound on the commands that change notes
    MaxTime      \* bound on the seconds that pass

VARIABLES
    now,       \* the second
    used,      \* how many such commands there were
    notes,     \* repository -> the notes of its file
    tmp,       \* repository -> the temporary file, <<>> when there is none
    writer,    \* the processes
    bundle,    \* the exported bundle
    acked,     \* repository -> the notes whose Add succeeded, in that order
    removed,   \* repository -> the ids whose Remove succeeded
    overlap,   \* repositories where two writers overlapped
    torn       \* files that hold parts of two versions, and cannot be read

mevars == <<now, used, notes, tmp, writer, bundle, acked, removed, overlap, torn>>

\* A process: the repository, the note it adds and those that follow it, or the id
\* it removes; then what it has read and what it writes.
Process(pc, r, note, rest, del, base, out) ==
    [pc |-> pc, repo |-> r, note |-> note, rest |-> rest, del |-> del, base |-> base, out |-> out]

NoWriter == Process("idle", "none", <<>>, <<>>, <<>>, <<>>, <<>>)

MeInit ==
    /\ now = 0 /\ used = 0
    /\ notes = [r \in Stores |-> <<>>]
    /\ tmp = [r \in Stores |-> <<>>]
    /\ writer = [w \in Writers |-> NoWriter]
    /\ bundle = [from |-> "none", notes |-> <<>>]
    /\ acked = [r \in Stores |-> <<>>]
    /\ removed = [r \in Stores |-> {}]
    /\ overlap = {} /\ torn = {}

To(w, rec) == writer' = [writer EXCEPT ![w] = rec]

\* newID: the second and the length of the file.  Two notes may get one id.
NewID(at, n) == <<at, n + 1>>

\* The notes of a file at some places, sorted by time; notes of one second keep
\* their order.
Sorted(s, places) ==
    LET orders == {p \in Bijection(1 .. Cardinality(places), places) :
                      \A i, j \in 1 .. Cardinality(places) : i < j =>
                          \/ s[p[i]].at < s[p[j]].at
                          \/ s[p[i]].at = s[p[j]].at /\ p[i] < p[j]}
    IN  {[k \in 1 .. Cardinality(places) |-> s[p[k]]] : p \in orders}

\* List: the one way to sort the whole file.
List(r) == Sorted(notes[r], DOMAIN notes[r])

\* The cap: the oldest notes, at the front, are dropped.
Trim(s) == IF Len(s) > PerKind THEN SubSeq(s, Len(s) - PerKind + 1, Len(s)) ELSE s

Ids(s) == {s[k].id : k \in DOMAIN s}

\* Add, as the process sees it: the note that is added and the rest of an import.
\* Import gives every note a new time, and a source that names where it comes from.
Adding(r, note, rest) ==
    Process("read", r, [note EXCEPT !.at = now], rest, <<>>, <<>>, <<>>)

\* A faulty variant: the chain is replaced, not extended.
ImportedAfresh(note, from) ==
    [text |-> note.text, at |-> 0, id |-> <<>>, source |-> <<from>>]

Imported(note, from) ==
    [text |-> note.text, at |-> 0, id |-> <<>>, source |-> <<from>> \o note.source]

-----------------------------------------------------------------------------
\* le memory add, and le_note_add.
AddBegin(w, r) ==
    /\ writer[w].pc = "idle" /\ used < MaxCommands
    /\ used' = used + 1
    /\ To(w, Adding(r, [text |-> <<r, used>>, at |-> 0, id |-> <<>>, source |-> <<"operator">>],
                    <<>>))
    /\ UNCHANGED <<now, notes, tmp, bundle, acked, removed, overlap, torn>>

\* le lessons import, after the person has read the preview and agreed.
ImportBegin(w, r) ==
    /\ writer[w].pc = "idle" /\ bundle.notes # <<>> /\ used < MaxCommands
    /\ used' = used + 1
    /\ To(w, Adding(r, Imported(Head(bundle.notes), bundle.from),
                    [k \in 1 .. Len(bundle.notes) - 1 |->
                        Imported(bundle.notes[k + 1], bundle.from)]))
    /\ UNCHANGED <<now, notes, tmp, bundle, acked, removed, overlap, torn>>

Readable(r) == <<r, "file">> \notin torn

\* The rest of Add up to the write: a file that cannot be read or an id that is
\* taken ends it, and an import with it.
AddRead(w) ==
    LET p == writer[w]
        n(old) == [p.note EXCEPT !.id = NewID(p.note.at, Len(old))]
    IN  /\ p.pc = "read"
        /\ \E old \in List(p.repo) :
              To(w, IF ~Readable(p.repo) \/ n(old).id \in Ids(old) THEN NoWriter
                    ELSE Process("tmp", p.repo, n(old), p.rest, <<>>, notes[p.repo],
                                 Trim(Append(old, n(old)))))
        /\ UNCHANGED <<now, used, notes, tmp, bundle, acked, removed, overlap, torn>>

\* Remove: every note with this id.
RemoveRead(w, r, id) ==
    /\ writer[w].pc = "idle" /\ id \in Ids(notes[r]) /\ Readable(r) /\ used < MaxCommands
    /\ used' = used + 1
    /\ \E out \in Sorted(notes[r], {k \in DOMAIN notes[r] : notes[r][k].id # id}) :
          To(w, Process("tmp", r, <<>>, <<>>, id, notes[r], out))
    /\ UNCHANGED <<now, notes, tmp, bundle, acked, removed, overlap, torn>>

\* write: the temporary file, which has one name for all processes, is opened and
\* emptied,
WriteTmp(w) ==
    LET r == writer[w].repo IN
    /\ writer[w].pc = "tmp"
    /\ tmp' = [tmp EXCEPT ![r] = <<<<>>>>]
    /\ torn' = torn \ {<<r, "tmp">>}
    /\ To(w, [writer[w] EXCEPT !.pc = "fill"])
    /\ UNCHANGED <<now, used, notes, bundle, acked, removed, overlap>>

\* then written, over what another process wrote to it since: of a longer text the
\* end stays.
Torn(r, name, whole) == IF whole THEN torn \ {<<r, name>>} ELSE torn \cup {<<r, name>>}

WriteBody(w, whole) ==
    LET r == writer[w].repo IN
    /\ writer[w].pc = "fill"
    /\ whole \/ tmp[r] # <<<<>>>>
    /\ tmp' = [tmp EXCEPT ![r] = <<writer[w].out>>]
    /\ torn' = Torn(r, "tmp", whole)
    /\ To(w, [writer[w] EXCEPT !.pc = "rename"])
    /\ UNCHANGED <<now, used, notes, bundle, acked, removed, overlap>>

\* The open file is the notes themselves when another process has renamed it, and
\* no file any more when it was replaced in turn.
WriteInPlace(w, whole) ==
    LET r == writer[w].repo IN
    /\ writer[w].pc = "inplace"
    /\ whole \/ notes[r] # <<>>
    /\ notes' = [notes EXCEPT ![r] = writer[w].out]
    /\ torn' = Torn(r, "file", whole)
    /\ overlap' = overlap \cup {r}
    /\ To(w, [writer[w] EXCEPT !.pc = "rename"])
    /\ UNCHANGED <<now, used, tmp, bundle, acked, removed>>

WriteLost(w) ==
    /\ writer[w].pc = "lost"
    /\ To(w, [writer[w] EXCEPT !.pc = "rename"])
    /\ UNCHANGED <<now, used, notes, tmp, bundle, acked, removed, overlap, torn>>

\* What a rename in a repository makes of a file that a process has open.
Follow(p, r) ==
    IF p.repo = r /\ p.pc \in {"fill", "inplace"}
    THEN [p EXCEPT !.pc = IF p.pc = "fill" THEN "inplace" ELSE "lost"]
    ELSE p

\* The rename fails when another process has renamed the file; then the next note
\* of the import.
Rename(w) ==
    LET p == writer[w]
        r == p.repo
        tears == <<r, "tmp">> \in torn
        clean == notes[r] = p.base /\ tmp[r] = <<p.out>> /\ ~tears
        next == IF p.rest = <<>> THEN NoWriter ELSE Adding(r, Head(p.rest), Tail(p.rest))
    IN  /\ p.pc = "rename"
        /\ IF tmp[r] = <<>>
           THEN /\ To(w, NoWriter)
                /\ UNCHANGED <<notes, tmp, acked, removed, overlap, torn>>
           ELSE /\ notes' = [notes EXCEPT ![r] = tmp[r][1]]
                /\ tmp' = [tmp EXCEPT ![r] = <<>>]
                /\ torn' = (torn \ {<<r, "tmp">>, <<r, "file">>}) \cup
                           (IF tears THEN {<<r, "file">>} ELSE {})
                /\ overlap' = IF clean THEN overlap ELSE overlap \cup {r}
                /\ acked' = IF p.del = <<>> THEN [acked EXCEPT ![r] = Append(@, p.note)] ELSE acked
                /\ removed' = IF p.del = <<>> THEN removed ELSE [removed EXCEPT ![r] = @ \cup {p.del}]
                /\ writer' = [v \in Writers |-> IF v = w THEN next ELSE Follow(writer[v], r)]
        /\ UNCHANGED <<now, used, bundle>>

\* A process dies; a temporary file stays.
Dies(w) ==
    /\ writer[w].pc # "idle"
    /\ To(w, NoWriter)
    /\ UNCHANGED <<now, used, notes, tmp, bundle, acked, removed, overlap, torn>>

\* le lessons export.
Export(r) ==
    /\ notes[r] # <<>> /\ Readable(r)
    /\ \E s \in List(r) : bundle' = [from |-> r, notes |-> s]
    /\ UNCHANGED <<now, used, notes, tmp, writer, acked, removed, overlap, torn>>

Tick ==
    /\ now < MaxTime
    /\ now' = now + 1
    /\ UNCHANGED <<used, notes, tmp, writer, bundle, acked, removed, overlap, torn>>

MeNext ==
    \/ \E w \in Writers :
          \/ \E r \in Stores : \/ AddBegin(w, r) \/ ImportBegin(w, r)
                               \/ \E id \in Ids(notes[r]) : RemoveRead(w, r, id)
          \/ AddRead(w) \/ WriteTmp(w) \/ WriteLost(w) \/ Rename(w) \/ Dies(w)
          \/ \E whole \in BOOLEAN : WriteBody(w, whole) \/ WriteInPlace(w, whole)
    \/ \E r \in Stores : Export(r)
    \/ Tick

MeSpec == MeInit /\ [][MeNext]_mevars

-----------------------------------------------------------------------------
\* What a repository remembers, while its file can be read: no two notes of it
\* share an id and the cap is never passed, whatever the writers do; a note whose
\* Add succeeded is there unless its id was removed, as many notes as the cap holds
\* were added after it or bear no older time, or two writers overlapped; and a text
\* from another repository says so, with its first source still last in the chain,
\* however often it was carried about.  A file becomes unreadable only where two
\* writers overlapped.
NotesKept ==
    \A r \in Stores :
        LET f == notes[r] IN
        /\ Readable(r) \/ r \in overlap
        /\ Readable(r) => Cardinality(Ids(f)) = Len(f) /\ Len(f) <= PerKind
        /\ \A i \in DOMAIN acked[r] : LET n == acked[r][i] IN
              ~(Readable(r) /\ \E k \in DOMAIN f : f[k] = n) =>
                  \/ n.id \in removed[r] \/ r \in overlap
                  \/ Cardinality({j \in DOMAIN acked[r] \ {i} :
                                     j > i \/ acked[r][j].at >= n.at}) >= PerKind
        /\ \A k \in DOMAIN f :
              /\ f[k].source[Len(f[k].source)] = "operator"
              /\ f[k].text[1] # r => Len(f[k].source) > 1 /\ f[k].source[1] \in Stores
=============================================================================
