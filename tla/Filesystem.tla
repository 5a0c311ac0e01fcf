------------------------------ MODULE Filesystem ------------------------------
(* wasi:filesystem (wasi/src/internal/fs_provider.ts) over its two backends:   *)
(* the Origin Private File System (filesystem_web.ts), whose every call is a   *)
(* chain of awaits, and node:fs (filesystem_node.ts), whose calls are          *)
(* synchronous: the same chains with nothing in between, and an atomic rename. *)
(* A file is the sequence of the calls that wrote its cells.                   *)
EXTENDS Naturals, Sequences

CONSTANTS
  Names,   \* entries of the one directory of the preopen
  Calls,   \* calls of the guest, numbered in the order in which they begin
  MaxSize, \* bound on the cells of a file
  None

VARIABLES
  grant,  \* writable; backend; whether entries can move()
  disk,   \* name -> what is there
  ideal,  \* the disk, had every call been one step at the moment it takes effect
  calls,  \* call -> its progress
  past    \* two calls were under way at once; a file was renamed to itself

vars == <<grant, disk, ideal, calls, past>>

Absent == [kind |-> "none", data |-> <<>>]
Directory == [kind |-> "dir", data |-> <<>>]
File(data) == [kind |-> "file", data |-> data]

NoCall == [op |-> "none", at |-> "none", name |-> None, to |-> None, pos |-> 0, snap |-> <<>>,
           ok |-> FALSE, source |-> "none"]

Init ==
  /\ grant \in [writable : BOOLEAN, backend : {"node", "web"}, moves : BOOLEAN]
  /\ grant.backend = "node" => grant.moves
  /\ disk \in [Names -> {Absent, Directory, File(<<>>)}]
  /\ ideal = disk /\ calls = [c \in Calls |-> NoCall] /\ past = [overlap |-> FALSE, self |-> FALSE]

Mutating == {"write", "append", "size", "create", "mkdir", "unlink", "rename", "stream"}
Operations == Mutating \cup {"read"}

UnderWay(c) == calls[c].at \notin {"none", "over"}
Quiet == \A c \in Calls : ~UnderWay(c)
\* A synchronous call has no other beside it; a stream that waits for the guest is not in a call.
Alone(c) == grant.backend = "web" \/ \A d \in Calls \ {c} : UnderWay(d) => calls[d].at = "pull"

\* What a file holds once v is written at p: cells in between are zero.
Put(data, p, v) ==
  [i \in 1..(IF p > Len(data) THEN p ELSE Len(data)) |->
     IF i = p THEN v ELSE IF i <= Len(data) THEN data[i] ELSE None]

Sized(data, n) == [i \in 1..n |-> IF i <= Len(data) THEN data[i] ELSE None]

Goto(c, at) == calls' = [calls EXCEPT ![c].at = at]

\* The guest's stream is dropped when the operation fails, so that its writer does not hang.
Over(c, ok) ==
  calls' = [calls EXCEPT ![c].at = "over", ![c].ok = ok, ![c].snap = <<>>, ![c].pos = 0,
                         ![c].name = None, ![c].to = None, ![c].source = IF @ = "open" /\ ~ok THEN "dropped" ELSE @]

Same == UNCHANGED <<grant, disk, ideal, past>>

-----------------------------------------------------------------------------
(* A call begins: the grant of the package comes first on every mutating leaf. *)
(* Bound: over node no entry is renamed or removed under an open stream, whose *)
(* file descriptor would follow it.                                            *)

Begin(c, op, n, m, p) ==
  /\ calls[c].at = "none" /\ Alone(c) /\ \A d \in Calls : d < c => calls[d].at # "none"
  /\ grant.backend = "node" /\ op \in {"rename", "unlink"} => \A d \in Calls : calls[d].at # "pull"
  /\ calls' = [calls EXCEPT ![c] =
       LET call == [NoCall EXCEPT !.op = op, !.name = n, !.to = m, !.pos = p,
                                  !.source = IF op = "stream" THEN "open" ELSE "none"]
       IN  IF op \in Mutating /\ ~grant.writable
           THEN [NoCall EXCEPT !.op = op, !.at = "over", !.source = IF op = "stream" THEN "dropped" ELSE "none"]
           ELSE [call EXCEPT !.at = IF op \in {"stream", "read"} THEN "pull" ELSE "start"]]
  /\ past' = [overlap |-> past.overlap \/ ~Quiet, self |-> past.self \/ (op = "rename" /\ n = m)]
  /\ UNCHANGED <<grant, disk, ideal>>

(* Positional writes: createWritable copies the file, close puts the copy back. *)

\* append reads the size first.
AppendAt(c) ==
  /\ calls[c].op = "append" /\ calls[c].at = "start" /\ Alone(c)
  /\ IF disk[calls[c].name].kind # "file" THEN Over(c, FALSE)
     ELSE calls' = [calls EXCEPT ![c].pos = Len(disk[calls[c].name].data) + 1, ![c].at = "sized"]
  /\ Same

\* Mutant: the writable starts empty.
OpenedEmpty(c) ==
  /\ \/ calls[c].op \in {"write", "size"} /\ calls[c].at = "start"
     \/ calls[c].at \in {"sized", "chunk"}
  /\ Alone(c)
  /\ IF disk[calls[c].name].kind # "file" \/ calls[c].pos > MaxSize THEN Over(c, FALSE)
     ELSE calls' = [calls EXCEPT ![c].at = "held"]
  /\ Same

Opened(c) ==
  /\ \/ calls[c].op \in {"write", "size"} /\ calls[c].at = "start"
     \/ calls[c].at \in {"sized", "chunk"}
  /\ Alone(c)
  /\ IF disk[calls[c].name].kind # "file" \/ calls[c].pos > MaxSize THEN Over(c, FALSE)
     ELSE calls' = [calls EXCEPT ![c].snap = disk[calls[c].name].data, ![c].at = "held"]
  /\ Same

\* The change the call makes to some contents, and the one it should make.
Change(c, data) ==
  IF calls[c].op = "size" THEN Sized(data, calls[c].pos) ELSE Put(data, calls[c].pos, c)
Intended(c, data) == IF calls[c].op = "append" THEN Put(data, Len(data) + 1, c) ELSE Change(c, data)

Closed(c) ==
  LET n == calls[c].name
  IN  /\ calls[c].at = "held" /\ Alone(c)
      /\ IF disk[n].kind # "file" THEN Over(c, FALSE) /\ UNCHANGED <<disk, ideal>>
         ELSE /\ disk' = [disk EXCEPT ![n] = File(Change(c, calls[c].snap))]
              /\ ideal' = [ideal EXCEPT ![n] = File(Intended(c, ideal[n].data))]
              /\ IF calls[c].op = "stream"
                 THEN calls' = [calls EXCEPT ![c].at = "pull", ![c].pos = @ + 1]
                 ELSE Over(c, TRUE)
      /\ UNCHANGED <<grant, past>>

(* The streams: a chunk of the guest is written at the cursor, or read from it. *)

Chunk(c) ==
  /\ calls[c].op = "stream" /\ calls[c].at = "pull" /\ Alone(c)
  /\ Goto(c, "chunk") /\ past' = [past EXCEPT !.overlap = @ \/ \E d \in Calls \ {c} : UnderWay(d)]
  /\ UNCHANGED <<grant, disk, ideal>>

\* The guest closes its stream, or dies.
SourceEnds(c, ok) ==
  /\ calls[c].op = "stream" /\ calls[c].at = "pull" /\ Over(c, ok) /\ Same

Read(c) ==
  /\ calls[c].op = "read" /\ calls[c].at = "pull" /\ Alone(c)
  /\ CASE disk[calls[c].name].kind # "file" -> Over(c, FALSE)
       [] disk[calls[c].name].kind = "file" /\ calls[c].pos > Len(disk[calls[c].name].data) -> Over(c, TRUE)
       [] OTHER -> calls' = [calls EXCEPT ![c].pos = @ + 1]
  /\ Same

(* Entries: probe, then act.                                                   *)

Probe(c) ==
  LET kind == disk[calls[c].name].kind
  IN  /\ calls[c].op \in {"create", "mkdir", "unlink"} /\ calls[c].at = "start" /\ Alone(c)
      /\ IF kind = (IF calls[c].op = "unlink" THEN "file" ELSE "none")
         THEN Goto(c, "probed") ELSE Over(c, FALSE)
      /\ Same

Makes(c) == CASE calls[c].op = "create" -> File(<<>>) [] calls[c].op = "mkdir" -> Directory [] OTHER -> Absent

\* The platform's create takes an entry of the right kind that has come up meanwhile.
Act(c) ==
  LET n == calls[c].name
      found == disk[n].kind
      fits == IF calls[c].op = "unlink" THEN found # "none" ELSE found \in {"none", Makes(c).kind}
  IN  /\ calls[c].at = "probed" /\ Alone(c) /\ Over(c, fits)
      /\ disk' = IF fits /\ (calls[c].op = "unlink" \/ found = "none")
                 THEN [disk EXCEPT ![n] = Makes(c)] ELSE disk
      /\ ideal' = IF fits THEN [ideal EXCEPT ![n] = Makes(c)] ELSE ideal
      /\ UNCHANGED <<grant, past>>

(* rename: move() where it is there, else copy, then remove.                    *)

Renamed(d, from, to) ==
  IF from = to THEN d ELSE [d EXCEPT ![to] = d[from], ![from] = Absent]

\* The platform moves a file over a file or to a free name, a directory to a free name.
Movable(from, to) ==
  disk[to].kind \in {"none"} \cup (IF disk[from].kind = "file" THEN {"file"} ELSE {}) \/ from = to

Resolve(c) ==
  LET kind == disk[calls[c].name].kind
  IN  /\ calls[c].op = "rename" /\ calls[c].at = "start" /\ Alone(c)
      /\ CASE kind = "none" \/ (kind = "dir" /\ ~grant.moves) -> Over(c, FALSE)
           [] kind # "none" /\ grant.moves -> Goto(c, "move")
           [] OTHER -> Goto(c, "copy")
      /\ Same

Move(c) ==
  LET from == calls[c].name to == calls[c].to
  IN  /\ calls[c].at = "move" /\ Alone(c)
      /\ IF disk[from].kind # "none" /\ Movable(from, to)
         THEN /\ disk' = Renamed(disk, from, to) /\ ideal' = Renamed(ideal, from, to) /\ Over(c, TRUE)
         ELSE Over(c, FALSE) /\ UNCHANGED <<disk, ideal>>
      /\ UNCHANGED <<grant, past>>

Copy(c) ==
  /\ calls[c].at = "copy"
  /\ IF disk[calls[c].name].kind # "file" THEN Over(c, FALSE)
     ELSE calls' = [calls EXCEPT ![c].snap = disk[calls[c].name].data, ![c].at = "fill"]
  /\ Same

\* getFileHandle(create), an empty writable, and its commit.
Fill(c) ==
  LET to == calls[c].to
  IN  /\ calls[c].at = "fill"
      /\ IF disk[to].kind = "dir" THEN Over(c, FALSE) /\ UNCHANGED disk
         ELSE disk' = [disk EXCEPT ![to] = File(calls[c].snap)] /\ Goto(c, "remove")
      /\ UNCHANGED <<grant, ideal, past>>

Remove(c) ==
  LET from == calls[c].name
  IN  /\ calls[c].at = "remove"
      /\ Over(c, disk[from].kind # "none") /\ disk' = [disk EXCEPT ![from] = Absent]
      /\ ideal' = Renamed(ideal, from, calls[c].to)
      /\ UNCHANGED <<grant, past>>

Next == \E c \in Calls :
  \/ \E op \in Operations, n \in Names, m \in Names, p \in 1..MaxSize :
       (op = "rename" \/ n = m) /\ (op \in {"write", "size", "stream", "read"} \/ p = 1) /\ Begin(c, op, n, m, p)
  \/ AppendAt(c) \/ Opened(c) \/ Closed(c) \/ Chunk(c) \/ Read(c) \/ Probe(c) \/ Act(c)
  \/ Resolve(c) \/ Move(c) \/ Copy(c) \/ Fill(c) \/ Remove(c)
  \/ \E ok \in BOOLEAN : SourceEnds(c, ok)

Spec == Init /\ [][Next]_vars

-----------------------------------------------------------------------------
Entry == [kind : {"none", "file", "dir"}, data : Seq(Calls \cup {None})]

TypeOK ==
  /\ grant \in [writable : BOOLEAN, backend : {"node", "web"}, moves : BOOLEAN]
  /\ disk \in [Names -> Entry] /\ ideal \in [Names -> Entry]
  /\ past \in [overlap : BOOLEAN, self : BOOLEAN]
  /\ \A c \in Calls :
       /\ calls[c].op \in Operations \cup {"none"} /\ calls[c].pos \in 0..(MaxSize + 1)
       /\ calls[c].at \in {"none", "start", "sized", "held", "chunk", "pull", "probed", "move",
                           "copy", "fill", "remove", "over"}
       /\ calls[c].source \in {"none", "open", "dropped"}

\* "Every mutating leaf refuses": without the grant the disk never changes.
ReadOnlyUntouched == [][~grant.writable => disk' = disk]_vars

\* Calls that never overlapped leave the disk as if each had been one step, over either
\* backend, but for a file renamed to itself, which the copying rename removes; and over
\* the synchronous backend every history of calls and streams does.
SerialExact ==
  Quiet /\ ~past.overlap /\ ~past.self => disk = ideal

NodeExact == grant.backend = "node" /\ Quiet => disk = ideal

\* "The guest's writer must not hang": a stream write that failed has dropped its stream.
WriterReleased ==
  \A c \in Calls : calls[c].op = "stream" /\ calls[c].at = "over" /\ ~calls[c].ok => calls[c].source # "open"

\* "Durable and simple": a write that was committed stays, whatever other writes, of other
\* cells, are under way.  (No run: the code breaks it.)
WritesLast ==
  (\A c \in Calls : calls[c].op \in {"none", "write"}) =>
    \A n \in Names : disk[n] = ideal[n]
=============================================================================
