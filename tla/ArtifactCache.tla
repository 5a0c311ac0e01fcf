--------------------------- MODULE ArtifactCache ---------------------------
(* The artifact cache: translateCached over a directory or over the Cache API. *)
(* One key; what is stored under it are the translation's files, a meta file,  *)
(* a plan and its adapters.  Several callers share the storage.  The directory *)
(* backend writes a scratch directory and renames it, and removes directories  *)
(* file by file; the process of a caller may crash, and any operation of the   *)
(* file system may fail.                                                       *)
EXTENDS Integers, FiniteSets

CONSTANTS
  Callers,
  Adapters,    \* the adapter files of the plan
  MaxFailures, \* bound on failing operations and crashes
  Nothing

Files == {"meta", "plan"} \cup Adapters

VARIABLES
  backend,  \* "dir" or "web"
  writable, \* whether the root can be written
  entry,    \* the files under the key: function from those there to their contents, or Nothing
  scratch,  \* per caller: its scratch directory
  at,       \* per caller: where it is
  left,     \* per caller: files still to be read, written or removed
  got,      \* per caller: what it has read
  result,   \* per caller: what translateCached returned
  failures

vars == <<backend, writable, entry, scratch, at, left, got, result, failures>>

\* Contents: whole, torn (not all of it written), or of an older layout.
Whole == [f \in Files |-> "whole"]
NoFiles == [f \in {} |-> "whole"]
Without(d, f) == [g \in DOMAIN d \ {f} |-> d[g]]
Held == IF entry = Nothing THEN {} ELSE DOMAIN entry
With(d, f, x) == [g \in DOMAIN d \cup {f} |-> IF g = f THEN x ELSE d[g]]

Go(c, where, files) ==
  /\ at' = [at EXCEPT ![c] = where]
  /\ left' = [left EXCEPT ![c] = files]

MayFail == failures < MaxFailures
Fail == MayFail /\ failures' = failures + 1

-----------------------------------------------------------------------------
(* get.  A miss, for whatever reason, goes on to translate.                    *)

Miss(c) == Go(c, "translate", {})
Evicting(c) == Go(c, "evict", Held)

DirGet(c) ==
  /\ backend = "dir" /\ at[c] = "start"
  /\ IF entry = Nothing THEN Miss(c) /\ UNCHANGED got
     ELSE Go(c, "read meta", {}) /\ got' = [got EXCEPT ![c] = NoFiles]
  /\ UNCHANGED <<backend, writable, entry, scratch, result, failures>>

\* match and json: the body of the response is one value.
WebGet(c) ==
  /\ backend = "web" /\ at[c] = "start"
  /\ CASE entry = Nothing -> Miss(c) /\ UNCHANGED got
       [] entry # Nothing /\ entry["meta"] = "whole" -> Go(c, "hit", {}) /\ got' = [got EXCEPT ![c] = entry]
       [] OTHER -> Evicting(c) /\ UNCHANGED got
  /\ UNCHANGED <<backend, writable, entry, scratch, result, failures>>

There(f) == f \in Held

\* A read that fails or does not parse evicts; the adapters do not have to parse.
Parses(f) == entry[f] = "whole" \/ (f \in Adapters /\ entry[f] = "torn")

ReadFile(c, f, where, files) ==
  /\ \/ /\ There(f) /\ Parses(f)
        /\ got' = [got EXCEPT ![c] = With(@, f, entry[f])]
        /\ Go(c, where, files) /\ UNCHANGED failures
     \/ /\ There(f) /\ ~Parses(f) /\ Evicting(c) /\ UNCHANGED <<got, failures>>
     \/ /\ IF There(f) THEN Fail ELSE UNCHANGED failures
        /\ Evicting(c) /\ UNCHANGED got
  /\ UNCHANGED <<backend, writable, entry, scratch, result>>

Read(c) ==
  \/ at[c] = "read meta" /\ ReadFile(c, "meta", "read plan", {})
  \/ at[c] = "read plan" /\ ReadFile(c, "plan", IF Adapters = {} THEN "hit" ELSE "read adapters", Adapters)
  \/ /\ at[c] = "read adapters"
     /\ \E f \in left[c] : ReadFile(c, f, IF left[c] = {f} THEN "hit" ELSE "read adapters", left[c] \ {f})

Hit(c) ==
  /\ at[c] = "hit"
  /\ Go(c, "over", {})
  /\ result' = [result EXCEPT ![c] = got[c]]
  /\ UNCHANGED <<backend, writable, entry, scratch, got, failures>>

-----------------------------------------------------------------------------
(* The recursive removal of a directory takes file by file what it listed, then *)
(* the directory, which must be empty by then.                                 *)

Gone(c, done, failed) ==
  \/ /\ left[c] # {} /\ writable
     /\ \E f \in left[c] :
          /\ entry' = IF There(f) THEN Without(entry, f) ELSE entry
          /\ left' = [left EXCEPT ![c] = @ \ {f}]
     /\ UNCHANGED <<at, failures>>
  \/ /\ left[c] = {} /\ writable /\ Held = {}
     /\ entry' = Nothing /\ Go(c, done, {}) /\ UNCHANGED failures
  \/ /\ IF ~writable \/ (left[c] = {} /\ Held # {}) THEN UNCHANGED failures ELSE Fail
     /\ Go(c, failed, {}) /\ UNCHANGED entry

\* tryEvict swallows the failure.
DirEvict(c) ==
  /\ backend = "dir" /\ at[c] = "evict" /\ Gone(c, "translate", "translate")
  /\ UNCHANGED <<backend, writable, scratch, got, result>>

WebEvict(c) ==
  /\ backend = "web" /\ at[c] = "evict" /\ entry' = Nothing /\ Miss(c)
  /\ UNCHANGED <<backend, writable, scratch, got, result, failures>>

-----------------------------------------------------------------------------
(* put. *)

WebPut(c) ==
  /\ backend = "web" /\ at[c] = "translate" /\ entry' = Whole /\ Go(c, "stored", {})
  /\ UNCHANGED <<backend, writable, scratch, got, result, failures>>

MakeScratch(c) ==
  /\ backend = "dir" /\ at[c] = "translate"
  /\ \/ /\ writable /\ scratch' = [scratch EXCEPT ![c] = NoFiles]
        /\ Go(c, "write", Files) /\ UNCHANGED failures
     \/ /\ IF writable THEN Fail ELSE UNCHANGED failures
        /\ Go(c, "stored", {}) /\ UNCHANGED scratch
  /\ UNCHANGED <<backend, writable, entry, got, result>>

\* Mutant: the last file need not be written to its end.
WrittenNearly(c) == DOMAIN scratch[c] = Files

\* put goes on when all is written.
Written(c) == left[c] = {}

\* A file is torn until all of it is written.  An operation that fails leaves the
\* scratch directory to be removed.
Write(c) ==
  /\ at[c] = "write"
  /\ \/ /\ \E f \in left[c] :
             IF f \in DOMAIN scratch[c]
             THEN /\ scratch' = [scratch EXCEPT ![c][f] = "whole"]
                  /\ left' = [left EXCEPT ![c] = @ \ {f}] /\ UNCHANGED at
             ELSE /\ \A g \in DOMAIN scratch[c] : scratch[c][g] = "whole"
                  /\ scratch' = [scratch EXCEPT ![c] = With(@, f, "torn")] /\ UNCHANGED <<at, left>>
        /\ UNCHANGED failures
     \/ Written(c) /\ Go(c, "clear", Held) /\ UNCHANGED <<scratch, failures>>
     \/ Fail /\ Go(c, "clean", {}) /\ UNCHANGED scratch
  /\ UNCHANGED <<backend, writable, entry, got, result>>

Clear(c) ==
  /\ at[c] = "clear" /\ Gone(c, "rename", "clean")
  /\ UNCHANGED <<backend, writable, scratch, got, result>>

\* A directory is not renamed over one that holds files.
MayRename(c) == Held = {}

Rename(c) ==
  /\ at[c] = "rename"
  /\ IF MayRename(c)
     THEN entry' = scratch[c] /\ scratch' = [scratch EXCEPT ![c] = Nothing] /\ Go(c, "stored", {})
     ELSE Go(c, "clean", {}) /\ UNCHANGED <<entry, scratch>>
  /\ UNCHANGED <<backend, writable, got, result, failures>>

\* The removal of the scratch directory may fail too, and leaves it then.
Clean(c) ==
  /\ at[c] = "clean" /\ Go(c, "stored", {})
  /\ \/ scratch' = [scratch EXCEPT ![c] = Nothing] /\ UNCHANGED failures
     \/ Fail /\ UNCHANGED scratch
  /\ UNCHANGED <<backend, writable, entry, got, result>>

\* put's failure is swallowed: the translation is what translateCached returns.
Stored(c) ==
  /\ at[c] = "stored" /\ Go(c, "over", {})
  /\ result' = [result EXCEPT ![c] = Whole]
  /\ UNCHANGED <<backend, writable, entry, scratch, got, failures>>

\* The process ends and another calls again.
Crash(c) ==
  /\ at[c] \notin {"start", "over"} /\ Fail
  /\ Go(c, "start", {}) /\ got' = [got EXCEPT ![c] = NoFiles]
  /\ scratch' = [scratch EXCEPT ![c] = Nothing]
  /\ UNCHANGED <<backend, writable, entry, result>>

-----------------------------------------------------------------------------

\* What earlier builds may have left: nothing, an entry of an older layout, or a
\* whole one.
Init ==
  /\ backend \in {"dir", "web"} /\ writable \in BOOLEAN /\ (backend = "web" => writable)
  /\ entry \in {Nothing, Whole, [f \in Files |-> "old"]}
  /\ scratch = [c \in Callers |-> Nothing]
  /\ at = [c \in Callers |-> "start"]
  /\ left = [c \in Callers |-> {}]
  /\ got = [c \in Callers |-> NoFiles]
  /\ result = [c \in Callers |-> Nothing]
  /\ failures = 0

Step(c) ==
  \/ DirGet(c) \/ WebGet(c) \/ Read(c) \/ Hit(c) \/ DirEvict(c) \/ WebEvict(c) \/ WebPut(c) \/ MakeScratch(c)
  \/ Write(c) \/ Clear(c)
  \/ Rename(c) \/ Clean(c) \/ Stored(c)

Next == \E c \in Callers : Step(c) \/ Crash(c)

Spec == Init /\ [][Next]_vars

\* Whatever happens to the storage, to other callers and in between, what translateCached
\* returns is the whole translation.
ResultWhole == \A c \in Callers : at[c] = "over" => result[c] = Whole

\* Whatever fails, a caller can go on until it has its result.
NeverRefused == \A c \in Callers : at[c] = "over" \/ ENABLED Step(c)

\* What is stored under the key was written before it appeared there: no file of it is torn.
NeverTorn == \A f \in Held : entry[f] # "torn"

\* When no caller is at work, nothing has failed and the root can be written, nothing is left
\* beside the entry, which is whole.  (Two that replace in a directory what a third has just
\* stored may leave a part of it, which the next get evicts.)
Warm ==
  failures = 0 /\ writable /\ (\A c \in Callers : at[c] = "over") =>
    /\ \A c \in Callers : scratch[c] = Nothing
    /\ Cardinality(Callers) \in 1..(IF backend = "dir" THEN 2 ELSE Cardinality(Callers)) => entry = Whole
=============================================================================
