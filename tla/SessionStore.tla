---------------------------- MODULE SessionStore ----------------------------
(***************************************************************************)
(* The file of the session store from the start of the process to the      *)
(* first session, src/src/session-store.ts: what load makes of it, what    *)
(* may be written, and migrateLegacySessions, the one-time cutover of a    *)
(* store that knew sessions by their ids only.  Every step may fail, or    *)
(* the process may die after it and start again.                           *)
(*                                                                         *)
(* A record says only what a check tells apart; a field that is malformed  *)
(* in any way is not "sound".                                              *)
(***************************************************************************)
EXTENDS TranscriptBinding, FiniteSets

CONSTANTS
  Chats,        \* chat ids (transport lanes)
  Transcripts,  \* transcript ids (bound)
  None          \* no startup, session or transcript

VARIABLES
  boot,    \* "off", "migrating", "backing", "replacing", "up"
  file,    \* the store on disk: "absent", "legacy" or "current"
  backup,  \* the copy of a legacy store: "none", "torn" or "exact"
  store    \* the entries: chat -> transcript and pending notice

NoEntry == [id |-> None, notice |-> FALSE]

\* A legacy entry that could not be bound: its next session is a replacement.
Unresolved == [id |-> None, notice |-> TRUE]

-----------------------------------------------------------------------------
(* Records and files. *)

States == [binding : {"bound", "unresolved", "other"}, sound : BOOLEAN, extra : BOOLEAN,
           key : BOOLEAN, jsonl : BOOLEAN,
           notice : {"none", "sound", "malformed"}, replaces : Ids, failure : BOOLEAN]

\* parseSessionState: the key is the chat's own, and a pending notice
\* announces this very session.
Parses(s) ==
  /\ s.sound /\ s.key /\ ~s.extra
  /\ \/ s.binding = "bound" /\ s.jsonl
          /\ (s.notice = "none" \/ (s.notice = "sound" /\ s.replaces = "this"))
     \/ s.binding = "unresolved" /\ s.notice = "none" /\ s.failure

Paths == [kind : {"absent", "file", "link"}, mine : BOOLEAN, mode : {"0600", "0644"}]

\* assertPrivateRegularFile
PrivateFile(p) == p.kind = "file" /\ p.mine /\ p.mode = "0600"

\* verifyPrivateStoreDir, ensurePrivateStoreDir
PrivateDir(d, repair) == DirVerdict(d, repair) = "private"

Stores == [path : Paths, dir : Dirs, big : BOOLEAN, text : {"json", "other"},
           shape : {"versioned", "legacy", "other"}, version : BOOLEAN,
           parse : SUBSET BOOLEAN]

\* What load makes of a file; parse: whether each of its records does.
LoadedAs(f) ==
  CASE f.path.kind = "absent" -> "absent"
    [] /\ PrivateFile(f.path) /\ ~f.big /\ PrivateDir(f.dir, FALSE)
       /\ f.text = "json" /\ FALSE \notin f.parse
       /\ (f.shape = "legacy" \/ (f.shape = "versioned" /\ f.version)) ->
         IF f.shape = "legacy" THEN "legacy" ELSE "current"
    [] OTHER -> "refused"

\* writeData replaces nothing it would not own, and no record it could not
\* read again.
MayWrite(f) ==
  /\ f.path.kind = "absent" \/ PrivateFile(f.path)
  /\ PrivateDir(f.dir, TRUE)
  /\ FALSE \notin f.parse

\* The file it leaves. Bound: one within the size that load accepts.
Written(f) ==
  [path |-> [kind |-> "file", mine |-> TRUE, mode |-> "0600"],
   dir |-> [kind |-> "dir", mine |-> TRUE, mode |-> "0700"],
   big |-> FALSE, text |-> "json", shape |-> "versioned", version |-> TRUE,
   parse |-> f.parse]

Unreadable == {f \in Stores : MayWrite(f) /\ LoadedAs(Written(f)) # "current"}

-----------------------------------------------------------------------------
(* What the cutover makes of one legacy entry. *)

\* An entry of the agent's session directory: the id its name contains, and
\* the file. They are read in one pass.
Entries ==
  [name : Ids, file : {f \in Files : /\ f.place = "direct" /\ f.suffix /\ f.kind # "absent"
                                     /\ f.mode = "0600"}]
Evidence == {{}} \union {{p[1], p[2]} : p \in Entries \X Entries}

Valid(e) == Inspect([kind |-> "dir", mine |-> TRUE, mode |-> "0700"], e.file, Nobody) = "valid"
Shown(e) == Observed([kind |-> "dir", mine |-> TRUE, mode |-> "0700"], e.file)

Matches(E) == {e \in E : Valid(e) /\ e.file.id = "this"}

\* Mutant: a file that cannot be read says nothing.
ShownConflicts(E) == {e \in E : ~Valid(e) /\ Shown(e) = "this"}

\* Entries that are not valid but carry the id, inside or in their name.
Conflicts(E) == {e \in E : ~Valid(e) /\ (Shown(e) = "this" \/ e.name = "this")}

\* agent: "gone" from the configuration, without a directory that can be
\* listed ("unlisted"), or neither.
Cutover(agent, E) ==
  CASE agent = "gone"     -> "agent-unavailable"
    [] agent = "unlisted" -> "unsafe"
    [] agent = "known" /\ Cardinality(Matches(E)) > 1 -> "ambiguous"
    [] agent = "known" /\ Cardinality(Matches(E)) = 1 ->
         IF Conflicts(E) = {} THEN "bound" ELSE "conflicting"
    [] agent = "known" /\ Matches(E) = {} ->
         IF Conflicts(E) = {} THEN "missing" ELSE "conflicting"

Results == {Cutover(p[1], p[2]) : p \in {"gone", "unlisted", "known"} \X Evidence}

\* The reference: bound although two files could be meant, or none is fit.
Claims(e) == e.file.id = "this" /\ e.file.header # "none" /\ e.file.kind = "file" /\ e.file.mine
Misbound ==
  {E \in Evidence :
     /\ Cutover("known", E) = "bound"
     /\ \/ Cardinality({e \in E : Claims(e)}) # 1
        \/ \E e \in E : e.name = "this" /\ e.file \in Foreign /\ e.file.id # "other"}

-----------------------------------------------------------------------------
(* From the start of the process to the store in use. *)

stored == <<boot, file, backup>>

InitStore ==
  /\ boot = "off" /\ file \in {"absent", "legacy", "current"}
  /\ backup = "none" /\ store = [c \in Chats |-> NoEntry]

Bound(t, notice) == [id |-> t, notice |-> notice]
DistinctIds(S) == \A c, d \in Chats : S[c].id = S[d].id => c = d \/ S[c].id = None

\* The store of an earlier process: a transcript belongs to one chat.
Load ==
  /\ boot = "off"
  /\ CASE file = "absent"  -> boot' = "up" /\ UNCHANGED store
       [] file = "legacy"  -> boot' = "migrating" /\ UNCHANGED store
       [] file = "current" ->
            /\ boot' = "up"
            /\ store' \in [Chats -> {NoEntry, Unresolved}
                                      \union {Bound(t, n) : t \in Transcripts, n \in BOOLEAN}]
            /\ DistinctIds(store')
  /\ UNCHANGED <<file, backup>>

-----------------------------------------------------------------------------
(* The store in use: every operation replaces the whole file in one step. *)

\* setSession, deleteSession
SetSession(c, entry) == store' = [store EXCEPT ![c] = entry]

\* compareAndSetSession
CompareAndSet(c, expected, entry) == store[c] = expected /\ SetSession(c, entry)

\* acknowledgeRecoveryNotice: only the exact notice that was delivered.
Acknowledge(c, t) ==
  CompareAndSet(c, [id |-> t, notice |-> TRUE], [id |-> t, notice |-> FALSE])

-----------------------------------------------------------------------------
(* The cutover of a legacy store. *)

\* Mutant: a backup that is there is taken for this store's.
BackupExists == backup # "none"

BackupMatches == backup = "exact"

\* ensureLegacyBackup: an earlier attempt's copy, compared byte by byte.
KeepBackup ==
  /\ boot = "migrating" /\ BackupMatches
  /\ boot' = "replacing" /\ UNCHANGED <<file, backup, store>>

\* A copy that differs is never replaced: the process does not start.
RefuseBackup ==
  /\ boot = "migrating" /\ backup = "torn"
  /\ boot' = "off" /\ UNCHANGED <<file, backup, store>>

StartBackup ==
  /\ boot = "migrating" /\ backup = "none"
  /\ backup' = "torn" /\ boot' = "backing" /\ UNCHANGED <<file, store>>

FinishBackup ==
  /\ boot = "backing"
  /\ backup' = "exact" /\ boot' = "replacing" /\ UNCHANGED <<file, store>>

\* The copy is removed again and the start fails.
BackupFails ==
  /\ boot = "backing"
  /\ backup' = "none" /\ boot' = "off" /\ UNCHANGED <<file, store>>

\* The rename of writeData. Everything else of the target is known by then.
Replace ==
  /\ boot = "replacing"
  /\ file' = "current" /\ boot' = "up" /\ UNCHANGED backup
  /\ store' \in [Chats -> {NoEntry} \union (IF Results # {"bound"} THEN {Unresolved} ELSE {})
                           \union {Bound(t, FALSE) : t \in IF "bound" \in Results
                                                             THEN Transcripts ELSE {}}]
  /\ DistinctIds(store')

\* Something of it fails, the directory's fsync after the rename too.
ReplaceFails ==
  /\ boot = "replacing" /\ file' \in {"legacy", "current"}
  /\ boot' = "off" /\ UNCHANGED <<backup, store>>

\* The process dies, and what it had not finished stays as it is.
BootCrash ==
  /\ boot \in {"migrating", "backing", "replacing"}
  /\ boot' = "off" /\ UNCHANGED <<file, backup, store>>

Boot ==
  \/ Load \/ KeepBackup \/ RefuseBackup \/ StartBackup \/ FinishBackup
  \/ BackupFails \/ Replace \/ ReplaceFails \/ BootCrash

(* The sessions of an old store can be had back                            *)
(* (docs/plans/completed/20260802-issue-174-exact-session-bindings.md:55): *)
(* it is never replaced before an exact copy of it is complete, and that   *)
(* copy is never lost.                                                     *)
OldStoreKept ==
  /\ file = "legacy" /\ file' # "legacy" => backup = "exact"
  /\ backup = "exact" => backup' = "exact"

=============================================================================
