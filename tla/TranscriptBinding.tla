------------------------- MODULE TranscriptBinding --------------------------
(***************************************************************************)
(* Which transcript file a chat's session may be opened on                 *)
(* (src/src/interactive-session-binding.ts) and what Pi has to say before  *)
(* it is taken for that session (src/src/pi-rpc-protocol.ts).              *)
(*                                                                         *)
(* A file has a place relative to its session directory, a kind, an owner, *)
(* a mode and a header: which format, whose id, this workspace or not.     *)
(* Spelling of paths and the length of a header are left out.              *)
(***************************************************************************)
EXTENDS Naturals, Sequences

Ids == {"this", "other"}
Nobody == "none"        \* no id could be read, or none is expected

-----------------------------------------------------------------------------
(* The session directory. *)

Dirs == [kind : {"absent", "dir", "link", "file"}, mine : BOOLEAN, mode : {"0700", "0755"}]

Problems == {"missing", "unsafe", "unreadable"}

\* privateSessionDirectory; create: make it, or close it to others.
DirVerdict(d, create) ==
    CASE d.kind = "absent" -> IF create THEN "private" ELSE "missing"
      [] d.kind \in {"link", "file"} -> "unreadable"
      [] d.kind = "dir" /\ ~d.mine -> "unsafe"
      [] d.kind = "dir" /\ d.mine ->
            IF create \/ d.mode = "0700" THEN "private" ELSE "unreadable"

\* Which directory is meant: the first of these that says something; a
\* project that sets it, even to nothing, hides the global setting.
Settings == {"unset", "", "dir", "no string"}
Sources == [flag : {"", "dir"}, env : {"", "dir"}, project : Settings, global : Settings]

Setting(s) == IF s.project # "unset" THEN s.project ELSE s.global

Located(s) ==
    CASE Setting(s) = "no string" -> "refused"
      [] Setting(s) # "no string" /\ s.flag # "" -> "flag"
      [] Setting(s) # "no string" /\ s.flag = "" /\ s.env # "" -> "env"
      [] Setting(s) = "dir" /\ s.flag = "" /\ s.env = "" ->
            IF s.project = "dir" THEN "project" ELSE "global"
      [] OTHER -> "default"

\* The directories a location can have.
Locations ==
    {d \in Dirs : DirVerdict(d, TRUE) = "private" /\ \E s \in Sources : Located(s) # "refused"}

-----------------------------------------------------------------------------
(* One candidate, inspected without a search for another. *)

Files == [kind : {"absent", "file", "link", "dir"}, place : {"direct", "nested", "outside"},
          suffix : BOOLEAN, mine : BOOLEAN, mode : {"0600", "0644"},
          header : {"none", "old", "current"}, id : Ids, here : BOOLEAN]

Private(f) ==
    /\ f.kind = "file" /\ f.mine /\ f.mode = "0600"
    /\ f.place = "direct" /\ f.suffix

\* Mutant: whose transcript it is does not matter.
NamesAnyone(f, expected) == f.header = "current" /\ f.here

Names(f, expected) ==
    f.header = "current" /\ f.here /\ expected \in {Nobody, f.id}

\* inspectInteractiveSessionCandidate
Inspect(d, f, expected) ==
    CASE DirVerdict(d, FALSE) # "private" -> DirVerdict(d, FALSE)
      [] DirVerdict(d, FALSE) = "private" /\ f.kind = "absent" -> "missing"
      [] DirVerdict(d, FALSE) = "private" /\ f.kind # "absent" /\ ~Private(f) -> "unsafe"
      [] DirVerdict(d, FALSE) = "private" /\ Private(f) ->
            IF Names(f, expected) THEN "valid" ELSE "invalid"

\* The id an invalid candidate shows all the same.
Observed(d, f) ==
    IF Inspect(d, f, Nobody) = "invalid" /\ f.header # "none" THEN f.id ELSE Nobody

-----------------------------------------------------------------------------
(* A new transcript: a name nobody has, a header that Pi writes. *)

Seeds == [names : UNION {[1..n -> {"taken", "free"}] : n \in 0..3},
          answer : {"this", "nothing"}, file : {"same", "different"}, written : Files]

\* The exclusive create of the first free name.
Allocates(names) == \E i \in DOMAIN names : names[i] = "free"

\* preseedInteractiveSessionBindingCore
Preseeds(d, s) ==
    /\ DirVerdict(d, FALSE) = "private"
    /\ Allocates(s.names)
    /\ s.answer = "this" /\ s.file = "same"
    /\ Inspect(d, s.written, "this") = "valid"

Preseedable ==
    {s \in {q \in Seeds : q.answer = "this" /\ q.file = "same"} : \E d \in Locations : Preseeds(d, s)}

-----------------------------------------------------------------------------
(* Pi opens it. *)

\* What the child prints until it is believed: its answers to get_state and
\* the dialogs of an extension.
Records == {"noise", "dialog", "not asked", "failed", "half", "wrong id", "wrong file", "exact"}

\* Mutant: an answer to another question counts.
AnswersAny(r) == r \in {"wrong id", "wrong file", "exact", "not asked"}

\* parsePiGetStateIdentity: successful, complete, and to this question.
Answers(r) == r \in {"wrong id", "wrong file", "exact"}

\* The first record that decides; a blocking dialog ends the startup.
Decides(r) == Answers(r) \/ r = "dialog"
Identified(output) ==
    \E i \in DOMAIN output :
        /\ Answers(output[i]) /\ output[i] \notin {"wrong id", "wrong file"}
        /\ \A j \in 1 .. i - 1 : ~Decides(output[j])

Outputs == UNION {[1..n -> Records] : n \in 0..3}

\* prepareSessionBinding and, once more, spawnPiRpcSession.
Openable(d, f) == Inspect(d, f, "this") = "valid"

Usable == {f \in Files : \E d \in Locations : Openable(d, f)}
Unusable == {f \in Files : \E d \in Locations : ~Openable(d, f)}
Identifying == {o \in Outputs : Identified(o)}

-----------------------------------------------------------------------------
(* The reference. *)

\* Files somebody else could have put there, or of another conversation.
Foreign ==
    {f \in Files :
        \/ f.kind # "file" \/ ~f.mine \/ f.mode # "0600"
        \/ f.place # "direct" \/ f.id # "this" \/ ~f.here \/ f.header # "current"}

\* Outputs in which Pi never named this transcript in answer to this startup.
Unproven == {o \in Outputs : \A i \in DOMAIN o : o[i] # "exact"}

OpensForeign == Usable \intersect Foreign
BelievesUnproven == Identifying \intersect Unproven

=============================================================================
