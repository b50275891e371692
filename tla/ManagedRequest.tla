--------------------------- MODULE ManagedRequest ---------------------------
(***************************************************************************)
(* What a knowledge_update request may name, src/src/knowledge/update.ts:  *)
(* how its fields are read, and what must lie on the way to the page and   *)
(* to its archived copy.                                                   *)
(*                                                                         *)
(* A path is a sequence of segments ("wiki/pages" counts as one), and the  *)
(* ground under it says what each of them is on disk.                      *)
(***************************************************************************)
EXTENDS SequencesExt, FiniteSetsExt

Types == {"user", "project"}
Writes == {"create", "update", "upsert"}
Relocations == {"archive", "restore"}
NoPath == <<>>

-----------------------------------------------------------------------------
(* The fields. *)

\* Segments that name nothing: the parent, and what two slashes enclose.
Nameless == {"..", "(empty)"}
Segments == {"wiki/pages", "user", "project", "p", "p.md", "p.txt", "a b"} \union Nameless
Spelled == [absolute : BOOLEAN, parts : UNION {[1..n -> Segments] : n \in 1..4}]

\* normalizePagePath
PagePath(s) ==
  IF ~s.absolute /\ Range(s.parts) \intersect Nameless = {} /\ Last(s.parts) = "p.md"
  THEN s.parts ELSE NoPath

\* normalizeSlug: safe segments; one extension more or less is the same page.
SlugPath(s) ==
  IF ~s.absolute /\ Range(s.parts) \intersect (Nameless \union {"a b", "wiki/pages"}) = {}
  THEN Append(Front(s.parts), "p.md") ELSE NoPath

Below(type, path) == Len(path) >= 3 /\ SubSeq(path, 1, 2) = <<"wiki/pages", type>>

Fields == {"path", "slug"}

\* resolveTargetRelPath: a path wins over a slug.
WritePath(type, field, s) ==
  CASE field = "path" -> IF Below(type, PagePath(s)) THEN PagePath(s) ELSE NoPath
    [] field = "slug" -> IF SlugPath(s) = NoPath THEN NoPath
                         ELSE <<"wiki/pages", type>> \o SlugPath(s)

\* parseManagedKnowledgePagePath: the type of a move is the path's own.
MovePath(s) ==
  IF \E t \in Types : Below(t, PagePath(s)) THEN PagePath(s) ELSE NoPath

Frontmatter == [shape : {"flat", "nested", "unknown field", "no object"},
                type : Types \union {"none", "other"}, named : BOOLEAN, sound : BOOLEAN]

\* validateKnowledgePageFrontmatter, for a page of this type.
Describes(type, fm) ==
  /\ fm.shape = "flat" /\ fm.named /\ fm.sound
  /\ fm.type \in {"none", type}

\* The type a reader finds in the page that is written.
ReadAs(type, fm) == IF fm.type = "none" THEN type ELSE fm.type

\* normalizeKnowledgeUpdateRequest: the paths a request can ask for.
Asked(op) ==
  IF op \in Writes
  THEN {[type |-> q[1], path |-> WritePath(q[1], q[2], q[3])] :
          q \in {t \in Types : \E fm \in Frontmatter : Describes(t, fm)} \X Fields \X Spelled}
  ELSE {[type |-> MovePath(s)[2], path |-> MovePath(s)] :
          s \in {s \in Spelled : MovePath(s) # NoPath}}

Requests == [op \in Writes \union Relocations |-> {r \in Asked(op) : r.path # NoPath}]

-----------------------------------------------------------------------------
(* The ground. *)

Grounds(n) == [1..n -> {"dir", "file", "link", "absent"}]

\* Mutant: only what is written itself is looked at.
SafeAtTheEnd(ground) == Last(ground) # "link"

\* assertSafeKnowledgeWorkspacePath: nothing there is a link, and nothing
\* lies below a file.
Safe(ground) ==
  /\ "link" \notin Range(ground)
  /\ "file" \notin Range(Front(ground))

\* What the file system makes of a path: a path of names only is itself.
Climbed(path) ==
  LET Step(done, part) == CASE part = ".." -> IF done = <<>> THEN <<>> ELSE Front(done)
                            [] part = "(empty)" -> done
                            [] OTHER -> Append(done, part)
  IN FoldLeft(Step, <<>>, path)

Resolve(path) == IF Range(path) \intersect Nameless = {} THEN path ELSE Climbed(path)

\* assertTargetPath, assertArchivePath
Admitted(op) == {r \in Requests[op] : Below(r.type, Resolve(r.path))}

\* assertRegularFileIfExists
Fits(ground) == Safe(ground) /\ Last(ground) \in {"file", "absent"}

\* validateIndexAndLogPaths: both lie directly in wiki/.
Managed == {g \in Grounds(2) : Fits(g)}

\* The grounds of the page and its archived copy. A write creates or replaces
\* a regular file; a move needs one (assertRegularFile), and a free place.
Ways(op) ==
  {w \in Grounds(3) \X Grounds(3) :
     CASE op \in Writes -> Fits(w[1]) /\ w[2] = w[1]
       [] op = "archive" -> Safe(w[1]) /\ Last(w[1]) = "file" /\ Safe(w[2]) /\ Last(w[2]) = "absent"
       [] op = "restore" -> Safe(w[2]) /\ Last(w[2]) = "file" /\ Safe(w[1]) /\ Last(w[1]) = "absent"}

Admits == [op \in Writes \union Relocations |-> Admitted(op) # {} /\ Ways(op) # {} /\ Managed # {}]

-----------------------------------------------------------------------------
(* The reference. *)

\* Requests for something other than a Markdown page in a folder of its type.
Astray ==
  UNION {{r \in Admitted(op) :
            LET p == Resolve(r.path)
            IN Len(p) < 3 \/ p[1] # "wiki/pages" \/ p[2] # r.type \/ Last(p) # "p.md"} :
         op \in Writes \union Relocations}

\* Ways on which a page, an archived copy or a managed file is elsewhere.
Leading ==
  {w \in (UNION {Ways(op) : op \in Writes \union Relocations}) \union {<<g, g>> : g \in Managed} :
     "link" \in Range(w[1]) \union Range(w[2])}

\* Pages that a reader would find under another type than their folder's.
Misfiled == {q \in Types \X Frontmatter : Describes(q[1], q[2]) /\ ReadAs(q[1], q[2]) # q[1]}

=============================================================================
