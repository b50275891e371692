---------------------------- MODULE PiTurnProofs ----------------------------
(* The answers of a chat's turns are the right ones, and its drafts keep   *)
(* quiet, for any number of prompts, runs and pieces of text.              *)
EXTENDS PiTurn, SequenceTheorems, TLAPS

-----------------------------------------------------------------------------
(* What a record does to the reader of prompt n, whose answer goes to the  *)
(* chat if h: a view is the parse state with the text accumulated.         *)

ParsedBy(s, rec, n) ==
    CASE rec.t = "prompt" /\ rec.n = n /\ rec.d # "rejected" ->
            [s EXCEPT !.handled = rec.d = "handled"]
      [] rec.t = "start" ->
            LET seen == [s EXCEPT !.life = TRUE] IN IF s.comp THEN MarkReset(seen) ELSE seen
      [] rec.t = "delta" -> [s EXCEPT !.cur = TRUE]
      [] rec.t = "end" -> AfterEnd(s, rec)
      [] rec.t = "compaction" -> IF s.overflow THEN MarkReset(s) ELSE s
      [] rec.t = "compacted" ->
            IF ~s.overflow THEN s
            ELSE IF rec.ok THEN MarkReset(s) ELSE Fail(s)
      [] rec.t = "error" -> Fail(s)
      [] OTHER -> s

Gathered(v, rec) ==
    IF rec.t = "delta" THEN Append(v.acc, rec.r)
    ELSE IF Resets(v.s, rec) THEN NoText ELSE v.acc

Viewed(v, rec, n, h) ==
    [s |-> ParsedBy(v.s, rec, n), acc |-> IF h THEN Gathered(v, rec) ELSE v.acc]

ParseStates == [pend : Seq(Nat), length : BOOLEAN, cur : BOOLEAN, comp : BOOLEAN,
                reset : BOOLEAN, overflow : BOOLEAN, handled : BOOLEAN, life : BOOLEAN]
Views == [s : ParseStates, acc : Seq(Nat)]
StartView == [s |-> NewParse, acc |-> NoText]

(* p: what the reader makes of the unread records q, one after the other.  *)
Foreseen(p, q, n, h) ==
    /\ p \in [0..Len(q) -> Views]
    /\ \A k \in 1..Len(q) : p[k] = Viewed(p[k - 1], q[k], n, h)

Probing(rec) == rec.t = "state"
Terminal(rec) == rec.t = "settled" \/ (rec.t = "prompt" /\ rec.d = "rejected")
Resting(c) == c.st \in {"idle", "hung", "dead"}

RunOf(own, n, r) == r \in 1..Len(own) /\ own[r] = n
TextOf(own, n, text) == \A x \in ToSet(text) : x # 0 => RunOf(own, n, x)

RecordFits(rec, own, n) ==
    /\ rec.t \in {"start", "delta", "end"} => RunOf(own, n, rec.r)
    /\ rec.t = "prompt" => rec.n = n

ViewFits(v, own, n, h) ==
    /\ TextOf(own, n, v.acc) /\ TextOf(own, n, v.s.pend)
    /\ ~h => v.acc = NoText

(* A lifecycle that settles leaves the text of its last run, or none.      *)
Settles(v, r, ok) ==
    IF ok THEN v.s.pend = <<r>> /\ ~v.s.length /\ ToSet(v.acc) \subseteq {r} /\ r # 0
    ELSE v.s.length \/ v.s.pend \in {NoText, ErrorText}

(* The view once everything is read, against the child as it is: text of   *)
(* an earlier run is only there if the next record that starts a run drops *)
(* it.                                                                     *)
ViewOfChild(v, c, own, n) ==
    /\ c.st \in {"running", "dialog", "ended"} =>
          /\ v.s.life /\ RunOf(own, n, Len(own)) /\ ToSet(v.acc) \subseteq {Len(own)}
    /\ c.st \in {"running", "dialog"} => (v.acc # NoText => v.s.cur)
    /\ c.st = "ended" =>
          /\ v.acc # NoText => v.s.comp /\ ~v.s.reset
          /\ Settles(v, Len(own), c.kind = "visible" /\ ~c.err)

(* The prompt is still to be taken. *)
Untaken(p, q, c, n, in) ==
    in # <<>> => /\ in = <<n>> /\ c.st \in {"idle", "hung"}
                 /\ \A k \in 1..Len(q) : Probing(q[k])
                 /\ \A k \in 0..Len(q) : p[k] = StartView

(* What is known of the unread records and of the views they lead to.      *)
Past(p, q, own, n, h) ==
    /\ Foreseen(p, q, n, h)
    /\ \A k \in 0..Len(q) : ViewFits(p[k], own, n, h)
    /\ \A k \in 1..Len(q) :
          /\ RecordFits(q[k], own, n)
          /\ Terminal(q[k]) => \A j \in k + 1 .. Len(q) : Probing(q[j])
          /\ q[k].t = "settled" => Settles(p[k - 1], q[k].r, q[k].ok)

Closed(q, c) == \A k \in 1..Len(q) : Terminal(q[k]) => Resting(c)

Follows(p, q, c, in, own, n, h) ==
    /\ Past(p, q, own, n, h)
    /\ Closed(q, c)
    /\ Untaken(p, q, c, n, in)
    /\ ViewOfChild(p[Len(q)], c, own, n)

-----------------------------------------------------------------------------
(* The inductive invariant. *)

Kinds == {"visible", "silent", "length", "error", "overflow"}
Records ==
    [t : {"start", "delta"}, r : Nat] \cup [t : {"prompt"}, n : Nat, d : {"started", "handled", "queued", "rejected"}]
    \cup [t : {"end"}, r : Nat, kind : Kinds, retry : BOOLEAN]
    \cup [t : {"compaction", "dialog", "error"}] \cup [t : {"compacted"}, ok : BOOLEAN]
    \cup [t : {"settled"}, r : Nat, ok : BOOLEAN] \cup [t : {"state"}, live : BOOLEAN]
Children == [st : {"idle", "running", "dialog", "ended", "hung", "dead"}, killed : BOOLEAN,
             kind : Kinds, retry : BOOLEAN, deltas : Nat, err : BOOLEAN, queue : Seq(Nat),
             slipped : BOOLEAN]

TypeOK ==
    /\ turn \in [n : Nat, st : {"idle", "reading", "closing"}, last : Nat, ok : BOOLEAN,
                 settled : BOOLEAN, consumed : BOOLEAN]
    /\ parse \in ParseStates /\ child \in Children
    /\ stdout \in Seq(Records) /\ stdin \in Seq(Nat)
    /\ probe \in {"no", "asked", "sent"} /\ outbox \in {"human", "internal"}
    /\ isolated \in BOOLEAN /\ owner \in Seq(Nat)
    /\ kinds \in Seq({"human", "internal"}) /\ Len(kinds) = turn.n
    /\ said \in [n : Nat, text : Seq(Nat), last : Nat, ok : BOOLEAN, box : {"human", "internal"},
                 clean : BOOLEAN]
    /\ relay \in [st : {"off", "reading", "sending"}, acc : Seq(Nat)]

(* One answer to the watchdog's question at a time. *)
ProbeOnce ==
    /\ ~Reading => probe = "no"
    /\ probe # "sent" => ProbeAnswers(stdout) = {}
    /\ \A i, j \in ProbeAnswers(stdout) : i = j

(* Who uses the relay and the outbox. *)
TurnsApart ==
    /\ relay.st = "reading" <=> Reading /\ Human
    /\ relay.st # "off" => turn.n # 0 /\ Human /\ outbox = "human"
    /\ relay.st = "sending" => turn.st = "idle"
    /\ relay.st = "off" => relay.acc = NoText
    /\ turn.st # "idle" => turn.n # 0
    /\ turn.st = "closing" => ~Human
    /\ outbox = "internal" => isolated \/ turn.st # "idle"
    /\ said.box = "human"
    /\ Exited => stdin = <<>>

(* A run that goes on belongs to a prompt and has not failed yet. *)
RunKnown ==
    /\ child.st \in {"running", "dialog", "ended"} => owner # <<>>
    /\ child.st \in {"running", "dialog"} => ~child.err

(* A child no prompt slipped past owes nothing between two turns. *)
NothingOwed ==
    ~child.slipped =>
        /\ child.queue = <<>>
        /\ ~Reading => stdin = <<>> /\ stdout = <<>> /\ Resting(child)

Answer(n, text, last, ok) ==
    /\ TextOf(owner, n, text)
    /\ last # 0 => IF ok THEN text # NoText /\ ToSet(text) = {last} ELSE text = ErrorText

Answers ==
    /\ said.clean => Answer(said.n, said.text, said.last, said.ok)
    /\ relay.st = "sending" /\ ~child.slipped => Answer(turn.n, relay.acc, turn.last, turn.ok)
    /\ Reading => turn.last = 0

(* While a turn reads, the views of what is unread lead to the child. *)
StreamFollowed ==
    Reading /\ ~child.slipped =>
        \E p : /\ Follows(p, stdout, child, stdin, owner, turn.n, Human)
               /\ p[0] = [s |-> parse, acc |-> relay.acc]

TurnInv == TypeOK /\ ProbeOnce /\ TurnsApart /\ RunKnown /\ NothingOwed /\ Answers
           /\ StreamFollowed

-----------------------------------------------------------------------------
(* What one record makes of a view. *)

LEMMA ParsedIs == \A s, rec : Parsed(s, rec) = ParsedBy(s, rec, turn.n)
BY Zenon DEF Parsed, ParsedBy

LEMMA RecordShape ==
  ASSUME NEW rec \in Records
  PROVE  /\ rec.t \in {"start", "delta", "prompt", "end", "compaction", "dialog", "error",
                       "compacted", "settled", "state"}
         /\ rec.t \in {"start", "delta", "end", "settled"} => rec.r \in Nat
         /\ rec.t = "prompt" => rec.n \in Nat
         /\ rec.t = "end" => rec.kind \in Kinds /\ rec.retry \in BOOLEAN
         /\ rec.t \in {"compacted", "settled"} => rec.ok \in BOOLEAN
         /\ rec.t = "state" => rec.live \in BOOLEAN
BY DEF Records

LEMMA ViewShape ==
  ASSUME NEW v \in Views
  PROVE  /\ v.acc \in Seq(Nat) /\ v.s \in ParseStates
         /\ v = [s |-> v.s, acc |-> v.acc]
BY DEF Views

LEMMA PromptViewed ==
  ASSUME NEW v \in Views, NEW rec, rec.t = "prompt", NEW n, NEW h \in BOOLEAN,
         NEW w, w = Viewed(v, rec, n, h)
  PROVE  /\ w \in Views /\ w.acc = v.acc
         /\ w.s.pend = v.s.pend /\ w.s.length = v.s.length /\ w.s.cur = v.s.cur
         /\ w.s.comp = v.s.comp /\ w.s.reset = v.s.reset /\ w.s.life = v.s.life
<1>1. v.s \in ParseStates /\ v.acc \in Seq(Nat)
  BY ViewShape
<1>2. \/ ParsedBy(v.s, rec, n) = v.s
      \/ ParsedBy(v.s, rec, n) = [v.s EXCEPT !.handled = TRUE]
      \/ ParsedBy(v.s, rec, n) = [v.s EXCEPT !.handled = FALSE]
  BY <1>1 DEF ParsedBy
<1>3. Viewed(v, rec, n, h).acc = v.acc
  BY DEF Viewed, Gathered, Resets
<1>4. ParsedBy(v.s, rec, n) \in ParseStates
  BY <1>1, <1>2 DEF ParseStates
<1> QED
  BY <1>1, <1>2, <1>3, <1>4 DEF Viewed, Views, ParseStates

LEMMA StartViewed ==
  ASSUME NEW v \in Views, NEW rec, rec.t = "start", NEW n, NEW h \in BOOLEAN,
         NEW w, w = Viewed(v, rec, n, h)
  PROVE  /\ w \in Views
         /\ h /\ v.s.comp /\ ~v.s.reset => w.acc = NoText
         /\ ~(h /\ v.s.comp /\ ~v.s.reset) => w.acc = v.acc
         /\ w.s.pend = v.s.pend /\ w.s.length = v.s.length /\ w.s.life
<1>1. v.s \in ParseStates /\ v.acc \in Seq(Nat)
  BY ViewShape
<1>2. ParsedBy(v.s, rec, n) = IF v.s.comp THEN [[v.s EXCEPT !.life = TRUE] EXCEPT !.reset = TRUE]
                                          ELSE [v.s EXCEPT !.life = TRUE]
  BY DEF ParsedBy, MarkReset
<1>3. Viewed(v, rec, n, h).acc = IF h /\ v.s.comp /\ ~v.s.reset THEN NoText ELSE v.acc
  BY DEF Viewed, Gathered, Resets
<1>4. ParsedBy(v.s, rec, n) \in ParseStates
  BY <1>1, <1>2 DEF ParseStates
<1>5. NoText \in Seq(Nat)
  BY DEF NoText
<1> QED
  BY <1>1, <1>2, <1>3, <1>4, <1>5 DEF Viewed, Views, ParseStates

LEMMA DeltaViewed ==
  ASSUME NEW v \in Views, NEW rec, rec.t = "delta", rec.r \in Nat, NEW n, NEW h \in BOOLEAN,
         NEW w, w = Viewed(v, rec, n, h)
  PROVE  /\ w \in Views
         /\ h => w.acc = Append(v.acc, rec.r)
         /\ ~h => w.acc = v.acc
         /\ w.s.pend = v.s.pend /\ w.s.cur /\ w.s.life = v.s.life
<1>1. v.s \in ParseStates /\ v.acc \in Seq(Nat)
  BY ViewShape
<1>2. ParsedBy(v.s, rec, n) = [v.s EXCEPT !.cur = TRUE]
  BY DEF ParsedBy
<1>3. Viewed(v, rec, n, h).acc = IF h THEN Append(v.acc, rec.r) ELSE v.acc
  BY DEF Viewed, Gathered
<1>4. ParsedBy(v.s, rec, n) \in ParseStates
  BY <1>1, <1>2 DEF ParseStates
<1>5. Append(v.acc, rec.r) \in Seq(Nat)
  BY <1>1
<1> QED
  BY <1>1, <1>2, <1>3, <1>4, <1>5 DEF Viewed, Views, ParseStates

LEMMA EndViewed ==
  ASSUME NEW v \in Views, NEW rec, rec.t = "end", rec.r \in Nat, rec.kind \in Kinds,
         rec.retry \in BOOLEAN, NEW n, NEW h \in BOOLEAN,
         NEW w, w = Viewed(v, rec, n, h)
  PROVE  /\ w \in Views
         /\ h /\ rec.retry => w.acc = NoText
         /\ ~(h /\ rec.retry) => w.acc = v.acc
         /\ w.s.pend = Outcome(rec) /\ w.s.life /\ w.s.comp = v.s.cur
         /\ w.s.length <=> /\ v.s.length \/ rec.kind = "length"
                           /\ ~(Failed(rec) \/ rec.kind = "visible")
         /\ w.s.reset <=> Failed(rec) /\ rec.retry
<1>1. v.s \in ParseStates /\ v.acc \in Seq(Nat)
  BY ViewShape
<1>2. ParsedBy(v.s, rec, n) = AfterEnd(v.s, rec)
  BY DEF ParsedBy
<1>3. AfterEnd(v.s, rec) =
        [pend |-> Outcome(rec),
         length |-> ((v.s.length \/ rec.kind = "length") /\ ~(Failed(rec) \/ rec.kind = "visible")),
         cur |-> FALSE, comp |-> v.s.cur, reset |-> (Failed(rec) /\ rec.retry),
         overflow |-> (rec.kind = "overflow"), handled |-> v.s.handled, life |-> TRUE]
  BY <1>1 DEF AfterEnd, RememberOverflow, Retain, MarkReset, ParseStates
<1>4. Viewed(v, rec, n, h).acc = IF h /\ rec.retry THEN NoText ELSE v.acc
  BY DEF Viewed, Gathered, Resets
<1>5. Outcome(rec) \in Seq(Nat) /\ NoText \in Seq(Nat)
  BY DEF Outcome, ErrorText, NoText
<1>6. AfterEnd(v.s, rec) \in ParseStates
  BY <1>1, <1>3, <1>5 DEF ParseStates
<1>7. w \in Views /\ w.s = AfterEnd(v.s, rec)
  BY <1>1, <1>2, <1>4, <1>5, <1>6 DEF Viewed, Views
<1>8. /\ w.s.pend = Outcome(rec) /\ w.s.life /\ w.s.comp = v.s.cur
      /\ w.s.length <=> /\ v.s.length \/ rec.kind = "length"
                        /\ ~(Failed(rec) \/ rec.kind = "visible")
      /\ w.s.reset <=> Failed(rec) /\ rec.retry
  <2> DEFINE s == [pend |-> Outcome(rec),
         length |-> ((v.s.length \/ rec.kind = "length") /\ ~(Failed(rec) \/ rec.kind = "visible")),
         cur |-> FALSE, comp |-> v.s.cur, reset |-> (Failed(rec) /\ rec.retry),
         overflow |-> (rec.kind = "overflow"), handled |-> v.s.handled, life |-> TRUE]
  <2>1. w.s = s
    BY <1>3, <1>7
  <2>2. s.pend = Outcome(rec) /\ s.comp = v.s.cur
    OBVIOUS
  <2>3. s.life
    OBVIOUS
  <2>4. s.length <=> /\ v.s.length \/ rec.kind = "length"
                    /\ ~(Failed(rec) \/ rec.kind = "visible")
    BY Zenon
  <2>5. s.reset <=> Failed(rec) /\ rec.retry
    BY Zenon
  <2> HIDE DEF s
  <2> QED
    BY <2>1, <2>2, <2>3, <2>4, <2>5
<1> QED
  BY <1>4, <1>7, <1>8

LEMMA CompactionViewed ==
  ASSUME NEW v \in Views, NEW rec, NEW n, NEW h \in BOOLEAN,
         rec.t = "compaction" \/ (rec.t = "compacted" /\ rec.ok),
         NEW w, w = Viewed(v, rec, n, h)
  PROVE  /\ w \in Views
         /\ h /\ v.s.overflow /\ ~v.s.reset => w.acc = NoText
         /\ ~(h /\ v.s.overflow /\ ~v.s.reset) => w.acc = v.acc
         /\ w.s.pend = v.s.pend /\ w.s.length = v.s.length /\ w.s.life = v.s.life
         /\ w.s.comp = v.s.comp /\ (w.s.reset <=> v.s.reset \/ v.s.overflow)
<1>1. v.s \in ParseStates /\ v.acc \in Seq(Nat)
  BY ViewShape
<1>2. ParsedBy(v.s, rec, n) = IF v.s.overflow THEN [v.s EXCEPT !.reset = TRUE] ELSE v.s
  BY DEF ParsedBy, MarkReset
<1>3. Viewed(v, rec, n, h).acc = IF h /\ v.s.overflow /\ ~v.s.reset THEN NoText ELSE v.acc
  BY DEF Viewed, Gathered, Resets
<1>4. ParsedBy(v.s, rec, n) \in ParseStates
  BY <1>1, <1>2 DEF ParseStates
<1>5. NoText \in Seq(Nat)
  BY DEF NoText
<1> QED
  BY <1>1, <1>2, <1>3, <1>4, <1>5 DEF Viewed, Views, ParseStates

LEMMA FailureViewed ==
  ASSUME NEW v \in Views, NEW rec, NEW n, NEW h \in BOOLEAN,
         rec.t = "error" \/ (rec.t = "compacted" /\ ~rec.ok),
         NEW w, w = Viewed(v, rec, n, h)
  PROVE  /\ w \in Views /\ w.acc = v.acc
         /\ \/ w.s.pend = ErrorText
            \/ rec.t = "compacted" /\ w.s.pend = v.s.pend
         /\ w.s.length = v.s.length /\ w.s.life = v.s.life
         /\ w.s.comp = v.s.comp /\ w.s.reset = v.s.reset
<1>1. v.s \in ParseStates /\ v.acc \in Seq(Nat)
  BY ViewShape
<1>2. \/ ParsedBy(v.s, rec, n) = [[v.s EXCEPT !.pend = ErrorText] EXCEPT !.overflow = FALSE]
      \/ rec.t = "compacted" /\ ParsedBy(v.s, rec, n) = v.s
  BY DEF ParsedBy, Fail
<1>3. Viewed(v, rec, n, h).acc = v.acc
  BY DEF Viewed, Gathered, Resets
<1>4. ErrorText \in Seq(Nat)
  BY DEF ErrorText
<1>5. ParsedBy(v.s, rec, n) \in ParseStates
  BY <1>1, <1>2, <1>4 DEF ParseStates
<1> QED
  BY <1>1, <1>2, <1>3, <1>4, <1>5 DEF Viewed, Views, ParseStates

LEMMA OtherViewed ==
  ASSUME NEW v \in Views, NEW rec, rec.t \in {"dialog", "settled", "state"},
         NEW n, NEW h \in BOOLEAN
  PROVE  Viewed(v, rec, n, h) = v
<1>1. ParsedBy(v.s, rec, n) = v.s
  BY DEF ParsedBy
<1>2. Viewed(v, rec, n, h) = [s |-> v.s, acc |-> v.acc]
  BY <1>1 DEF Viewed, Gathered, Resets
<1> QED
  BY <1>2, ViewShape

LEMMA ViewedTyped ==
  ASSUME NEW v \in Views, NEW rec \in Records, NEW n, NEW h \in BOOLEAN
  PROVE  Viewed(v, rec, n, h) \in Views
<1> USE RecordShape
<1>1. CASE rec.t = "prompt"
  BY <1>1, PromptViewed
<1>2. CASE rec.t = "start"
  BY <1>2, StartViewed
<1>3. CASE rec.t = "delta"
  BY <1>3, DeltaViewed
<1>4. CASE rec.t = "end"
  BY <1>4, EndViewed
<1>5. CASE rec.t = "compaction" \/ (rec.t = "compacted" /\ rec.ok)
  BY <1>5, CompactionViewed
<1>6. CASE rec.t = "error" \/ (rec.t = "compacted" /\ ~rec.ok)
  BY <1>6, FailureViewed
<1>7. CASE rec.t \in {"dialog", "settled", "state"}
  BY <1>7, OtherViewed
<1> QED
  BY <1>1, <1>2, <1>3, <1>4, <1>5, <1>6, <1>7

LEMMA TextFacts ==
  ASSUME NEW own, NEW n
  PROVE  /\ TextOf(own, n, NoText) /\ TextOf(own, n, ErrorText)
         /\ ToSet(NoText) = {} /\ ToSet(ErrorText) = {0}
         /\ \A r : RunOf(own, n, r) => TextOf(own, n, <<r>>)
         /\ \A r : ToSet(<<r>>) = {r} /\ <<r>> # NoText
<1>1. ToSet(NoText) = {} /\ NoText = <<>>
  BY DEF ToSet, NoText
<1>2. \A r : ToSet(<<r>>) = {r} /\ <<r>> # NoText
  BY DEF ToSet, NoText
<1>3. ToSet(ErrorText) = {0}
  BY <1>2 DEF ErrorText
<1> QED
  BY <1>1, <1>2, <1>3 DEF TextOf

LEMMA AppendedSet ==
  ASSUME NEW text \in Seq(Nat), NEW r \in Nat
  PROVE  /\ ToSet(Append(text, r)) = ToSet(text) \cup {r}
         /\ Append(text, r) # NoText
<1>1. /\ Len(Append(text, r)) = Len(text) + 1 /\ Len(text) \in Nat
      /\ DOMAIN Append(text, r) = 1..(Len(text) + 1) /\ DOMAIN text = 1..Len(text)
      /\ \A i \in 1..Len(text) : Append(text, r)[i] = text[i]
      /\ Append(text, r)[Len(text) + 1] = r
  BY AppendProperties, LenProperties
<1>2. ASSUME NEW x \in ToSet(Append(text, r))
      PROVE  x \in ToSet(text) \cup {r}
  <2>1. PICK i \in 1..(Len(text) + 1) : x = Append(text, r)[i]
    BY <1>1 DEF ToSet
  <2>2. CASE i = Len(text) + 1
    BY <1>1, <2>1, <2>2
  <2>3. CASE i \in 1..Len(text)
    BY <1>1, <2>1, <2>3 DEF ToSet
  <2> QED
    BY <1>1, <2>1, <2>2, <2>3
<1>3. ASSUME NEW x \in ToSet(text) \cup {r}
      PROVE  x \in ToSet(Append(text, r))
  <2>1. CASE x = r
    BY <1>1, <2>1 DEF ToSet
  <2>2. CASE x \in ToSet(text)
    <3>1. PICK i \in 1..Len(text) : x = text[i]
      BY <1>1, <2>2 DEF ToSet
    <3>2. x = Append(text, r)[i] /\ i \in 1..(Len(text) + 1)
      BY <1>1, <3>1
    <3> QED
      BY <1>1, <3>2 DEF ToSet
  <2> QED
    BY <1>3, <2>1, <2>2
<1>4. Append(text, r) # NoText
  BY <1>1 DEF NoText
<1> QED
  BY <1>2, <1>3, <1>4

(* A run's records and pieces are those of the prompt it belongs to. *)
LEMMA ViewFitsOn ==
  ASSUME NEW own \in Seq(Nat), NEW v \in Views, NEW rec \in Records, NEW n, NEW h \in BOOLEAN,
         ViewFits(v, own, n, h), RecordFits(rec, own, n)
  PROVE  ViewFits(Viewed(v, rec, n, h), own, n, h)
<1> USE RecordShape
<1>1. /\ TextOf(own, n, v.acc) /\ TextOf(own, n, v.s.pend) /\ (~h => v.acc = NoText)
      /\ TextOf(own, n, NoText) /\ TextOf(own, n, ErrorText) /\ v.acc \in Seq(Nat)
  BY TextFacts, ViewShape DEF ViewFits
<1>2. CASE rec.t = "prompt"
  <2>0. PICK w : w = Viewed(v, rec, n, h)
    OBVIOUS
  <2>1. w.acc = v.acc /\ w.s.pend = v.s.pend
    BY <2>0, <1>2, PromptViewed
  <2>2. ViewFits(w, own, n, h)
    BY <1>1, <2>1 DEF ViewFits
  <2> QED
    BY <2>0, <2>2
<1>3. CASE rec.t = "start"
  <2>0. PICK w : w = Viewed(v, rec, n, h)
    OBVIOUS
  <2>1. (w.acc = NoText \/ w.acc = v.acc) /\ w.s.pend = v.s.pend
    BY <2>0, <1>3, StartViewed
  <2>2. ViewFits(w, own, n, h)
    BY <1>1, <2>1 DEF ViewFits
  <2> QED
    BY <2>0, <2>2
<1>4. CASE rec.t = "delta"
  <2>1. RunOf(own, n, rec.r) /\ rec.r \in Nat
    BY <1>4 DEF RecordFits
  <2>2. ToSet(Append(v.acc, rec.r)) = ToSet(v.acc) \cup {rec.r}
    BY <1>1, <2>1, AppendedSet
  <2>3. TextOf(own, n, Append(v.acc, rec.r))
    BY <1>1, <2>1, <2>2 DEF TextOf
  <2>0. PICK w : w = Viewed(v, rec, n, h)
    OBVIOUS
  <2>4. (h => w.acc = Append(v.acc, rec.r)) /\ (~h => w.acc = v.acc) /\ w.s.pend = v.s.pend
    BY <2>0, <1>4, <2>1, DeltaViewed
  <2>5. ViewFits(w, own, n, h)
    BY <1>1, <2>3, <2>4 DEF ViewFits
  <2> QED
    BY <2>0, <2>5
<1>5. CASE rec.t = "end"
  <2>1. RunOf(own, n, rec.r)
    BY <1>5 DEF RecordFits
  <2>2. TextOf(own, n, Outcome(rec))
    BY <1>1, <2>1, TextFacts DEF Outcome
  <2>0. PICK w : w = Viewed(v, rec, n, h)
    OBVIOUS
  <2>3. (w.acc = NoText \/ w.acc = v.acc) /\ w.s.pend = Outcome(rec)
    BY <2>0, <1>5, EndViewed
  <2>4. ViewFits(w, own, n, h)
    BY <1>1, <2>2, <2>3 DEF ViewFits
  <2> QED
    BY <2>0, <2>4
<1>6. CASE rec.t = "compaction" \/ (rec.t = "compacted" /\ rec.ok)
  <2>0. PICK w : w = Viewed(v, rec, n, h)
    OBVIOUS
  <2>1. (w.acc = NoText \/ w.acc = v.acc) /\ w.s.pend = v.s.pend
    BY <2>0, <1>6, CompactionViewed
  <2>2. ViewFits(w, own, n, h)
    BY <1>1, <2>1 DEF ViewFits
  <2> QED
    BY <2>0, <2>2
<1>7. CASE rec.t = "error" \/ (rec.t = "compacted" /\ ~rec.ok)
  <2>0. PICK w : w = Viewed(v, rec, n, h)
    OBVIOUS
  <2>1. w.acc = v.acc /\ (w.s.pend = ErrorText \/ w.s.pend = v.s.pend)
    BY <2>0, <1>7, FailureViewed
  <2>2. ViewFits(w, own, n, h)
    BY <1>1, <2>1 DEF ViewFits
  <2> QED
    BY <2>0, <2>2
<1>8. CASE rec.t \in {"dialog", "settled", "state"}
  BY <1>8, OtherViewed
<1> QED
  BY <1>2, <1>3, <1>4, <1>5, <1>6, <1>7, <1>8

-----------------------------------------------------------------------------
(* Reading ahead: a record more, a record less. *)

LEMMA PastTypes ==
  ASSUME NEW q \in Seq(Records), NEW p, NEW own, NEW n, NEW h, Past(p, q, own, n, h)
  PROVE  /\ Len(q) \in Nat /\ 0 \in 0..Len(q) /\ Len(q) \in 0..Len(q)
         /\ \A k \in 1..Len(q) : q[k] \in Records
         /\ \A k \in 0..Len(q) : p[k] \in Views
BY LenProperties, ElementOfSeq DEF Past, Foreseen

LEMMA OneMore ==
  ASSUME NEW q \in Seq(Records), NEW p, NEW own \in Seq(Nat), NEW n, NEW h \in BOOLEAN,
         NEW rec \in Records, Past(p, q, own, n, h), RecordFits(rec, own, n),
         \A k \in 1..Len(q) : Terminal(q[k]) => Probing(rec),
         rec.t = "settled" => Settles(p[Len(q)], rec.r, rec.ok)
  PROVE  \E r : /\ Past(r, Append(q, rec), own, n, h)
                /\ r[Len(q) + 1] = Viewed(p[Len(q)], rec, n, h)
                /\ \A k \in 0..Len(q) : r[k] = p[k]
<1> DEFINE m == Len(q)
           a == Append(q, rec)
           r == [k \in 0..(m + 1) |-> IF k <= m THEN p[k] ELSE Viewed(p[m], rec, n, h)]
<1>1. /\ m \in Nat /\ Len(a) = m + 1 /\ a \in Seq(Records)
      /\ \A k \in 1..m : a[k] = q[k]
      /\ a[m + 1] = rec
  BY LenProperties, AppendProperties
<1>2. \A k \in 0..m : r[k] = p[k]
  BY <1>1
<1>3. r[m + 1] = Viewed(p[m], rec, n, h)
  BY <1>1
<1>4. Viewed(p[m], rec, n, h) \in Views /\ \A k \in 0..m : p[k] \in Views
  BY PastTypes, ViewedTyped
<1>5. r \in [0..Len(a) -> Views]
  BY <1>1, <1>4
<1> HIDE DEF m, a, r
<1>6. ASSUME NEW k \in 1..Len(a)
      PROVE  r[k] = Viewed(r[k - 1], a[k], n, h)
  <2>1. CASE k = m + 1
    <3>1. k - 1 = m /\ m \in 0..m
      BY <1>1, <2>1
    <3> QED
      BY <1>1, <1>2, <1>3, <2>1, <3>1
  <2>2. CASE k \in 1..m
    <3>1. k \in 0..m /\ k - 1 \in 0..m
      BY <1>1, <2>2
    <3>2. p[k] = Viewed(p[k - 1], q[k], n, h)
      BY <2>2 DEF Past, Foreseen, m
    <3> QED
      BY <1>1, <1>2, <2>2, <3>1, <3>2
  <2> QED
    BY <1>1, <2>1, <2>2
<1>7. ASSUME NEW k \in 0..Len(a)
      PROVE  ViewFits(r[k], own, n, h)
  <2>1. \A j \in 0..m : ViewFits(p[j], own, n, h)
    BY DEF Past, m
  <2>2. ViewFits(Viewed(p[m], rec, n, h), own, n, h)
    BY <1>1, <1>4, <2>1, ViewFitsOn
  <2>3. k \in 0..m \/ k = m + 1
    BY <1>1
  <2> QED
    BY <1>2, <1>3, <2>1, <2>2, <2>3
<1>8. ASSUME NEW k \in 1..Len(a)
      PROVE  /\ RecordFits(a[k], own, n)
             /\ Terminal(a[k]) => \A j \in k + 1 .. Len(a) : Probing(a[j])
             /\ a[k].t = "settled" => Settles(r[k - 1], a[k].r, a[k].ok)
  <2>1. CASE k = m + 1
    <3>1. k - 1 = m /\ m \in 0..m /\ k + 1 .. Len(a) = {}
      BY <1>1, <2>1
    <3>2. r[k - 1] = p[m] /\ a[k] = rec
      BY <1>1, <1>2, <2>1, <3>1
    <3> QED
      BY <3>1, <3>2 DEF m
  <2>2. CASE k \in 1..m
    <3>1. k - 1 \in 0..m /\ \A j \in k + 1 .. Len(a) : j \in k + 1 .. m \/ j = m + 1
      BY <1>1, <2>2
    <3>2. /\ RecordFits(q[k], own, n)
          /\ Terminal(q[k]) => \A j \in k + 1 .. m : Probing(q[j])
          /\ q[k].t = "settled" => Settles(p[k - 1], q[k].r, q[k].ok)
      BY <2>2 DEF Past, m
    <3>3. a[k] = q[k] /\ r[k - 1] = p[k - 1]
      BY <1>1, <1>2, <2>2, <3>1
    <3>4. \A j \in k + 1 .. m : a[j] = q[j]
      BY <1>1, <2>2
    <3>5. Terminal(q[k]) => Probing(rec)
      BY <2>2 DEF m
    <3>6. Terminal(a[k]) => \A j \in k + 1 .. Len(a) : Probing(a[j])
      BY <1>1, <3>1, <3>2, <3>3, <3>4, <3>5
    <3> QED
      BY <3>2, <3>3, <3>6
  <2> QED
    BY <1>1, <2>1, <2>2
<1>9. Past(r, a, own, n, h)
  BY <1>5, <1>6, <1>7, <1>8 DEF Past, Foreseen
<1> QED
  BY <1>2, <1>3, <1>9 DEF a, m

LEMMA OneLess ==
  ASSUME NEW q \in Seq(Records), q # <<>>, NEW p, NEW own, NEW n, NEW h, Past(p, q, own, n, h)
  PROVE  \E r : /\ Past(r, Tail(q), own, n, h)
                /\ \A k \in 0..Len(Tail(q)) : r[k] = p[k + 1] /\ k + 1 \in 0..Len(q)
<1> DEFINE m == Len(q)
           a == Tail(q)
           r == [k \in 0..(m - 1) |-> p[k + 1]]
<1>1. /\ m \in Nat /\ m # 0 /\ Len(a) = m - 1 /\ a \in Seq(Records)
      /\ \A k \in 1..(m - 1) : a[k] = q[k + 1]
  BY EmptySeq, LenProperties, HeadTailProperties
<1>2. p \in [0..m -> Views] /\ \A k \in 1..m : p[k] = Viewed(p[k - 1], q[k], n, h)
  BY DEF Past, Foreseen
<1>3. \A k \in 0..(m - 1) : r[k] = p[k + 1] /\ k + 1 \in 0..m /\ k + 1 \in 1..m
  BY <1>1
<1>4. r \in [0..Len(a) -> Views]
  BY <1>1, <1>2
<1> HIDE DEF r, m, a
<1>5. ASSUME NEW k \in 1..Len(a)
      PROVE  r[k] = Viewed(r[k - 1], a[k], n, h)
  <2>1. k \in 0..(m - 1) /\ k - 1 \in 0..(m - 1) /\ k + 1 \in 1..m /\ (k - 1) + 1 = k /\ (k + 1) - 1 = k
    BY <1>1
  <2>2. r[k] = p[k + 1] /\ r[k - 1] = p[k] /\ a[k] = q[k + 1]
    BY <1>1, <1>3, <2>1
  <2> QED
    BY <1>2, <2>1, <2>2
<1>6. ASSUME NEW k \in 0..Len(a)
      PROVE  ViewFits(r[k], own, n, h)
  BY <1>1, <1>3 DEF Past, m
<1>7. ASSUME NEW k \in 1..Len(a)
      PROVE  /\ RecordFits(a[k], own, n)
             /\ Terminal(a[k]) => \A j \in k + 1 .. Len(a) : Probing(a[j])
             /\ a[k].t = "settled" => Settles(r[k - 1], a[k].r, a[k].ok)
  <2>1. /\ k - 1 \in 0..(m - 1) /\ k + 1 \in 1..m /\ (k - 1) + 1 = k /\ (k + 1) - 1 = k
        /\ \A j \in k + 1 .. Len(a) : j \in 1..(m - 1) /\ j + 1 \in (k + 1) + 1 .. m
    BY <1>1
  <2>2. r[k - 1] = p[k] /\ a[k] = q[k + 1]
    BY <1>1, <1>3, <2>1
  <2>3. /\ RecordFits(q[k + 1], own, n)
        /\ Terminal(q[k + 1]) => \A j \in (k + 1) + 1 .. m : Probing(q[j])
        /\ q[k + 1].t = "settled" => Settles(p[(k + 1) - 1], q[k + 1].r, q[k + 1].ok)
    BY <2>1 DEF Past, m
  <2>4. Terminal(a[k]) => \A j \in k + 1 .. Len(a) : Probing(a[j])
    BY <1>1, <2>1, <2>2, <2>3
  <2> QED
    BY <2>1, <2>2, <2>3, <2>4
<1>8. Past(r, a, own, n, h)
  BY <1>4, <1>5, <1>6, <1>7 DEF Past, Foreseen
<1> QED
  BY <1>1, <1>3, <1>8 DEF a, m

LEMMA RemovedShape ==
  ASSUME NEW S, NEW q \in Seq(S), NEW i \in 1..Len(q)
  PROVE  /\ RemoveAt(q, i) \in Seq(S) /\ Len(RemoveAt(q, i)) = Len(q) - 1
         /\ \A k \in 1..(Len(q) - 1) :
              /\ k < i => RemoveAt(q, i)[k] = q[k]
              /\ k >= i => RemoveAt(q, i)[k] = q[k + 1]
<1> DEFINE a == SubSeq(q, 1, i - 1)
           b == SubSeq(q, i + 1, Len(q))
<1>1. Len(q) \in Nat /\ i \in Nat /\ i - 1 \in Nat /\ i - 1 <= Len(q)
  BY LenProperties
<1>2. /\ a \in Seq(S) /\ Len(a) = i - 1 /\ \A k \in 1..(i - 1) : a[k] = q[k]
  BY <1>1, SubSeqProperties
<1>3. /\ b \in Seq(S) /\ Len(b) = Len(q) - i
      /\ \A k \in 1..(Len(q) - i) : b[k] = q[(i + 1) + k - 1]
  <2>1. CASE i = Len(q)
    <3>1. b \in Seq(S) /\ Len(b) = 0
      BY <1>1, <2>1, SubSeqProperties
    <3> QED
      BY <1>1, <2>1, <3>1
  <2>2. CASE i < Len(q)
    BY <1>1, <2>2, SubSeqProperties
  <2> QED
    BY <1>1, <2>1, <2>2
<1> HIDE DEF a, b
<1>4. RemoveAt(q, i) = a \o b
  BY DEF RemoveAt, a, b
<1>5. /\ a \o b \in Seq(S) /\ Len(a \o b) = Len(q) - 1
      /\ \A k \in 1..(Len(q) - 1) : (a \o b)[k] = IF k <= Len(a) THEN a[k] ELSE b[k - Len(a)]
  <2>1. Len(a) + Len(b) = Len(q) - 1
    BY <1>1, <1>2, <1>3
  <2> QED
    <3>1. /\ a \o b \in Seq(S) /\ Len(a \o b) = Len(a) + Len(b)
          /\ \A k \in 1..(Len(a) + Len(b)) :
               (a \o b)[k] = IF k <= Len(a) THEN a[k] ELSE b[k - Len(a)]
      BY <1>2, <1>3, ConcatProperties, Zenon
    <3> QED
      BY <2>1, <3>1
<1>6. ASSUME NEW k \in 1..(Len(q) - 1)
      PROVE  /\ k < i => (a \o b)[k] = q[k]
             /\ k >= i => (a \o b)[k] = q[k + 1]
  <2>1. CASE k < i
    BY <1>1, <1>2, <1>5, <2>1
  <2>2. CASE k >= i
    <3>1. k - (i - 1) \in 1..(Len(q) - i) /\ ~(k <= Len(a)) /\ (i + 1) + (k - (i - 1)) - 1 = k + 1
      BY <1>1, <1>2, <2>2
    <3> QED
      BY <1>1, <1>2, <1>3, <1>5, <2>2, <3>1
  <2> QED
    BY <1>1, <2>1, <2>2
<1> QED
  BY <1>4, <1>5, <1>6

LEMMA OneRemoved ==
  ASSUME NEW q \in Seq(Records), NEW p, NEW own, NEW n, NEW h \in BOOLEAN, Past(p, q, own, n, h),
         NEW i \in 1..Len(q), Probing(q[i])
  PROVE  \E r : /\ Past(r, RemoveAt(q, i), own, n, h)
                /\ r[0] = p[0] /\ r[Len(RemoveAt(q, i))] = p[Len(q)]
                /\ \A k \in 0..Len(RemoveAt(q, i)) : \E j \in 0..Len(q) : r[k] = p[j]
<1> DEFINE m == Len(q)
           a == RemoveAt(q, i)
           r == [k \in 0..(m - 1) |-> IF k < i THEN p[k] ELSE p[k + 1]]
<1>1. /\ m \in Nat /\ i \in 1..m /\ Len(a) = m - 1 /\ a \in Seq(Records) /\ m - 1 \in Nat
      /\ \A k \in 1..(m - 1) : /\ k < i => a[k] = q[k]
                               /\ k >= i => a[k] = q[k + 1]
  <2>1. m \in Nat /\ i \in 1..m /\ m - 1 \in Nat
    BY LenProperties
  <2>2. /\ a \in Seq(Records) /\ Len(a) = m - 1
        /\ \A k \in 1..(m - 1) : /\ k < i => a[k] = q[k]
                                 /\ k >= i => a[k] = q[k + 1]
    BY RemovedShape, Zenon
  <2> QED
    BY <2>1, <2>2
<1>2. /\ p \in [0..m -> Views] /\ \A k \in 1..m : p[k] = Viewed(p[k - 1], q[k], n, h)
      /\ \A k \in 0..m : ViewFits(p[k], own, n, h)
      /\ \A k \in 1..m :
            /\ RecordFits(q[k], own, n)
            /\ Terminal(q[k]) => \A j \in k + 1 .. m : Probing(q[j])
            /\ q[k].t = "settled" => Settles(p[k - 1], q[k].r, q[k].ok)
  BY DEF Past, Foreseen
<1>3. p[i] = p[i - 1]
  <2>1. i - 1 \in 0..m /\ p[i - 1] \in Views
    BY <1>1, <1>2
  <2> QED
    BY <1>2, <2>1, OtherViewed DEF Probing
<1>4. \A k \in 0..(m - 1) : /\ k < i => r[k] = p[k]
                            /\ k >= i => r[k] = p[k + 1]
  OBVIOUS
<1>5. r \in [0..Len(a) -> Views]
  BY <1>1, <1>2
<1> HIDE DEF r, m, a
<1>6. ASSUME NEW k \in 1..(m - 1)
      PROVE  \/ k < i /\ a[k] = q[k] /\ r[k] = p[k] /\ r[k - 1] = p[k - 1]
             \/ k >= i /\ a[k] = q[k + 1] /\ r[k] = p[k + 1] /\ r[k - 1] = p[k]
  <2>1. k \in 0..(m - 1) /\ k - 1 \in 0..(m - 1)
    BY <1>1
  <2>2. CASE k < i
    BY <1>1, <1>4, <2>1, <2>2
  <2>3. CASE k = i
    BY <1>1, <1>3, <1>4, <2>1, <2>3
  <2>4. CASE k > i
    <3>1. k - 1 >= i /\ (k - 1) + 1 = k /\ k >= i
      BY <1>1, <2>4
    <3> QED
      BY <1>1, <1>4, <2>1, <3>1
  <2> QED
    BY <1>1, <2>2, <2>3, <2>4
<1>7. ASSUME NEW k \in 1..(m - 1)
      PROVE  /\ r[k] = Viewed(r[k - 1], a[k], n, h)
             /\ RecordFits(a[k], own, n)
             /\ a[k].t = "settled" => Settles(r[k - 1], a[k].r, a[k].ok)
  <2>1. k \in 1..m /\ k + 1 \in 1..m /\ (k + 1) - 1 = k
    BY <1>1
  <2>2. CASE a[k] = q[k] /\ r[k] = p[k] /\ r[k - 1] = p[k - 1]
    BY <1>2, <2>1, <2>2
  <2>3. CASE a[k] = q[k + 1] /\ r[k] = p[k + 1] /\ r[k - 1] = p[k]
    BY <1>2, <2>1, <2>3
  <2> QED
    BY <1>6, <2>2, <2>3
<1>8. ASSUME NEW k \in 1..(m - 1), Terminal(a[k]), NEW j \in k + 1 .. (m - 1)
      PROVE  Probing(a[j])
  <2>1. /\ k \in 1..m /\ k + 1 \in 1..m /\ j \in 1..(m - 1) /\ j \in k + 1 .. m /\ j + 1 \in k + 1 .. m
        /\ j + 1 \in (k + 1) + 1 .. m /\ (k >= i => j >= i)
    BY <1>1
  <2>2. CASE k < i /\ a[k] = q[k]
    <3>1. \A l \in k + 1 .. m : Probing(q[l])
      BY <1>2, <1>8, <2>1, <2>2
    <3>2. a[j] = q[j] \/ a[j] = q[j + 1]
      BY <1>6, <2>1
    <3> QED
      BY <2>1, <3>1, <3>2
  <2>3. CASE k >= i /\ a[k] = q[k + 1]
    <3>1. \A l \in (k + 1) + 1 .. m : Probing(q[l])
      BY <1>2, <1>8, <2>1, <2>3
    <3>2. a[j] = q[j + 1]
      BY <1>1, <2>1, <2>3
    <3> QED
      BY <2>1, <3>1, <3>2
  <2> QED
    BY <1>6, <2>2, <2>3
<1>9. ASSUME NEW k \in 0..(m - 1)
      PROVE  \E j \in 0..m : r[k] = p[j]
  <2>1. k \in 0..m /\ k + 1 \in 0..m
    BY <1>1
  <2>2. k < i \/ k >= i
    BY <1>1
  <2> QED
    BY <1>4, <2>1, <2>2
<1>10. Past(r, a, own, n, h)
  <2>1. \A k \in 0..(m - 1) : ViewFits(r[k], own, n, h)
    BY <1>2, <1>9
  <2> QED
    BY <1>1, <1>5, <1>7, <1>8, <2>1 DEF Past, Foreseen
<1>11. r[0] = p[0] /\ r[m - 1] = p[m]
  <2>1. 0 \in 0..(m - 1) /\ 0 < i /\ m - 1 \in 0..(m - 1) /\ (m - 1) + 1 = m
    BY <1>1
  <2>2. CASE m - 1 < i
    <3>1. i = m
      BY <1>1, <2>2
    <3> QED
      BY <1>3, <1>4, <2>1, <2>2, <3>1
  <2>3. CASE m - 1 >= i
    BY <1>4, <2>1, <2>3
  <2> QED
    BY <1>1, <2>2, <2>3
<1> QED
  BY <1>1, <1>9, <1>10, <1>11 DEF a, m

(* Pi gives a further run to prompt n. *)
LEMMA RunsAreKept ==
  ASSUME NEW own \in Seq(Nat), NEW b \in Nat, NEW n
  PROVE  /\ Append(own, b) \in Seq(Nat) /\ Len(Append(own, b)) = Len(own) + 1
         /\ Append(own, b)[Len(own) + 1] = b
         /\ \A r : RunOf(own, n, r) => RunOf(Append(own, b), n, r)
         /\ \A text : TextOf(own, n, text) => TextOf(Append(own, b), n, text)
<1>1. /\ Append(own, b) \in Seq(Nat) /\ Len(Append(own, b)) = Len(own) + 1
      /\ Append(own, b)[Len(own) + 1] = b /\ Len(own) \in Nat
      /\ \A k \in 1..Len(own) : Append(own, b)[k] = own[k]
  BY AppendProperties, LenProperties
<1>2. \A r : RunOf(own, n, r) => RunOf(Append(own, b), n, r)
  BY <1>1 DEF RunOf
<1> QED
  BY <1>1, <1>2 DEF TextOf

LEMMA PastIsKept ==
  ASSUME NEW own \in Seq(Nat), NEW b \in Nat, NEW n, NEW h, NEW p, NEW q, Past(p, q, own, n, h)
  PROVE  Past(p, q, Append(own, b), n, h)
<1>1. ASSUME NEW k \in 0..Len(q)
      PROVE  ViewFits(p[k], Append(own, b), n, h)
  <2>1. ViewFits(p[k], own, n, h)
    BY DEF Past
  <2> QED
    BY <2>1, RunsAreKept DEF ViewFits
<1>2. ASSUME NEW k \in 1..Len(q)
      PROVE  RecordFits(q[k], Append(own, b), n)
  <2>1. RecordFits(q[k], own, n)
    BY DEF Past
  <2> QED
    BY <2>1, RunsAreKept DEF RecordFits
<1> QED
  BY <1>1, <1>2 DEF Past

(* The watchdog's answer is taken out of what is unread. *)
LEMMA Unprobed ==
  ASSUME NEW q \in Seq(Records), \A i, j \in ProbeAnswers(q) : i = j
  PROVE  /\ WithoutProbe(q) \in Seq(Records) /\ ProbeAnswers(WithoutProbe(q)) = {}
         /\ \A k \in 1..Len(WithoutProbe(q)) : \E j \in 1..Len(q) : WithoutProbe(q)[k] = q[j]
         /\ (\A k \in 1..Len(q) : Probing(q[k])) => WithoutProbe(q) = <<>>
<1>1. Len(q) \in Nat /\ DOMAIN q = 1..Len(q)
  BY LenProperties
<1>2. CASE ProbeAnswers(q) = {}
  <2>1. WithoutProbe(q) = q
    BY <1>2 DEF WithoutProbe
  <2>2. (\A k \in 1..Len(q) : Probing(q[k])) => Len(q) = 0
    BY <1>1, <1>2 DEF ProbeAnswers, Probing
  <2> QED
    BY <1>1, <1>2, <2>1, <2>2, EmptySeq
<1>3. CASE ProbeAnswers(q) # {}
  <2>1. PICK i \in ProbeAnswers(q) : WithoutProbe(q) = RemoveAt(q, i)
    BY <1>3 DEF WithoutProbe
  <2>2. i \in 1..Len(q) /\ \A k \in 1..Len(q) : q[k].t = "state" => k = i
    BY <1>1, <2>1 DEF ProbeAnswers
  <2> DEFINE a == RemoveAt(q, i)
  <2>3. /\ a \in Seq(Records) /\ Len(a) = Len(q) - 1 /\ DOMAIN a = 1..(Len(q) - 1)
        /\ \A k \in 1..(Len(q) - 1) : /\ k < i => a[k] = q[k]
                                      /\ k >= i => a[k] = q[k + 1]
    <3>1. /\ a \in Seq(Records) /\ Len(a) = Len(q) - 1
          /\ \A k \in 1..(Len(q) - 1) : /\ k < i => a[k] = q[k]
                                        /\ k >= i => a[k] = q[k + 1]
      BY <2>2, RemovedShape, Zenon
    <3> QED
      BY <3>1, LenProperties
  <2> HIDE DEF a
  <2>4. ASSUME NEW k \in 1..Len(a)
        PROVE  \E j \in 1..Len(q) : a[k] = q[j] /\ j # i
    <3>1. k \in 1..(Len(q) - 1) /\ k \in 1..Len(q) /\ k + 1 \in 1..Len(q)
      BY <1>1, <2>3
    <3>2. CASE k < i
      BY <2>2, <2>3, <3>1, <3>2
    <3>3. CASE k >= i
      <4>1. k + 1 # i
        BY <2>2, <3>1, <3>3
      <4> QED
        BY <2>3, <3>1, <3>3, <4>1
    <3> QED
      BY <1>1, <2>2, <3>1, <3>2, <3>3
  <2>5. ProbeAnswers(a) = {}
    BY <2>2, <2>3, <2>4 DEF ProbeAnswers
  <2>6. (\A k \in 1..Len(q) : Probing(q[k])) => a = <<>>
    <3>1. SUFFICES ASSUME \A k \in 1..Len(q) : Probing(q[k])
                   PROVE  Len(a) = 0
      BY <2>3, EmptySeq
    <3>2. \A k \in 1..Len(q) : k = i
      BY <2>2, <3>1 DEF Probing
    <3>3. 1 \in 1..Len(q) /\ Len(q) \in 1..Len(q)
      BY <1>1, <2>2
    <3> QED
      BY <1>1, <2>3, <3>2, <3>3
  <2> QED
    BY <2>1, <2>3, <2>4, <2>5, <2>6 DEF a
<1> QED
  BY <1>2, <1>3

LEMMA UnprobedPast ==
  ASSUME NEW q \in Seq(Records), \A i, j \in ProbeAnswers(q) : i = j,
         NEW p, NEW own, NEW n, NEW h \in BOOLEAN, Past(p, q, own, n, h)
  PROVE  \E r : /\ Past(r, WithoutProbe(q), own, n, h)
                /\ r[0] = p[0] /\ r[Len(WithoutProbe(q))] = p[Len(q)]
                /\ \A k \in 0..Len(WithoutProbe(q)) : \E j \in 0..Len(q) : r[k] = p[j]
<1>1. CASE ProbeAnswers(q) = {}
  <2>1. WithoutProbe(q) = q
    BY <1>1 DEF WithoutProbe
  <2> QED
    BY <2>1
<1>2. CASE ProbeAnswers(q) # {}
  <2>1. PICK i \in ProbeAnswers(q) : WithoutProbe(q) = RemoveAt(q, i)
    BY <1>2 DEF WithoutProbe
  <2>2. i \in 1..Len(q) /\ Probing(q[i])
    BY <2>1, LenProperties DEF ProbeAnswers, Probing
  <2> QED
    BY <2>1, <2>2, OneRemoved
<1> QED
  BY <1>1, <1>2

LEMMA AppendedProbes ==
  ASSUME NEW q \in Seq(Records), NEW rec \in Records
  PROVE  /\ Append(q, rec) \in Seq(Records)
         /\ ~Probing(rec) => ProbeAnswers(Append(q, rec)) = ProbeAnswers(q)
         /\ ProbeAnswers(q) = {} => ProbeAnswers(Append(q, rec)) \subseteq {Len(q) + 1}
<1>1. /\ Append(q, rec) \in Seq(Records) /\ Len(q) \in Nat /\ DOMAIN q = 1..Len(q)
      /\ DOMAIN Append(q, rec) = 1..(Len(q) + 1)
      /\ Append(q, rec)[Len(q) + 1] = rec
      /\ \A k \in 1..Len(q) : Append(q, rec)[k] = q[k]
  BY AppendProperties, LenProperties
<1>2. \A k \in 1..(Len(q) + 1) : k \in 1..Len(q) \/ k = Len(q) + 1
  BY <1>1
<1>3. \A k \in 1..Len(q) : k \in 1..(Len(q) + 1)
  BY <1>1
<1> QED
  BY <1>1, <1>2, <1>3 DEF ProbeAnswers, Probing

LEMMA EmittedShape ==
  ASSUME NEW q \in Seq(Records), NEW a \in Records, NEW b \in Records, NEW c \in Records
  PROVE  /\ q \o <<a>> = Append(q, a)
         /\ q \o <<a, b>> = Append(Append(q, a), b)
         /\ q \o <<a, b, c>> = Append(Append(Append(q, a), b), c)
OBVIOUS

(* Record rec may follow the records q, with child c once it is written. *)
Extends(p, q, rec, c, own, n, h) ==
    /\ Past(p, q, own, n, h) /\ RecordFits(rec, own, n)
    /\ \A k \in 1..Len(q) : ~Terminal(q[k])
    /\ rec.t = "settled" => Settles(p[Len(q)], rec.r, rec.ok)
    /\ Terminal(rec) => Resting(c)
    /\ ViewOfChild(Viewed(p[Len(q)], rec, n, h), c, own, n)

LEMMA FollowOn ==
  ASSUME NEW q \in Seq(Records), NEW p, NEW own \in Seq(Nat), NEW n, NEW h \in BOOLEAN,
         NEW c, NEW rec \in Records, Extends(p, q, rec, c, own, n, h)
  PROVE  \E r : /\ Follows(r, Append(q, rec), c, <<>>, own, n, h) /\ r[0] = p[0]
                /\ r[Len(q) + 1] = Viewed(p[Len(q)], rec, n, h)
<1> USE DEF Extends
<1>1. PICK r : /\ Past(r, Append(q, rec), own, n, h)
               /\ r[Len(q) + 1] = Viewed(p[Len(q)], rec, n, h)
               /\ \A k \in 0..Len(q) : r[k] = p[k]
  <2>1. \A k \in 1..Len(q) : Terminal(q[k]) => Probing(rec)
    OBVIOUS
  <2> QED
    BY <2>1, OneMore
<1>2. /\ Len(Append(q, rec)) = Len(q) + 1 /\ Len(q) \in Nat
      /\ Append(q, rec)[Len(q) + 1] = rec
      /\ \A k \in 1..Len(q) : Append(q, rec)[k] = q[k]
  BY AppendProperties, LenProperties
<1>3. Closed(Append(q, rec), c)
  <2>1. \A k \in 1..(Len(q) + 1) : k \in 1..Len(q) \/ k = Len(q) + 1
    BY <1>2
  <2> QED
    BY <1>2, <2>1 DEF Closed
<1>4. Untaken(r, Append(q, rec), c, n, <<>>)
  BY DEF Untaken
<1>5. 0 \in 0..Len(q)
  BY <1>2
<1> QED
  BY <1>1, <1>2, <1>3, <1>4, <1>5 DEF Follows

-----------------------------------------------------------------------------
(* Pi's steps. *)

(* What a step of Pi leaves of the invariant to show: its variables' types *)
(* and what the records it wrote lead to.                                  *)
PiHolds ==
    /\ child' \in Children /\ stdout' \in Seq(Records) /\ stdin' \in Seq(Nat)
    /\ owner' \in Seq(Nat) /\ ProbeAnswers(stdout') = ProbeAnswers(stdout) /\ probe' = probe
    /\ \A n, text : TextOf(owner, n, text) => TextOf(owner', n, text)
    /\ RunKnown' /\ child'.slipped = child.slipped
    /\ Exited' => stdin' = <<>>
    /\ ~child.slipped => child'.queue = <<>>
    /\ ~child.slipped /\ ~Reading => stdin' = <<>> /\ stdout' = <<>> /\ Resting(child')
    /\ ~child.slipped /\ Reading => StreamFollowed'

LEMMA PiStepHolds == TurnInv /\ PiUnchanged /\ PiHolds => TurnInv'
<1> SUFFICES ASSUME TurnInv, PiUnchanged, PiHolds
             PROVE  TurnInv'
  OBVIOUS
<1>0. UNCHANGED <<turn, parse, outbox, isolated, kinds, said, relay>>
  BY DEF PiUnchanged
<1>1. TypeOK'
  BY <1>0 DEF TurnInv, TypeOK, PiHolds, ProbeOnce
<1>2. ProbeOnce' /\ TurnsApart' /\ RunKnown'
  BY <1>0 DEF TurnInv, ProbeOnce, TurnsApart, PiHolds, Reading, Human, Exited
<1>3. NothingOwed'
  BY <1>0 DEF TurnInv, NothingOwed, PiHolds, Reading
<1>4. Answers'
  BY <1>0 DEF TurnInv, Answers, Answer, PiHolds, Reading
<1>5. StreamFollowed'
  <2>1. CASE ~child.slipped /\ Reading
    BY <2>1 DEF PiHolds
  <2>2. CASE child.slipped \/ ~Reading
    BY <1>0, <2>2 DEF PiHolds, StreamFollowed, Reading
  <2> QED
    BY <2>1, <2>2
<1> QED
  BY <1>1, <1>2, <1>3, <1>4, <1>5 DEF TurnInv

(* The child, and what is unread, of a turn that reads. *)
LEMMA Reader ==
  ASSUME TurnInv
  PROVE  /\ child \in Children /\ stdout \in Seq(Records) /\ stdin \in Seq(Nat)
         /\ owner \in Seq(Nat) /\ turn.n \in Nat /\ Human \in BOOLEAN
         /\ child.slipped \in BOOLEAN
         /\ ~child.slipped /\ (stdin # <<>> \/ ~Resting(child)) => Reading
         /\ ~child.slipped => child.queue = <<>>
         /\ ~child.slipped /\ Reading =>
              \E p : /\ Past(p, stdout, owner, turn.n, Human)
                     /\ Closed(stdout, child)
                     /\ Untaken(p, stdout, child, turn.n, stdin)
                     /\ ViewOfChild(p[Len(stdout)], child, owner, turn.n)
                     /\ p[0] = [s |-> parse, acc |-> relay.acc]
BY DEF TurnInv, TypeOK, Human, NothingOwed, StreamFollowed, Follows, Children

(* The views of what is unread after a step of Pi. *)
LEMMA StreamStep ==
  ASSUME PiUnchanged, NEW q, NEW own, NEW n, NEW h, NEW c, NEW r,
         Follows(r, q, c, <<>>, own, n, h), r[0] = [s |-> parse, acc |-> relay.acc],
         stdout' = q, owner' = own, child' = c, stdin' = <<>>, n = turn.n, h = Human
  PROVE  StreamFollowed'
<1>1. turn' = turn /\ parse' = parse /\ relay' = relay /\ Human' = Human
  BY DEF PiUnchanged, Human
<1> QED
  BY <1>1 DEF StreamFollowed

Grows == owner' = owner \/ \E b \in Nat : owner' = Append(owner, b)

LEMMA GrowsFacts ==
  ASSUME TurnInv, Grows
  PROVE  /\ owner' \in Seq(Nat)
         /\ \A n, text : TextOf(owner, n, text) => TextOf(owner', n, text)
         /\ \A p, q, n, h : Past(p, q, owner, n, h) => Past(p, q, owner', n, h)
<1>1. owner \in Seq(Nat)
  BY Reader
<1>2. CASE owner' = owner
  BY <1>1, <1>2
<1>3. ASSUME NEW b \in Nat, owner' = Append(owner, b)
      PROVE  /\ owner' \in Seq(Nat)
             /\ \A n, text : TextOf(owner, n, text) => TextOf(owner', n, text)
             /\ \A p, q, n, h : Past(p, q, owner, n, h) => Past(p, q, owner', n, h)
  BY <1>1, <1>3, RunsAreKept, PastIsKept
<1> QED
  BY <1>2, <1>3 DEF Grows

(* Pi writes one record. *)
LEMMA OneRecordHolds ==
  ASSUME TurnInv, PiUnchanged, NEW rec \in Records, ~Probing(rec),
         stdout' = Append(stdout, rec), UNCHANGED <<stdin, probe>>, Grows,
         child' \in Children, child'.slipped = child.slipped, child'.queue = child.queue,
         child.st \in {"running", "dialog", "ended"}, child'.st # "dead", RunKnown',
         \A v \in Views :
           Reading /\ ~child.slipped /\ ViewOfChild(v, child, owner, turn.n)
           /\ ViewFits(v, owner, turn.n, Human) =>
           /\ RecordFits(rec, owner', turn.n)
           /\ rec.t = "settled" => Settles(v, rec.r, rec.ok)
           /\ Terminal(rec) => Resting(child')
           /\ ViewOfChild(Viewed(v, rec, turn.n, Human), child', owner', turn.n)
  PROVE  TurnInv'
<1>1. ~Resting(child) /\ stdout' \in Seq(Records)
      /\ ProbeAnswers(stdout') = ProbeAnswers(stdout)
  BY Reader, AppendedProbes DEF Resting
<1>2. ASSUME ~child.slipped, Reading
      PROVE  StreamFollowed'
  <2>1. PICK p : /\ Past(p, stdout, owner, turn.n, Human)
                 /\ Closed(stdout, child)
                 /\ Untaken(p, stdout, child, turn.n, stdin)
                 /\ ViewOfChild(p[Len(stdout)], child, owner, turn.n)
                 /\ p[0] = [s |-> parse, acc |-> relay.acc]
    BY <1>2, Reader
  <2>2. stdin = <<>> /\ \A k \in 1..Len(stdout) : ~Terminal(stdout[k])
    BY <1>1, <2>1 DEF Untaken, Closed
  <2>3. stdout \in Seq(Records) /\ owner' \in Seq(Nat) /\ Human \in BOOLEAN
    BY Reader, GrowsFacts
  <2>4. p[Len(stdout)] \in Views /\ ViewFits(p[Len(stdout)], owner, turn.n, Human)
    BY <2>1, <2>3, PastTypes DEF Past
  <2>5. Past(p, stdout, owner', turn.n, Human)
    BY <2>1, GrowsFacts
  <2>6. Extends(p, stdout, rec, child', owner', turn.n, Human)
    BY <1>2, <2>1, <2>2, <2>4, <2>5 DEF Extends
  <2>7. PICK c, n : c = child' /\ n = turn.n
    OBVIOUS
  <2>8. PICK h \in BOOLEAN, q \in Seq(Records), own \in Seq(Nat) :
          h = Human /\ q = stdout /\ own = owner'
    BY <2>3
  <2>9. Extends(p, q, rec, c, own, n, h)
    BY <2>6, <2>7, <2>8
  <2>10. PICK r : Follows(r, Append(q, rec), c, <<>>, own, n, h) /\ r[0] = p[0]
    BY <2>9, FollowOn
  <2> QED
    BY <2>1, <2>2, <2>7, <2>8, <2>10, StreamStep
<1>3. PiHolds
  BY <1>1, <1>2, Reader, GrowsFacts DEF PiHolds, Exited
<1> QED
  BY <1>3, PiStepHolds

LEMMA ChildShape ==
  ASSUME TurnInv
  PROVE  /\ child.st \in {"idle", "running", "dialog", "ended", "hung", "dead"}
         /\ child.kind \in Kinds /\ child.retry \in BOOLEAN /\ child.err \in BOOLEAN
         /\ child.deltas \in Nat /\ child.queue \in Seq(Nat)
         /\ LastRun \in Nat
         /\ child.st \in {"running", "dialog"} => ~child.err
         /\ child.st \in {"running", "dialog", "ended"} =>
              LastRun \in 1..LastRun /\ LastRun # 0 /\ owner[LastRun] \in Nat
<1>1. child \in Children /\ owner \in Seq(Nat) /\ RunKnown
  BY DEF TurnInv, TypeOK
<1>2. owner # <<>> => LastRun \in 1..LastRun /\ LastRun # 0 /\ owner[LastRun] \in Nat
  BY <1>1, LenProperties, EmptySeq, ElementOfSeq DEF LastRun
<1> QED
  BY <1>1, <1>2, LenProperties DEF Children, RunKnown, LastRun

LEMMA StreamsHold == TurnInv /\ PiStreams => TurnInv'
<1> SUFFICES ASSUME TurnInv, PiStreams
             PROVE  TurnInv'
  OBVIOUS
<1> DEFINE rec == [t |-> "delta", r |-> LastRun]
<1>1. /\ child.st = "running" /\ PiUnchanged /\ stdout' = stdout \o <<rec>>
      /\ child' = [child EXCEPT !.deltas = @ + 1] /\ UNCHANGED <<stdin, owner, probe>>
  BY DEF PiStreams, Emit
<1>2. rec \in Records /\ ~Probing(rec) /\ stdout' = Append(stdout, rec)
  BY <1>1, ChildShape, Reader DEF Records, Probing
<1>3. /\ child' \in Children /\ child'.slipped = child.slipped /\ child'.queue = child.queue
      /\ child'.st = "running" /\ RunKnown'
  <2>1. PICK d \in Nat : d = child.deltas + 1
    BY ChildShape
  <2>2. child' = [child EXCEPT !.deltas = d]
    BY <1>1, <2>1
  <2>3. /\ child' \in Children /\ child'.slipped = child.slipped /\ child'.queue = child.queue
        /\ child'.st = "running" /\ child'.err = child.err
    BY <1>1, <2>2, Reader DEF Children
  <2>4. RunKnown'
    BY <1>1, <2>3 DEF RunKnown, TurnInv
  <2> QED
    BY <2>3, <2>4
<1>4. ASSUME NEW v \in Views, ViewOfChild(v, child, owner, turn.n),
             ViewFits(v, owner, turn.n, Human)
      PROVE  /\ RecordFits(rec, owner, turn.n) /\ rec.t # "settled" /\ ~Terminal(rec)
             /\ ViewOfChild(Viewed(v, rec, turn.n, Human), child', owner, turn.n)
  <2>1. /\ v.s.life /\ RunOf(owner, turn.n, LastRun) /\ ToSet(v.acc) \subseteq {LastRun}
        /\ v.acc \in Seq(Nat) /\ LastRun \in Nat
    BY <1>1, <1>4, ViewShape, ChildShape DEF ViewOfChild, LastRun
  <2>2. PICK w : w = Viewed(v, rec, turn.n, Human)
    OBVIOUS
  <2>3. /\ w.acc = Append(v.acc, LastRun) \/ w.acc = v.acc
        /\ w.s.cur /\ w.s.life = v.s.life
    <3>1. PICK h \in BOOLEAN : h = Human
      BY Reader
    <3>2. rec.t = "delta" /\ rec.r = LastRun /\ rec.r \in Nat
      BY <2>1
    <3>3. w = Viewed(v, rec, turn.n, h)
      BY <2>2, <3>1
    <3> HIDE DEF rec
    <3> QED
      BY <3>2, <3>3, DeltaViewed
  <2>4. ToSet(w.acc) \subseteq {LastRun}
    BY <2>1, <2>3, AppendedSet
  <2>5. ViewOfChild(w, child', owner, turn.n)
    BY <1>3, <2>1, <2>3, <2>4 DEF ViewOfChild, LastRun
  <2> QED
    BY <2>1, <2>2, <2>5 DEF RecordFits, Terminal
<1> HIDE DEF rec
<1> QED
  BY <1>1, <1>2, <1>3, <1>4, OneRecordHolds DEF Grows

LEMMA DialogHolds == TurnInv /\ PiAsksDialog => TurnInv'
<1> SUFFICES ASSUME TurnInv, PiAsksDialog
             PROVE  TurnInv'
  OBVIOUS
<1> DEFINE rec == [t |-> "dialog"]
<1>1. /\ child.st = "running" /\ PiUnchanged /\ stdout' = stdout \o <<rec>>
      /\ child' = [child EXCEPT !.st = "dialog"] /\ UNCHANGED <<stdin, owner, probe>>
  BY DEF PiAsksDialog, Emit
<1>2. rec \in Records /\ ~Probing(rec) /\ stdout' = Append(stdout, rec)
  BY <1>1, ChildShape, Reader DEF Records, Probing
<1>3. /\ child' \in Children /\ child'.slipped = child.slipped /\ child'.queue = child.queue
      /\ child'.st = "dialog" /\ RunKnown'
  BY <1>1, Reader DEF Children, RunKnown, TurnInv
<1>4. ASSUME NEW v \in Views, ViewOfChild(v, child, owner, turn.n)
      PROVE  /\ RecordFits(rec, owner, turn.n) /\ rec.t # "settled" /\ ~Terminal(rec)
             /\ ViewOfChild(Viewed(v, rec, turn.n, Human), child', owner, turn.n)
  <2>1. Viewed(v, rec, turn.n, Human) = v
    BY Reader, OtherViewed
  <2> QED
    BY <1>1, <1>3, <1>4, <2>1 DEF ViewOfChild, RecordFits, Terminal
<1> HIDE DEF rec
<1> QED
  BY <1>1, <1>2, <1>3, <1>4, OneRecordHolds DEF Grows

LEMMA EndHolds == TurnInv /\ PiEndsRun => TurnInv'
<1> SUFFICES ASSUME TurnInv, PiEndsRun
             PROVE  TurnInv'
  OBVIOUS
<1>1. PICK kind \in Kinds, retry \in BOOLEAN :
        /\ retry => kind \in {"error", "overflow"}
        /\ child' = [child EXCEPT !.st = "ended", !.kind = kind, !.retry = retry]
        /\ Emit(<<[t |-> "end", r |-> LastRun, kind |-> kind, retry |-> retry]>>)
  BY DEF PiEndsRun, Kinds
<1> DEFINE rec == [t |-> "end", r |-> LastRun, kind |-> kind, retry |-> retry]
<1>2. /\ child.st = "running" /\ PiUnchanged /\ stdout' = stdout \o <<rec>>
      /\ UNCHANGED <<stdin, owner, probe>>
  BY <1>1 DEF PiEndsRun, Emit
<1>3. rec \in Records /\ ~Probing(rec) /\ stdout' = Append(stdout, rec)
  BY <1>2, ChildShape, Reader DEF Records, Probing
<1>4. /\ child' \in Children /\ child'.slipped = child.slipped /\ child'.queue = child.queue
      /\ child'.st = "ended" /\ child'.kind = kind /\ child'.err = child.err /\ RunKnown'
  BY <1>1, <1>2, Reader DEF Children, RunKnown, TurnInv
<1>5. ASSUME NEW v \in Views, ViewOfChild(v, child, owner, turn.n),
             ViewFits(v, owner, turn.n, Human)
      PROVE  /\ RecordFits(rec, owner, turn.n) /\ rec.t # "settled" /\ ~Terminal(rec)
             /\ ViewOfChild(Viewed(v, rec, turn.n, Human), child', owner, turn.n)
  <2>1. /\ v.s.life /\ RunOf(owner, turn.n, LastRun) /\ ToSet(v.acc) \subseteq {LastRun}
        /\ v.acc # NoText => v.s.cur
        /\ ~Human => v.acc = NoText
        /\ v.acc \in Seq(Nat) /\ LastRun \in Nat /\ LastRun # 0
    BY <1>2, <1>5, ViewShape, ChildShape DEF ViewOfChild, LastRun, ViewFits
  <2>2. PICK w : w = Viewed(v, rec, turn.n, Human)
    OBVIOUS
  <2>3. /\ Human /\ retry => w.acc = NoText
        /\ ~(Human /\ retry) => w.acc = v.acc
        /\ w.s.pend = Outcome(rec) /\ w.s.life /\ w.s.comp = v.s.cur
        /\ w.s.length <=> /\ v.s.length \/ kind = "length"
                          /\ ~(Failed(rec) \/ kind = "visible")
        /\ w.s.reset <=> Failed(rec) /\ retry
    <3>1. rec.t = "end" /\ rec.r \in Nat /\ rec.kind = kind /\ rec.retry = retry
      BY <2>1
    <3> QED
      BY <2>2, <3>1, Reader, EndViewed
  <2>4. ToSet(w.acc) \subseteq {LastRun}
    BY <2>1, <2>3, TextFacts
  <2>5. w.acc # NoText => w.s.comp /\ ~w.s.reset
    BY <2>1, <2>3
  <2>6. Settles(w, LastRun, kind = "visible" /\ ~child.err)
    <3>1. CASE kind = "visible"
      <4>1. w.s.pend = <<LastRun>> /\ ~w.s.length
        BY <2>3, <3>1 DEF Outcome, Failed
      <4>2. kind = "visible" /\ ~child.err
        BY <1>2, <3>1, ChildShape
      <4> QED
        BY <2>1, <2>4, <4>1, <4>2 DEF Settles
    <3>2. CASE kind # "visible"
      <4>1. w.s.pend \in {NoText, ErrorText}
        BY <2>3, <3>2 DEF Outcome, Failed
      <4> QED
        BY <3>2, <4>1 DEF Settles
    <3> QED
      BY <3>1, <3>2
  <2>7. ViewOfChild(w, child', owner, turn.n)
    BY <1>4, <2>1, <2>3, <2>4, <2>5, <2>6 DEF ViewOfChild, LastRun
  <2> QED
    BY <2>1, <2>2, <2>7 DEF RecordFits, Terminal
<1> HIDE DEF rec
<1> QED
  BY <1>2, <1>3, <1>4, <1>5, OneRecordHolds DEF Grows


LEMMA ErrorHolds == TurnInv /\ PiReportsError => TurnInv'
<1> SUFFICES ASSUME TurnInv, PiReportsError
             PROVE  TurnInv'
  OBVIOUS
<1> DEFINE rec == [t |-> "error"]
<1>1. /\ child.st = "ended" /\ PiUnchanged /\ stdout' = stdout \o <<rec>>
      /\ child' = [child EXCEPT !.err = TRUE] /\ UNCHANGED <<stdin, owner, probe>>
  BY DEF PiReportsError, Emit
<1>2. rec \in Records /\ ~Probing(rec) /\ stdout' = Append(stdout, rec)
  BY <1>1, Reader DEF Records, Probing
<1>3. /\ child' \in Children /\ child'.slipped = child.slipped /\ child'.queue = child.queue
      /\ child'.st = "ended" /\ child'.err /\ child'.kind = child.kind /\ RunKnown'
  BY <1>1, Reader DEF Children, RunKnown, TurnInv
<1>4. ASSUME NEW v \in Views, ViewOfChild(v, child, owner, turn.n)
      PROVE  /\ RecordFits(rec, owner, turn.n) /\ rec.t # "settled" /\ ~Terminal(rec)
             /\ ViewOfChild(Viewed(v, rec, turn.n, Human), child', owner, turn.n)
  <2>1. PICK h \in BOOLEAN : h = Human
    BY Reader
  <2>2. PICK w : w = Viewed(v, rec, turn.n, h)
    OBVIOUS
  <2>3. /\ w.acc = v.acc /\ w.s.pend = ErrorText /\ w.s.life = v.s.life
        /\ w.s.comp = v.s.comp /\ w.s.reset = v.s.reset
    BY <2>2, FailureViewed
  <2>4. ~(child'.kind = "visible" /\ ~child'.err)
    BY <1>3
  <2>5. ViewOfChild(w, child', owner, turn.n)
    BY <1>1, <1>3, <1>4, <2>3, <2>4 DEF ViewOfChild, Settles
  <2> QED
    BY <2>1, <2>2, <2>5 DEF RecordFits, Terminal
<1> HIDE DEF rec
<1> QED
  BY <1>1, <1>2, <1>3, <1>4, OneRecordHolds DEF Grows

LEMMA SettlesHold == TurnInv /\ PiSettles => TurnInv'
<1> SUFFICES ASSUME TurnInv, PiSettles
             PROVE  TurnInv'
  OBVIOUS
<1>1. PICK ok \in BOOLEAN : ok <=> child.kind = "visible" /\ ~child.err
  OBVIOUS
<1> DEFINE rec == [t |-> "settled", r |-> LastRun, ok |-> ok]
<1>2. /\ child.st = "ended" /\ PiUnchanged /\ stdout' = stdout \o <<rec>>
      /\ child' = [AtRest EXCEPT !.st = "idle"] /\ UNCHANGED <<stdin, owner, probe>>
  BY <1>1 DEF PiSettles, Emit
<1>3. rec \in Records /\ ~Probing(rec) /\ stdout' = Append(stdout, rec)
  BY <1>2, Reader, ChildShape DEF Records, Probing
<1>4. /\ child' \in Children /\ child'.slipped = child.slipped /\ child'.queue = child.queue
      /\ child'.st = "idle" /\ RunKnown'
  BY <1>2, Reader DEF Children, RunKnown, AtRest, Kinds
<1>5. ASSUME NEW v \in Views, ViewOfChild(v, child, owner, turn.n)
      PROVE  /\ RecordFits(rec, owner, turn.n)
             /\ Settles(v, rec.r, rec.ok) /\ Resting(child')
             /\ ViewOfChild(Viewed(v, rec, turn.n, Human), child', owner, turn.n)
  <2>1. Settles(v, LastRun, child.kind = "visible" /\ ~child.err)
    BY <1>2, <1>5 DEF ViewOfChild, LastRun
  <2>2. Settles(v, LastRun, ok)
    BY <1>1, <2>1 DEF Settles
  <2> QED
    BY <1>4, <2>2 DEF ViewOfChild, RecordFits, Resting
<1> HIDE DEF rec
<1> QED
  BY <1>2, <1>3, <1>4, <1>5, OneRecordHolds DEF Grows

(* A run of prompt n starts: what an earlier run said is dropped. *)
LEMMA StartedShape ==
  ASSUME NEW own \in Seq(Nat), NEW n \in Nat, NEW rec, rec = StartRecord(Len(own) + 1)
  PROVE  /\ rec \in Records /\ rec.t = "start" /\ ~Probing(rec) /\ ~Terminal(rec)
         /\ RecordFits(rec, Append(own, n), n) /\ RunOf(Append(own, n), n, Len(own) + 1)
<1>1. Len(own) + 1 \in Nat
  BY LenProperties
<1>2. Append(own, n)[Len(own) + 1] = n /\ Len(Append(own, n)) = Len(own) + 1
      /\ Len(own) + 1 \in 1..(Len(own) + 1)
  BY <1>1, RunsAreKept, LenProperties
<1> QED
  BY <1>1, <1>2 DEF StartRecord, Records, Probing, Terminal, RecordFits, RunOf

LEMMA StartedFits ==
  ASSUME NEW own \in Seq(Nat), NEW n \in Nat, NEW v \in Views, NEW h \in BOOLEAN,
         ~h => v.acc = NoText, v.acc # NoText => v.s.comp /\ ~v.s.reset,
         NEW c, c.st = "running", NEW rec, rec = StartRecord(Len(own) + 1)
  PROVE  ViewOfChild(Viewed(v, rec, n, h), c, Append(own, n), n)
<1>1. PICK w : w = Viewed(v, rec, n, h)
  OBVIOUS
<1>2. w.s.life /\ w.acc = NoText
  BY <1>1, StartViewed, StartedShape
<1>3. RunOf(Append(own, n), n, Len(Append(own, n)))
  BY RunsAreKept, StartedShape
<1>4. ViewOfChild(w, c, Append(own, n), n)
  BY <1>2, <1>3, TextFacts DEF ViewOfChild
<1> QED
  BY <1>1, <1>4

LEMMA ContinuesHold == TurnInv /\ PiContinues => TurnInv'
<1> SUFFICES ASSUME TurnInv, PiContinues
             PROVE  TurnInv'
  OBVIOUS
<1>1. PICK rec : rec = StartRecord(LastRun + 1)
  OBVIOUS
<1>2. PICK b \in Nat : b = owner[LastRun]
  BY ChildShape DEF PiContinues
<1>3. /\ child.st = "ended" /\ PiUnchanged /\ stdout' = stdout \o <<rec>>
      /\ child' = [AtRest EXCEPT !.st = "running"] /\ owner' = Append(owner, b)
      /\ UNCHANGED <<stdin, probe>>
  BY <1>1, <1>2 DEF PiContinues, Emit, StartsRun
<1>4. rec \in Records /\ ~Probing(rec) /\ ~Terminal(rec) /\ stdout' = Append(stdout, rec)
      /\ rec.t = "start" /\ owner' # <<>> /\ RecordFits(rec, owner', b)
  <2>1. owner \in Seq(Nat) /\ stdout \in Seq(Records)
    BY Reader
  <2>2. rec \in Records /\ ~Probing(rec) /\ ~Terminal(rec) /\ rec.t = "start"
        /\ RecordFits(rec, Append(owner, b), b)
    BY <1>1, <2>1, StartedShape DEF LastRun
  <2>3. stdout' = Append(stdout, rec)
    BY <1>3, <2>1, <2>2, EmittedShape
  <2>4. owner' # <<>>
    BY <1>3, <2>1, AppendProperties, EmptySeq
  <2> QED
    BY <1>3, <2>2, <2>3, <2>4
<1>5. /\ child' \in Children /\ child'.slipped = child.slipped /\ child'.queue = child.queue
      /\ child'.st = "running" /\ RunKnown'
  BY <1>3, <1>4, Reader DEF Children, RunKnown, AtRest, Kinds
<1>6. ASSUME NEW v \in Views, ViewOfChild(v, child, owner, turn.n),
             ViewFits(v, owner, turn.n, Human)
      PROVE  /\ RecordFits(rec, owner', turn.n)
             /\ ViewOfChild(Viewed(v, rec, turn.n, Human), child', owner', turn.n)
  <2>1. /\ turn.n = b
        /\ v.acc # NoText => v.s.comp /\ ~v.s.reset
        /\ ~Human => v.acc = NoText
    BY <1>2, <1>3, <1>6 DEF ViewOfChild, RunOf, LastRun, ViewFits
  <2>2. PICK h \in BOOLEAN : h = Human
    BY Reader
  <2>3. owner \in Seq(Nat) /\ rec = StartRecord(Len(owner) + 1)
    BY <1>1, Reader DEF LastRun
  <2>4. ViewOfChild(Viewed(v, rec, b, h), child', Append(owner, b), b)
    BY <1>5, <2>1, <2>2, <2>3, StartedFits
  <2> QED
    BY <1>3, <1>4, <2>1, <2>2, <2>4
<1> QED
  BY <1>3, <1>4, <1>5, <1>6, OneRecordHolds DEF Grows

(* A child that compacts after its run ended in an overflow. *)
LEMMA CompactingFits ==
  ASSUME NEW own, NEW n, NEW v \in Views, NEW h \in BOOLEAN, ~h => v.acc = NoText,
         NEW c, c.st = "ended", ViewOfChild(v, c, own, n),
         NEW rec, rec.t = "compaction" \/ (rec.t = "compacted" /\ rec.ok)
  PROVE  ViewOfChild(Viewed(v, rec, n, h), c, own, n)
<1>1. PICK w : w = Viewed(v, rec, n, h)
  OBVIOUS
<1>2. /\ h /\ v.s.overflow /\ ~v.s.reset => w.acc = NoText
      /\ ~(h /\ v.s.overflow /\ ~v.s.reset) => w.acc = v.acc
      /\ w.s.pend = v.s.pend /\ w.s.length = v.s.length /\ w.s.life = v.s.life
      /\ w.s.comp = v.s.comp /\ (w.s.reset <=> v.s.reset \/ v.s.overflow)
  BY <1>1, CompactionViewed
<1>3. w.acc # NoText => w.s.comp /\ ~w.s.reset
  BY <1>2 DEF ViewOfChild
<1>4. ToSet(w.acc) \subseteq {Len(own)}
  BY <1>2, TextFacts DEF ViewOfChild
<1>5. ViewOfChild(w, c, own, n)
  BY <1>2, <1>3, <1>4 DEF ViewOfChild, Settles
<1> QED
  BY <1>1, <1>5

LEMMA CompactionFailsFits ==
  ASSUME NEW own, NEW n, NEW v \in Views, NEW h \in BOOLEAN,
         NEW c, c.st = "ended", c.kind # "visible", ViewOfChild(v, c, own, n),
         NEW d, d.st = "ended", d.kind # "visible",
         NEW rec, rec.t = "compacted" /\ ~rec.ok
  PROVE  ViewOfChild(Viewed(v, rec, n, h), d, own, n)
<1>1. PICK w : w = Viewed(v, rec, n, h)
  OBVIOUS
<1>2. /\ w.acc = v.acc
      /\ w.s.pend = ErrorText \/ w.s.pend = v.s.pend
      /\ w.s.length = v.s.length /\ w.s.life = v.s.life
      /\ w.s.comp = v.s.comp /\ w.s.reset = v.s.reset
  BY <1>1, FailureViewed
<1>3. ViewOfChild(w, d, own, n)
  BY <1>2 DEF ViewOfChild, Settles
<1> QED
  BY <1>1, <1>3

(* Compacting records, then the record of a run or of a failure. *)
LEMMA CompactingFollows ==
  ASSUME NEW q \in Seq(Records), NEW p, NEW own \in Seq(Nat), NEW n, NEW h \in BOOLEAN,
         NEW c, c.st = "ended", Follows(p, q, c, <<>>, own, n, h),
         NEW rec \in Records, rec.t = "compaction" \/ (rec.t = "compacted" /\ rec.ok)
  PROVE  \E r : Follows(r, Append(q, rec), c, <<>>, own, n, h) /\ r[0] = p[0]
<1>1. p[Len(q)] \in Views /\ ViewFits(p[Len(q)], own, n, h)
  BY PastTypes DEF Follows, Past
<1>2. Extends(p, q, rec, c, own, n, h)
  <2>1. \A k \in 1..Len(q) : ~Terminal(q[k])
    BY DEF Follows, Closed, Resting
  <2>2. RecordFits(rec, own, n) /\ ~Terminal(rec) /\ rec.t # "settled"
    BY DEF RecordFits, Terminal
  <2>3. ViewOfChild(Viewed(p[Len(q)], rec, n, h), c, own, n)
    BY <1>1, CompactingFits DEF Follows, ViewFits
  <2> QED
    BY <2>1, <2>2, <2>3 DEF Extends, Follows
<1> QED
  BY <1>2, FollowOn

LEMMA FailureFollows ==
  ASSUME NEW q \in Seq(Records), NEW p, NEW own \in Seq(Nat), NEW n, NEW h \in BOOLEAN,
         NEW c, c.st = "ended", c.kind # "visible", Follows(p, q, c, <<>>, own, n, h),
         NEW d, d.st = "ended", d.kind # "visible",
         NEW rec \in Records, rec.t = "compacted" /\ ~rec.ok
  PROVE  \E r : Follows(r, Append(q, rec), d, <<>>, own, n, h) /\ r[0] = p[0]
<1>1. p[Len(q)] \in Views /\ ViewFits(p[Len(q)], own, n, h)
  BY PastTypes DEF Follows, Past
<1>2. Extends(p, q, rec, d, own, n, h)
  <2>1. \A k \in 1..Len(q) : ~Terminal(q[k])
    BY DEF Follows, Closed, Resting
  <2>2. RecordFits(rec, own, n) /\ ~Terminal(rec) /\ rec.t # "settled"
    BY DEF RecordFits, Terminal
  <2>3. ViewOfChild(Viewed(p[Len(q)], rec, n, h), d, own, n)
    BY <1>1, CompactionFailsFits DEF Follows
  <2> QED
    BY <2>1, <2>2, <2>3 DEF Extends, Follows
<1> QED
  BY <1>2, FollowOn

NextStart(own) == StartRecord(Len(own) + 1)

MayStart(p, q, own, n, h) ==
    /\ Past(p, q, own, n, h) /\ \A k \in 1..Len(q) : ~Terminal(q[k])
    /\ p[Len(q)].acc # NoText => p[Len(q)].s.comp /\ ~p[Len(q)].s.reset

(* The reader that may start follows the child through a new run. *)
Started(p, q, own, n, h, c, rec) ==
    \E r : Follows(r, Append(q, rec), c, <<>>, Append(own, n), n, h) /\ r[0] = p[0]

LEMMA StartFollows ==
  ASSUME NEW q \in Seq(Records), NEW p, NEW own \in Seq(Nat), NEW n \in Nat, NEW h \in BOOLEAN,
         MayStart(p, q, own, n, h),
         NEW c, c.st = "running"
  PROVE  Started(p, q, own, n, h, c, NextStart(own))
<1> USE DEF MayStart
<1>0. PICK rec : rec = StartRecord(Len(own) + 1) /\ rec = NextStart(own)
  BY DEF NextStart
<1>1. p[Len(q)] \in Views /\ ViewFits(p[Len(q)], own, n, h)
  BY PastTypes DEF Past
<1>2. PICK o \in Seq(Nat) : o = Append(own, n)
  BY RunsAreKept
<1>3. rec \in Records
  BY <1>0, StartedShape
<1>4. Extends(p, q, rec, c, o, n, h)
  <2>1. RecordFits(rec, o, n) /\ ~Terminal(rec) /\ rec.t # "settled"
    BY <1>0, <1>2, StartedShape
  <2>2. ViewOfChild(Viewed(p[Len(q)], rec, n, h), c, o, n)
    BY <1>0, <1>1, <1>2, StartedFits DEF ViewFits
  <2>3. Past(p, q, o, n, h)
    BY <1>2, PastIsKept
  <2> QED
    BY <2>1, <2>2, <2>3 DEF Extends
<1>5. \E r : Follows(r, Append(q, rec), c, <<>>, o, n, h) /\ r[0] = p[0]
  BY <1>3, <1>4, FollowOn
<1> QED
  BY <1>0, <1>2, <1>5 DEF Started

LEMMA WritesHold ==
  ASSUME TurnInv, PiUnchanged, stdout' \in Seq(Records), ProbeAnswers(stdout') = ProbeAnswers(stdout),
         UNCHANGED <<stdin, probe>>, Grows, child' \in Children, child'.slipped = child.slipped,
         child'.queue = child.queue, ~Resting(child), child'.st # "dead", RunKnown',
         ~child.slipped /\ Reading => StreamFollowed'
  PROVE  TurnInv'
<1>1. PiHolds
  BY Reader, GrowsFacts DEF PiHolds, Exited, Resting
<1> QED
  BY <1>1, PiStepHolds

LEMMA CompactsHold == TurnInv /\ PiCompacts => TurnInv'
<1> SUFFICES ASSUME TurnInv, PiCompacts
             PROVE  TurnInv'
  OBVIOUS
<1>1. PICK q \in Seq(Records), own \in Seq(Nat), n \in Nat, h \in BOOLEAN :
        q = stdout /\ own = owner /\ n = turn.n /\ h = Human
  BY Reader
<1>2. PICK b \in Nat : b = own[Len(own)]
  BY <1>1, ChildShape DEF PiCompacts, LastRun
<1>3. PICK c1, c2, c3, c4 :
        /\ c1 = [t |-> "compaction"] /\ c2 = [t |-> "compacted", ok |-> TRUE]
        /\ c3 = StartRecord(Len(own) + 1) /\ c4 = [t |-> "compacted", ok |-> FALSE]
  OBVIOUS
<1>4. /\ child.st = "ended" /\ child.kind = "overflow" /\ PiUnchanged
      /\ UNCHANGED <<stdin, probe>>
  BY DEF PiCompacts
<1>5. \/ /\ owner' = Append(own, b) /\ child' = [AtRest EXCEPT !.st = "running"]
         /\ stdout' = q \o <<c1, c2, c3>>
      \/ /\ owner' = own /\ child' = [child EXCEPT !.kind = "error", !.retry = FALSE]
         /\ stdout' = q \o <<c1, c4>>
  BY <1>1, <1>2, <1>3 DEF PiCompacts, Emit, StartsRun, LastRun
<1>6. /\ c1 \in Records /\ c2 \in Records /\ c3 \in Records /\ c4 \in Records
      /\ ~Probing(c1) /\ ~Probing(c2) /\ ~Probing(c3) /\ ~Probing(c4)
      /\ c1.t = "compaction" /\ c2.t = "compacted" /\ c2.ok /\ c4.t = "compacted" /\ ~c4.ok
  <2>1. c1 \in Records /\ c2 \in Records /\ c4 \in Records
    BY <1>3 DEF Records
  <2>2. c3 \in Records /\ ~Probing(c3)
    BY <1>3, StartedShape
  <2>3. ~Probing(c1) /\ ~Probing(c2) /\ ~Probing(c4)
    BY <1>3 DEF Probing
  <2> QED
    BY <1>3, <2>1, <2>2, <2>3
<1>7. PICK q1 \in Seq(Records) : q1 = Append(q, c1)
  BY <1>6, AppendProperties
<1>8. ~Resting(child)
  BY <1>4 DEF Resting
<1>9. ASSUME ~child.slipped, Reading
      PROVE  \E p : /\ Follows(p, q1, child, <<>>, own, n, h)
                    /\ p[0] = [s |-> parse, acc |-> relay.acc]
  <2>1. PICK p : /\ Past(p, q, own, n, h)
                 /\ Closed(q, child) /\ Untaken(p, q, child, n, stdin)
                 /\ ViewOfChild(p[Len(q)], child, own, n)
                 /\ p[0] = [s |-> parse, acc |-> relay.acc]
    BY <1>1, <1>9, Reader
  <2>2. Follows(p, q, child, <<>>, own, n, h)
    BY <2>1 DEF Follows, Untaken
  <2>3. PICK c : c = child
    OBVIOUS
  <2>4. c.st = "ended" /\ Follows(p, q, c, <<>>, own, n, h)
    BY <1>4, <2>2, <2>3
  <2>5. \E r : Follows(r, Append(q, c1), c, <<>>, own, n, h) /\ r[0] = p[0]
    BY <1>6, <2>4, CompactingFollows
  <2> QED
    BY <1>7, <2>1, <2>3, <2>5
<1>10. CASE /\ owner' = Append(own, b) /\ child' = [AtRest EXCEPT !.st = "running"]
            /\ stdout' = q \o <<c1, c2, c3>>
  <2>1. PICK q2 \in Seq(Records) : q2 = Append(q1, c2)
    BY <1>6, AppendProperties
  <2>2. stdout' = Append(q2, c3)
    BY <1>6, <1>7, <1>10, <2>1, EmittedShape
  <2>3. stdout' \in Seq(Records) /\ ProbeAnswers(stdout') = ProbeAnswers(stdout)
    <3>1. ProbeAnswers(q1) = ProbeAnswers(q)
      BY <1>6, <1>7, AppendedProbes
    <3>2. ProbeAnswers(q2) = ProbeAnswers(q1)
      BY <1>6, <2>1, AppendedProbes
    <3>3. stdout' \in Seq(Records) /\ ProbeAnswers(stdout') = ProbeAnswers(q2)
      BY <1>6, <2>2, AppendedProbes
    <3> QED
      BY <1>1, <3>1, <3>2, <3>3
  <2>4. /\ child' \in Children /\ child'.slipped = child.slipped /\ child'.queue = child.queue
        /\ child'.st = "running" /\ ~child'.err
    BY <1>10, Reader DEF Children, AtRest, Kinds
  <2>5. owner' # <<>>
    BY <1>10, AppendProperties, EmptySeq
  <2>6. RunKnown'
    BY <2>4, <2>5 DEF RunKnown
  <2>7. ASSUME ~child.slipped, Reading
        PROVE  StreamFollowed'
    <3>1. PICK p : /\ Follows(p, q1, child, <<>>, own, n, h)
                   /\ p[0] = [s |-> parse, acc |-> relay.acc]
      BY <1>9, <2>7
    <3>2. PICK c, d : c = child /\ d = child'
      OBVIOUS
    <3>3. c.st = "ended" /\ Follows(p, q1, c, <<>>, own, n, h)
      BY <1>4, <3>1, <3>2
    <3>4. PICK r : Follows(r, q2, c, <<>>, own, n, h) /\ r[0] = p[0]
      BY <1>6, <2>1, <3>3, CompactingFollows
    <3>5. /\ Past(r, q2, own, n, h)
          /\ \A k \in 1..Len(q2) : ~Terminal(q2[k])
          /\ r[Len(q2)].acc # NoText => r[Len(q2)].s.comp /\ ~r[Len(q2)].s.reset
          /\ n = b
      BY <1>2, <3>3, <3>4 DEF Follows, Closed, Resting, ViewOfChild, RunOf
    <3>6. \E s : Follows(s, Append(q2, c3), d, <<>>, Append(own, n), n, h) /\ s[0] = r[0]
      <4>1. d.st = "running"
        BY <2>4, <3>2
      <4>2. MayStart(r, q2, own, n, h)
        BY <3>5 DEF MayStart
      <4>3. Started(r, q2, own, n, h, d, NextStart(own))
        BY <4>1, <4>2, StartFollows
      <4>4. c3 = NextStart(own)
        BY <1>3 DEF NextStart
      <4> QED
        BY <4>3, <4>4 DEF Started
    <3>7. PICK s : Follows(s, stdout', d, <<>>, owner', n, h) /\ s[0] = r[0]
      BY <1>10, <2>2, <3>5, <3>6
    <3>8. stdin' = <<>>
      BY <1>4, <1>8, <2>7, Reader DEF Untaken, Resting
    <3> QED
      BY <1>1, <1>4, <3>1, <3>2, <3>4, <3>7, <3>8, StreamStep
  <2> QED
    BY <1>1, <1>4, <1>8, <1>10, <2>3, <2>4, <2>6, <2>7, WritesHold DEF Grows
<1>11. CASE /\ owner' = own /\ child' = [child EXCEPT !.kind = "error", !.retry = FALSE]
            /\ stdout' = q \o <<c1, c4>>
  <2>2. stdout' = Append(q1, c4)
    BY <1>6, <1>7, <1>11, EmittedShape
  <2>3. stdout' \in Seq(Records) /\ ProbeAnswers(stdout') = ProbeAnswers(stdout)
    BY <1>1, <1>6, <1>7, <2>2, AppendedProbes
  <2>4. /\ child' \in Children /\ child'.slipped = child.slipped /\ child'.queue = child.queue
        /\ child'.st = "ended" /\ child'.kind = "error"
    BY <1>4, <1>11, Reader DEF Children, Kinds
  <2>6. RunKnown'
    BY <1>1, <1>4, <1>11, <2>4 DEF RunKnown, TurnInv
  <2>7. ASSUME ~child.slipped, Reading
        PROVE  StreamFollowed'
    <3>1. PICK p : /\ Follows(p, q1, child, <<>>, own, n, h)
                   /\ p[0] = [s |-> parse, acc |-> relay.acc]
      BY <1>9, <2>7
    <3>2. PICK c, d : c = child /\ d = child'
      OBVIOUS
    <3>3. c.st = "ended" /\ c.kind # "visible" /\ Follows(p, q1, c, <<>>, own, n, h)
      BY <1>4, <3>1, <3>2
    <3>4. d.st = "ended" /\ d.kind # "visible"
      BY <2>4, <3>2
    <3>5. PICK r : Follows(r, Append(q1, c4), d, <<>>, own, n, h) /\ r[0] = p[0]
      BY <1>6, <3>3, <3>4, FailureFollows
    <3>8. stdin' = <<>>
      BY <1>4, <1>8, <2>7, Reader DEF Untaken, Resting
    <3> QED
      BY <1>1, <1>4, <1>11, <2>2, <3>1, <3>2, <3>5, <3>8, StreamStep
  <2> QED
    BY <1>1, <1>4, <1>8, <1>11, <2>3, <2>4, <2>6, <2>7, WritesHold DEF Grows
<1> QED
  BY <1>5, <1>10, <1>11

Dispositions == {"started", "handled", "queued", "rejected"}

LEMMA ResponseShape ==
  ASSUME NEW n \in Nat, NEW e \in Dispositions
  PROVE  /\ Response(n, e) \in Records /\ ~Probing(Response(n, e))
         /\ Response(n, e).t = "prompt" /\ Response(n, e).n = n /\ Response(n, e).d = e
BY DEF Response, Records, Probing, Dispositions

(* Nothing but answers of the watchdog is unread. *)
Unbegun(p, q, own, n, h) ==
    /\ Past(p, q, own, n, h) /\ \A k \in 1..Len(q) : Probing(q[k])
    /\ p[Len(q)] = StartView

(* The prompt is taken: its response, then perhaps its first run. *)
LEMMA ResponseFollows ==
  ASSUME NEW q \in Seq(Records), NEW p, NEW own \in Seq(Nat), NEW n \in Nat, NEW h \in BOOLEAN,
         NEW c, c.st = "idle", Unbegun(p, q, own, n, h), NEW e \in Dispositions
  PROVE  \E r : /\ Follows(r, Append(q, Response(n, e)), c, <<>>, own, n, h) /\ r[0] = p[0]
                /\ e # "rejected" => MayStart(r, Append(q, Response(n, e)), own, n, h)
<1> USE DEF Unbegun
<1>1. PICK rec \in Records : rec = Response(n, e) /\ rec.t = "prompt" /\ rec.n = n /\ rec.d = e
  BY ResponseShape
<1>2. (\A k \in 1..Len(q) : ~Terminal(q[k])) /\ p[Len(q)] = StartView /\ p[Len(q)] \in Views
  BY PastTypes DEF Probing, Terminal
<1>3. PICK w : w = Viewed(p[Len(q)], rec, n, h)
  OBVIOUS
<1>4. w.acc = NoText
  BY <1>1, <1>2, <1>3, PromptViewed DEF StartView
<1>5. Extends(p, q, rec, c, own, n, h)
  BY <1>1, <1>2 DEF Extends, RecordFits, ViewOfChild, Resting
<1>6. PICK r : /\ Follows(r, Append(q, rec), c, <<>>, own, n, h) /\ r[0] = p[0]
               /\ r[Len(q) + 1] = w
  BY <1>3, <1>5, FollowOn
<1>7. /\ Len(Append(q, rec)) = Len(q) + 1 /\ Append(q, rec)[Len(q) + 1] = rec /\ Len(q) \in Nat
      /\ \A k \in 1..Len(q) : Append(q, rec)[k] = q[k]
  BY AppendProperties, LenProperties
<1>8. ASSUME e # "rejected"
      PROVE  MayStart(r, Append(q, rec), own, n, h)
  <2>1. \A k \in 1..(Len(q) + 1) : k \in 1..Len(q) \/ k = Len(q) + 1
    BY <1>7
  <2>2. \A k \in 1..(Len(q) + 1) : ~Terminal(Append(q, rec)[k])
    BY <1>1, <1>2, <1>7, <1>8, <2>1 DEF Terminal
  <2> QED
    BY <1>4, <1>6, <1>7, <2>2 DEF MayStart, Follows
<1> QED
  BY <1>1, <1>6, <1>8

LEMMA TakesPromptHolds == TurnInv /\ PiTakesPrompt => TurnInv'
<1> SUFFICES ASSUME TurnInv, PiTakesPrompt
             PROVE  TurnInv'
  OBVIOUS
<1>1. PICK q \in Seq(Records), own \in Seq(Nat), h \in BOOLEAN :
        q = stdout /\ own = owner /\ h = Human
  BY Reader
<1>2. PICK n \in Nat : n = Head(stdin)
  BY Reader DEF PiTakesPrompt
<1>3. /\ stdin # <<>> /\ child.st = "idle" /\ stdin' = Tail(stdin) /\ PiUnchanged
      /\ probe' = probe /\ stdin' \in Seq(Nat)
  BY Reader DEF PiTakesPrompt
<1>4. PICK e \in Dispositions :
        \/ /\ owner' = Append(own, n) /\ child' = [AtRest EXCEPT !.st = "running"]
           /\ e # "rejected"
           /\ stdout' = q \o <<Response(n, e), NextStart(own)>>
        \/ /\ owner' = own /\ child' = child
           /\ stdout' = q \o <<Response(n, e)>>
  BY <1>1, <1>2 DEF PiTakesPrompt, Emit, StartsRun, LastRun, NextStart, Dispositions
<1>5. PICK rec \in Records, sta \in Records :
        /\ rec = Response(n, e) /\ ~Probing(rec)
        /\ sta = NextStart(own) /\ ~Probing(sta)
  <2>1. NextStart(own) \in Records /\ ~Probing(NextStart(own))
    BY StartedShape DEF NextStart
  <2> QED
    BY <2>1, ResponseShape
<1>6. PICK q1 \in Seq(Records) : q1 = Append(q, rec) /\ ProbeAnswers(q1) = ProbeAnswers(q)
  BY <1>5, AppendedProbes
<1>7. ASSUME ~child.slipped
      PROVE  Reading /\ n = turn.n /\ stdin' = <<>>
  <2>1. Reading
    BY <1>3, <1>7, Reader
  <2>2. stdin = <<turn.n>>
    BY <1>3, <1>7, <2>1, Reader DEF Untaken
  <2> QED
    BY <1>2, <1>3, <2>1, <2>2
<1>8. ASSUME ~child.slipped
      PROVE  \E p : /\ Follows(p, q1, child, <<>>, own, n, h)
                    /\ p[0] = [s |-> parse, acc |-> relay.acc]
                    /\ e # "rejected" => MayStart(p, q1, own, n, h)
  <2>1. PICK p : /\ Past(p, q, own, n, h)
                 /\ Untaken(p, q, child, n, stdin)
                 /\ p[0] = [s |-> parse, acc |-> relay.acc]
    BY <1>1, <1>7, <1>8, Reader
  <2>2. PICK c : c = child
    OBVIOUS
  <2>3. c.st = "idle" /\ Unbegun(p, q, own, n, h)
    BY <1>3, <2>1, <2>2, PastTypes DEF Untaken, Unbegun
  <2>4. \E r : /\ Follows(r, Append(q, Response(n, e)), c, <<>>, own, n, h) /\ r[0] = p[0]
               /\ e # "rejected" => MayStart(r, Append(q, Response(n, e)), own, n, h)
    BY <2>3, ResponseFollows
  <2> QED
    BY <1>5, <1>6, <2>1, <2>2, <2>4
<1>9. CASE /\ owner' = Append(own, n) /\ child' = [AtRest EXCEPT !.st = "running"]
           /\ e # "rejected"
           /\ stdout' = q \o <<Response(n, e), NextStart(own)>>
  <2>1. stdout' = Append(q1, sta)
    BY <1>5, <1>6, <1>9, EmittedShape
  <2>2. stdout' \in Seq(Records) /\ ProbeAnswers(stdout') = ProbeAnswers(stdout)
    BY <1>1, <1>5, <1>6, <2>1, AppendedProbes
  <2>3. /\ child' \in Children /\ child'.slipped = child.slipped /\ child'.queue = child.queue
        /\ child'.st = "running" /\ ~child'.err
    BY <1>9, Reader DEF Children, AtRest, Kinds
  <2>4. owner' # <<>>
    BY <1>9, AppendProperties, EmptySeq
  <2>5. RunKnown'
    BY <2>3, <2>4 DEF RunKnown
  <2>6. ASSUME ~child.slipped
        PROVE  StreamFollowed'
    <3>1. PICK p : /\ Follows(p, q1, child, <<>>, own, n, h)
                   /\ p[0] = [s |-> parse, acc |-> relay.acc]
                   /\ MayStart(p, q1, own, n, h)
      BY <1>8, <1>9, <2>6
    <3>2. PICK d : d = child' /\ d.st = "running"
      BY <2>3
    <3>3. \E s : Follows(s, Append(q1, sta), d, <<>>, Append(own, n), n, h) /\ s[0] = p[0]
      <4>1. MayStart(p, q1, own, n, h)
        BY <3>1
      <4>2. d.st = "running"
        BY <3>2
      <4>3. Started(p, q1, own, n, h, d, NextStart(own))
        BY <4>1, <4>2, StartFollows
      <4>4. sta = NextStart(own)
        BY <1>5
      <4> QED
        BY <4>3, <4>4 DEF Started
    <3>4. PICK s : Follows(s, stdout', d, <<>>, owner', n, h) /\ s[0] = p[0]
      BY <1>5, <1>9, <2>1, <3>3
    <3> QED
      BY <1>1, <1>3, <1>7, <2>6, <3>1, <3>2, <3>4, StreamStep
  <2>7. Grows
    BY <1>1, <1>9 DEF Grows
  <2>8. PiHolds
    BY <1>3, <1>7, <2>2, <2>3, <2>5, <2>6, <2>7, GrowsFacts, Reader DEF PiHolds, Exited
  <2> QED
    BY <1>3, <2>8, PiStepHolds
<1>10. CASE /\ owner' = own /\ child' = child
            /\ stdout' = q \o <<Response(n, e)>>
  <2>1. stdout' = q1
    BY <1>5, <1>6, <1>10, EmittedShape
  <2>2. stdout' \in Seq(Records) /\ ProbeAnswers(stdout') = ProbeAnswers(stdout)
    BY <1>1, <1>6, <2>1
  <2>3. /\ child' \in Children /\ child'.slipped = child.slipped /\ child'.queue = child.queue
        /\ child'.st = "idle"
    BY <1>3, <1>10, Reader
  <2>5. RunKnown'
    BY <2>3 DEF RunKnown
  <2>6. ASSUME ~child.slipped
        PROVE  StreamFollowed'
    <3>1. PICK p : /\ Follows(p, q1, child, <<>>, own, n, h)
                   /\ p[0] = [s |-> parse, acc |-> relay.acc]
      BY <1>8, <2>6
    <3> QED
      BY <1>1, <1>3, <1>7, <1>10, <2>1, <2>6, <3>1, StreamStep
  <2>7. Grows
    BY <1>1, <1>10 DEF Grows
  <2>8. PiHolds
    BY <1>3, <1>7, <2>2, <2>3, <2>5, <2>6, <2>7, GrowsFacts, Reader DEF PiHolds, Exited
  <2> QED
    BY <1>3, <2>8, PiStepHolds
<1> QED
  BY <1>4, <1>9, <1>10

(* Only behind a prompt that slipped past is there a queue at Pi. *)
LEMMA QueuesHold == TurnInv /\ PiQueuesPrompt => TurnInv'
<1> SUFFICES ASSUME TurnInv, PiQueuesPrompt
             PROVE  TurnInv'
  OBVIOUS
<1>0. PICK n \in Nat : n = Head(stdin)
  BY Reader DEF PiQueuesPrompt
<1>1. PICK e \in Dispositions :
        /\ stdout' = stdout \o <<Response(n, e)>>
        /\ child' = child \/ child' = [child EXCEPT !.queue = Append(@, n)]
  BY <1>0 DEF PiQueuesPrompt, Emit, Dispositions
<1>2. /\ stdin # <<>> /\ stdin' = Tail(stdin) /\ PiUnchanged /\ probe' = probe
      /\ owner' = owner /\ stdin' \in Seq(Nat) /\ child.st \notin {"idle", "hung", "dead"}
  BY Reader DEF PiQueuesPrompt, Responsive
<1>3. child.slipped
  BY <1>2, Reader DEF Untaken
<1>4. PICK rec \in Records : rec = Response(n, e) /\ ~Probing(rec)
  BY ResponseShape
<1>5. stdout' \in Seq(Records) /\ ProbeAnswers(stdout') = ProbeAnswers(stdout)
  <2>1. stdout \in Seq(Records)
    BY Reader
  <2>2. stdout' = Append(stdout, rec)
    BY <1>1, <1>4, <2>1, EmittedShape
  <2> QED
    BY <1>4, <2>1, <2>2, AppendedProbes
<1>6. /\ child' \in Children /\ child'.slipped = child.slipped /\ child'.st = child.st
      /\ child'.err = child.err
  <2>1. PICK u \in Seq(Nat) : child' = child \/ child' = [child EXCEPT !.queue = u]
    BY <1>1, ChildShape, AppendProperties
  <2> QED
    BY <2>1, Reader DEF Children
<1>7. RunKnown'
  BY <1>2, <1>6 DEF RunKnown, TurnInv
<1>8. PiHolds
  BY <1>2, <1>3, <1>5, <1>6, <1>7, Reader DEF PiHolds, Exited
<1> QED
  BY <1>2, <1>8, PiStepHolds

LEMMA StartsQueuedHold == TurnInv /\ PiStartsQueued => TurnInv'
<1> SUFFICES ASSUME TurnInv, PiStartsQueued
             PROVE  TurnInv'
  OBVIOUS
<1>1. /\ child.st = "ended" /\ child.queue # <<>> /\ PiUnchanged /\ UNCHANGED <<stdin, probe>>
      /\ stdout' = stdout \o <<NextStart(owner)>>
  BY DEF PiStartsQueued, Emit, NextStart, LastRun
<1>2. PICK n \in Nat : owner' = Append(owner, n)
  BY <1>1, ChildShape DEF PiStartsQueued
<1>3. PICK u \in Seq(Nat) : child' = [AtRest EXCEPT !.st = "running", !.queue = u]
  <2>1. Tail(child.queue) \in Seq(Nat) /\ AtRest.queue = child.queue
    BY <1>1, Reader, ChildShape, HeadTailProperties DEF AtRest, Children
  <2>2. child' = [AtRest EXCEPT !.st = "running", !.queue = Tail(@)]
    BY DEF PiStartsQueued
  <2>3. child' = [AtRest EXCEPT !.st = "running", !.queue = Tail(child.queue)]
    BY <2>1, <2>2
  <2> QED
    BY <2>1, <2>3
<1>4. child.slipped
  BY <1>1, Reader
<1>5. PICK rec \in Records : rec = NextStart(owner) /\ ~Probing(rec)
  BY StartedShape, Reader DEF NextStart
<1>6. stdout' \in Seq(Records) /\ ProbeAnswers(stdout') = ProbeAnswers(stdout)
  <2>1. stdout \in Seq(Records)
    BY Reader
  <2>2. stdout' = Append(stdout, rec)
    BY <1>1, <1>5, <2>1, EmittedShape
  <2> QED
    BY <1>5, <2>1, <2>2, AppendedProbes
<1>7. /\ child' \in Children /\ child'.slipped = child.slipped
      /\ child'.st = "running" /\ ~child'.err
  BY <1>3, Reader DEF Children, AtRest, Kinds
<1>8. RunKnown'
  <2>1. owner' # <<>>
    BY <1>2, Reader, AppendProperties, EmptySeq
  <2> QED
    BY <1>7, <2>1 DEF RunKnown
<1>9. Grows
  BY <1>2 DEF Grows
<1>10. PiHolds
  BY <1>1, <1>4, <1>6, <1>7, <1>8, <1>9, GrowsFacts, Reader DEF PiHolds, Exited
<1> QED
  BY <1>1, <1>10, PiStepHolds

(* A child that stops leaves what it wrote, and takes nothing more. *)
LEMMA StopsHold ==
  ASSUME TurnInv, PiUnchanged, UNCHANGED <<stdout, owner, probe>>,
         \/ child' = [child EXCEPT !.st = "hung"] /\ stdin' = stdin
         \/ child' = [child EXCEPT !.st = "dead"] /\ stdin' = <<>>
  PROVE  TurnInv'
<1>1. /\ child' \in Children /\ child'.slipped = child.slipped /\ child'.queue = child.queue
      /\ child'.st \in {"hung", "dead"} /\ (child'.st = "dead" => stdin' = <<>>)
      /\ stdin' \in Seq(Nat) /\ (stdin' # <<>> => stdin' = stdin)
  <2>1. PICK s \in {"hung", "dead"} : child' = [child EXCEPT !.st = s]
    OBVIOUS
  <2>2. /\ child' \in Children /\ child'.slipped = child.slipped /\ child'.queue = child.queue
        /\ child'.st \in {"hung", "dead"}
    BY <2>1, Reader DEF Children
  <2>3. /\ child'.st = "dead" => stdin' = <<>>
        /\ stdin' \in Seq(Nat)
        /\ stdin' # <<>> => stdin' = stdin
    <3>1. CASE child' = [child EXCEPT !.st = "hung"] /\ stdin' = stdin
      <4>1. child'.st = "hung"
        BY <3>1, Reader DEF Children
      <4> QED
        BY <3>1, <4>1, Reader
    <3>2. CASE stdin' = <<>>
      BY <3>2
    <3> QED
      BY <3>1, <3>2
  <2> QED
    BY <2>2, <2>3
<1>2. RunKnown' /\ Resting(child')
  BY <1>1 DEF RunKnown, Resting
<1>3. ASSUME ~child.slipped, Reading
      PROVE  StreamFollowed'
  <2>1. PICK p : /\ Past(p, stdout, owner, turn.n, Human)
                 /\ Untaken(p, stdout, child, turn.n, stdin)
                 /\ p[0] = [s |-> parse, acc |-> relay.acc]
    BY <1>3, Reader
  <2>2. Closed(stdout, child') /\ ViewOfChild(p[Len(stdout)], child', owner, turn.n)
    BY <1>1, <1>2 DEF Closed, ViewOfChild
  <2>3. Untaken(p, stdout, child', turn.n, stdin')
    <3>1. CASE stdin' = <<>>
      BY <3>1 DEF Untaken
    <3>2. CASE stdin' # <<>>
      <4>1. child'.st = "hung" /\ stdin' = stdin
        BY <1>1, <3>2
      <4> QED
        BY <2>1, <3>2, <4>1 DEF Untaken
    <3> QED
      BY <3>1, <3>2
  <2>4. turn' = turn /\ parse' = parse /\ relay' = relay /\ Human' = Human
    BY DEF PiUnchanged, Human
  <2> QED
    BY <2>1, <2>2, <2>3, <2>4 DEF StreamFollowed, Follows
<1>4. ~child.slipped /\ ~Reading => stdin' = <<>> /\ stdout' = <<>>
  BY <1>1 DEF TurnInv, NothingOwed
<1>5. PiHolds
  BY <1>1, <1>2, <1>3, <1>4, Reader DEF PiHolds, Exited
<1> QED
  BY <1>5, PiStepHolds

LEMMA HangsHold == TurnInv /\ PiHangs => TurnInv'
BY StopsHold DEF PiHangs

LEMMA DiesHold == TurnInv /\ PiDies => TurnInv'
BY StopsHold DEF PiDies

(* The answer to the watchdog may follow any record. *)
LEMMA ProbeFollows ==
  ASSUME NEW q \in Seq(Records), NEW p, NEW own \in Seq(Nat), NEW n, NEW h \in BOOLEAN,
         NEW c, NEW in, Follows(p, q, c, in, own, n, h), NEW rec \in Records, Probing(rec)
  PROVE  \E r : Follows(r, Append(q, rec), c, in, own, n, h) /\ r[0] = p[0]
<1>1. Past(p, q, own, n, h)
  BY DEF Follows
<1>2. RecordFits(rec, own, n) /\ rec.t # "settled" /\ ~Terminal(rec)
  BY DEF Probing, RecordFits, Terminal
<1>3. PICK r : /\ Past(r, Append(q, rec), own, n, h)
               /\ r[Len(q) + 1] = Viewed(p[Len(q)], rec, n, h)
               /\ \A k \in 0..Len(q) : r[k] = p[k]
  BY <1>1, <1>2, OneMore
<1>4. r[Len(q) + 1] = p[Len(q)]
  BY <1>1, <1>3, PastTypes, OtherViewed DEF Probing
<1>5. /\ Len(Append(q, rec)) = Len(q) + 1 /\ Append(q, rec)[Len(q) + 1] = rec
      /\ \A k \in 1..Len(q) : Append(q, rec)[k] = q[k]
      /\ Len(q) \in Nat /\ 0 \in 0..Len(q) /\ Len(q) \in 0..Len(q)
      /\ \A k \in 1..(Len(q) + 1) : k \in 1..Len(q) \/ k = Len(q) + 1
      /\ \A k \in 0..(Len(q) + 1) : k \in 0..Len(q) \/ k = Len(q) + 1
  BY AppendProperties, LenProperties
<1>6. Closed(Append(q, rec), c)
  BY <1>2, <1>5 DEF Closed, Follows
<1>7. Untaken(r, Append(q, rec), c, n, in)
  BY <1>3, <1>4, <1>5 DEF Untaken, Follows
<1> QED
  BY <1>3, <1>4, <1>5, <1>6, <1>7 DEF Follows

LEMMA AnswersProbeHolds == TurnInv /\ PiAnswersProbe => TurnInv'
<1> SUFFICES ASSUME TurnInv, PiAnswersProbe
             PROVE  TurnInv'
  OBVIOUS
<1>1. PICK live \in BOOLEAN : stdout' = stdout \o <<[t |-> "state", live |-> live]>>
  BY DEF PiAnswersProbe, Emit
<1>2. PICK q \in Seq(Records), rec \in Records :
        q = stdout /\ rec = [t |-> "state", live |-> live] /\ Probing(rec)
  <2>1. /\ [t |-> "state", live |-> live] \in Records
        /\ Probing([t |-> "state", live |-> live])
    BY DEF Records, Probing
  <2> QED
    BY <2>1, Reader
<1>3. stdout' = Append(q, rec)
  BY <1>1, <1>2
<1>4. /\ probe = "asked" /\ probe' = "sent" /\ PiUnchanged
      /\ UNCHANGED <<stdin, owner, child>>
  BY DEF PiAnswersProbe
<1>5. Reading /\ ProbeAnswers(stdout) = {}
  BY <1>4 DEF TurnInv, ProbeOnce
<1>6. UNCHANGED <<turn, parse, outbox, isolated, kinds, said, relay>>
  BY <1>4 DEF PiUnchanged
<1>7. stdout' \in Seq(Records) /\ ProbeAnswers(stdout') \subseteq {Len(q) + 1}
  BY <1>2, <1>3, <1>5, AppendedProbes
<1>8. TypeOK'
  BY <1>4, <1>6, <1>7 DEF TurnInv, TypeOK
<1>9. ProbeOnce'
  BY <1>4, <1>5, <1>6, <1>7 DEF ProbeOnce, Reading
<1>10. TurnsApart' /\ RunKnown' /\ Answers'
  BY <1>4, <1>6 DEF TurnInv, TurnsApart, RunKnown, Answers, Answer, Reading, Human, Exited
<1>11. NothingOwed'
  BY <1>4, <1>5, <1>6 DEF TurnInv, NothingOwed, Reading
<1>12. ASSUME ~child.slipped
       PROVE  StreamFollowed'
  <2>1. PICK p : /\ Follows(p, stdout, child, stdin, owner, turn.n, Human)
                 /\ p[0] = [s |-> parse, acc |-> relay.acc]
    BY <1>5, <1>12 DEF TurnInv, StreamFollowed
  <2>2. PICK n, c, in : n = turn.n /\ c = child /\ in = stdin
    OBVIOUS
  <2>3. PICK own \in Seq(Nat), h \in BOOLEAN : own = owner /\ h = Human
    BY Reader
  <2>4. Follows(p, q, c, in, own, n, h)
    BY <1>2, <2>1, <2>2, <2>3
  <2>5. PICK r : Follows(r, Append(q, rec), c, in, own, n, h) /\ r[0] = p[0]
    <3>1. Probing(rec)
      BY <1>2
    <3> QED
      BY <2>4, <3>1, ProbeFollows
  <2>6. Human' = Human
    BY <1>6 DEF Human
  <2> QED
    BY <1>3, <1>4, <1>6, <2>1, <2>2, <2>3, <2>5, <2>6 DEF StreamFollowed
<1>13. StreamFollowed'
  BY <1>4, <1>12 DEF StreamFollowed
<1> QED
  BY <1>8, <1>9, <1>10, <1>11, <1>13 DEF TurnInv

-----------------------------------------------------------------------------
(* Writing a prompt. *)

(* A reader that starts has its own prompt ahead, and nothing unread. *)
FreshViews == [k \in 0..0 |-> StartView]
Fresh(c, own, n, h) ==
    Follows(FreshViews, <<>>, c, <<n>>, own, n, h) /\ FreshViews[0] = StartView

LEMMA FreshFollows ==
  ASSUME NEW n, NEW own, NEW h \in BOOLEAN, NEW c, c.st \in {"idle", "hung"}
  PROVE  Fresh(c, own, n, h)
<1>0. PICK p : p = [k \in 0..0 |-> StartView] /\ p = FreshViews
  BY DEF FreshViews
<1>1. /\ StartView \in Views /\ StartView.acc = NoText /\ StartView.s.pend = NoText
  BY DEF StartView, NewParse, Views, ParseStates, NoText
<1>2. Len(<<>>) = 0 /\ p[0] = StartView /\ p \in [0..0 -> Views]
  BY <1>0, <1>1
<1>3. Past(p, <<>>, own, n, h)
  BY <1>1, <1>2, TextFacts DEF Past, Foreseen, ViewFits
<1>4. Closed(<<>>, c) /\ Untaken(p, <<>>, c, n, <<n>>)
  BY <1>2 DEF Closed, Untaken
<1>5. ViewOfChild(p[0], c, own, n)
  BY DEF ViewOfChild
<1>6. PICK q : q = <<>> /\ Len(q) = 0
  BY <1>2
<1>7. Follows(p, q, c, <<n>>, own, n, h)
  BY <1>3, <1>4, <1>5, <1>6 DEF Follows
<1> QED
  BY <1>0, <1>2, <1>6, <1>7 DEF Fresh

(* Between two turns. *)
LEMMA Between ==
  ASSUME TurnInv, CanSend
  PROVE  /\ turn.st = "idle" /\ relay.st = "off" /\ ~Reading /\ probe = "no"
         /\ relay.acc = NoText /\ ProbeAnswers(stdout) = {}
         /\ NextPrompt \in Nat /\ NextPrompt # 0 /\ NextPrompt = turn.n + 1
         /\ \A kind \in {"human", "internal"} :
              /\ Append(kinds, kind) \in Seq({"human", "internal"})
              /\ Len(Append(kinds, kind)) = NextPrompt
              /\ Append(kinds, kind)[NextPrompt] = kind
<1>1. /\ turn.st = "idle" /\ relay.st = "off" /\ ~Reading /\ probe = "no"
      /\ relay.acc = NoText /\ ProbeAnswers(stdout) = {}
  BY DEF CanSend, QueueFree, Reading, TurnInv, ProbeOnce, TurnsApart
<1>2. turn.n \in Nat /\ kinds \in Seq({"human", "internal"}) /\ Len(kinds) = turn.n
  BY DEF TurnInv, TypeOK
<1>3. NextPrompt \in Nat /\ NextPrompt # 0 /\ NextPrompt = turn.n + 1
  BY <1>2 DEF NextPrompt
<1> QED
  BY <1>1, <1>2, <1>3, AppendProperties

LEMMA FreshTypes ==
  /\ NewParse \in ParseStates /\ NewChild \in Children
  /\ Silent \in [n : Nat, text : Seq(Nat), last : Nat, ok : BOOLEAN,
                 box : {"human", "internal"}, clean : BOOLEAN]
  /\ Silent.last = 0 /\ Silent.text = NoText /\ Silent.box = "human"
<1>1. NoText \in Seq(Nat)
  BY DEF NoText
<1> QED
  BY <1>1 DEF NewParse, NewChild, Silent, ParseStates, Children, Kinds

(* A turn of either kind begins. *)
LEMMA TurnBegins ==
  ASSUME TurnInv, CanSend, NEW kind \in {"human", "internal"}, BeginTurn(kind),
         child' \in Children, child'.slipped = child.slipped \/ child' = NewChild,
         child'.queue = child.queue \/ child' = NewChild, child'.st # "dead",
         child'.st = child.st \/ child'.st = "idle", child'.err = child.err \/ child'.st = "idle",
         ~child'.slipped => child'.queue = <<>> /\ child'.st \in {"idle", "hung"}
                            /\ stdin' = <<NextPrompt>> /\ stdout' = <<>>,
         stdin' \in Seq(Nat), stdout' \in Seq(Records), ProbeAnswers(stdout') = {},
         UNCHANGED <<probe, owner>>, outbox' \in {"human", "internal"}, isolated' \in BOOLEAN,
         kind = "human" => /\ relay' = [st |-> "reading", acc |-> NoText]
                           /\ outbox' = "human",
         kind = "internal" => relay' = relay
  PROVE  TurnInv'
<1>1. /\ turn' = [NewTurn EXCEPT !.n = NextPrompt, !.st = "reading"]
      /\ said' = Silent /\ kinds' = Append(kinds, kind) /\ parse' = NewParse
  BY DEF BeginTurn
<1>2. /\ turn'.n = NextPrompt /\ turn'.st = "reading" /\ turn'.last = 0 /\ Reading'
      /\ turn' \in [n : Nat, st : {"idle", "reading", "closing"}, last : Nat, ok : BOOLEAN,
                    settled : BOOLEAN, consumed : BOOLEAN]
  BY <1>1, Between DEF NewTurn, Reading
<1>3. kinds' \in Seq({"human", "internal"}) /\ Len(kinds') = turn'.n /\ Human' = (kind = "human")
  BY <1>1, <1>2, Between DEF Human
<1>4. relay' = [st |-> IF kind = "human" THEN "reading" ELSE "off", acc |-> NoText]
  BY Between DEF TurnInv, TypeOK
<1>5. TypeOK'
  <2>1. relay' \in [st : {"off", "reading", "sending"}, acc : Seq(Nat)]
    BY <1>4 DEF NoText
  <2> QED
    BY <1>1, <1>2, <1>3, <2>1, FreshTypes DEF TurnInv, TypeOK
<1>6. ProbeOnce'
  BY <1>2, Between DEF ProbeOnce
<1>7. TurnsApart'
  BY <1>1, <1>2, <1>3, <1>4, Between, FreshTypes DEF TurnsApart, Exited
<1>8. RunKnown' /\ NothingOwed'
  BY <1>2 DEF RunKnown, NothingOwed, TurnInv
<1>9. Answers'
  BY <1>1, <1>2, <1>4, FreshTypes, TextFacts DEF Answers, Answer
<1>10. StreamFollowed'
  <2>1. SUFFICES ASSUME ~child'.slipped
                 PROVE  \E p : /\ Follows(p, stdout', child', stdin', owner', turn'.n, Human')
                               /\ p[0] = [s |-> parse', acc |-> relay'.acc]
    BY DEF StreamFollowed
  <2>2. PICK n, c, own : n = NextPrompt /\ c = child' /\ own = owner'
    OBVIOUS
  <2>3. PICK h \in BOOLEAN : h = Human'
    BY <1>3
  <2>4. c.st \in {"idle", "hung"}
    BY <2>1, <2>2
  <2>5. Fresh(c, own, n, h)
    BY <2>4, FreshFollows
  <2>6. StartView = [s |-> parse', acc |-> relay'.acc]
    BY <1>1, <1>4 DEF StartView
  <2> QED
    BY <1>2, <2>1, <2>2, <2>3, <2>5, <2>6 DEF Fresh
<1> QED
  BY <1>5, <1>6, <1>7, <1>8, <1>9, <1>10 DEF TurnInv

(* A turn that is given up before its reader starts. *)
LEMMA TurnAbandoned ==
  ASSUME TurnInv, CanSend, NEW kind \in {"human", "internal"}, AbandonTurn(kind),
         child' \in Children, child'.st # "dead" \/ (child' = child /\ stdin' = stdin),
         child'.st = child.st \/ child'.st = "idle", child'.err = child.err \/ child'.st = "idle",
         child'.slipped \/ (child' = child /\ stdin' = stdin /\ stdout' = stdout),
         stdin' \in Seq(Nat), stdout' \in Seq(Records), ProbeAnswers(stdout') = {},
         UNCHANGED <<probe, owner, relay>>,
         \/ outbox' = "human" /\ isolated' = FALSE
         \/ outbox' = outbox /\ isolated' = isolated
  PROVE  TurnInv'
<1>1. /\ turn' = [NewTurn EXCEPT !.n = NextPrompt]
      /\ said' = Silent /\ kinds' = Append(kinds, kind) /\ parse' = parse
  BY DEF AbandonTurn
<1>2. /\ turn'.n = NextPrompt /\ turn'.st = "idle" /\ ~Reading'
      /\ turn' \in [n : Nat, st : {"idle", "reading", "closing"}, last : Nat, ok : BOOLEAN,
                    settled : BOOLEAN, consumed : BOOLEAN]
  BY <1>1, Between DEF NewTurn, Reading
<1>3. kinds' \in Seq({"human", "internal"}) /\ Len(kinds') = turn'.n
  BY <1>1, <1>2, Between
<1>4. relay' = relay /\ relay.st = "off" /\ relay.acc = NoText
  BY Between
<1>5. TypeOK'
  BY <1>1, <1>2, <1>3, FreshTypes DEF TurnInv, TypeOK
<1>6. ProbeOnce'
  BY <1>2, Between DEF ProbeOnce
<1>7. TurnsApart'
  <2>1. outbox' = "internal" => isolated'
    BY Between DEF TurnInv, TurnsApart
  <2>2. Exited' => stdin' = <<>>
    BY DEF TurnInv, TurnsApart, Exited
  <2> QED
    BY <1>1, <1>2, <1>4, <2>1, <2>2, FreshTypes DEF TurnsApart
<1>8. RunKnown' /\ NothingOwed'
  BY <1>2, Between DEF RunKnown, NothingOwed, TurnInv
<1>9. Answers'
  BY <1>1, <1>2, <1>4, FreshTypes, TextFacts DEF Answers, Answer
<1> QED
  BY <1>2, <1>5, <1>6, <1>7, <1>8, <1>9 DEF TurnInv, StreamFollowed

LEMMA SendHumanHolds == TurnInv /\ (\E stored \in BOOLEAN : SendHuman(stored)) => TurnInv'
<1> SUFFICES ASSUME TurnInv, NEW stored \in BOOLEAN, SendHuman(stored)
             PROVE  TurnInv'
  OBVIOUS
<1>1. CanSend /\ Usable /\ UNCHANGED <<probe, owner>>
  BY DEF SendHuman
<1>2. PICK c \in Children :
        /\ c = (IF Exited THEN NewChild ELSE child)
        /\ child' = IF stored THEN c ELSE [c EXCEPT !.slipped = TRUE]
  BY Reader, FreshTypes DEF SendHuman
<1>3. \/ /\ c = NewChild /\ stdout' = <<>> /\ stdin' = <<NextPrompt>>
         /\ outbox' = "human" /\ isolated' = FALSE
      \/ /\ c = child /\ child.st # "dead" /\ ~isolated /\ stdin' = Append(stdin, NextPrompt)
         /\ UNCHANGED <<stdout, outbox, isolated>>
  BY <1>2 DEF SendHuman, Exited
<1>4. c.st # "dead" /\ (c.st = child.st \/ c.st = "idle") /\ (c.err = child.err \/ c.st = "idle")
  BY <1>3 DEF NewChild
<1>5. /\ stdin' \in Seq(Nat) /\ stdout' \in Seq(Records) /\ ProbeAnswers(stdout') = {}
      /\ outbox' = "human" /\ isolated' = FALSE
  <2>1. ProbeAnswers(<<>>) = {}
    BY DEF ProbeAnswers
  <2>2. /\ stdin \in Seq(Nat) /\ stdout \in Seq(Records) /\ NextPrompt \in Nat
        /\ ProbeAnswers(stdout) = {} /\ turn.st = "idle"
    BY <1>1, Reader, Between
  <2>3. ~isolated => outbox = "human"
    BY <2>2 DEF TurnInv, TypeOK, TurnsApart
  <2>4. isolated \in BOOLEAN
    BY DEF TurnInv, TypeOK
  <2>5. CASE /\ stdout' = <<>> /\ stdin' = <<NextPrompt>>
             /\ outbox' = "human" /\ isolated' = FALSE
    BY <2>1, <2>2, <2>5
  <2>6. CASE /\ ~isolated /\ stdin' = Append(stdin, NextPrompt)
             /\ UNCHANGED <<stdout, outbox, isolated>>
    <3>1. stdin' \in Seq(Nat)
      BY <2>2, <2>6, AppendProperties
    <3> QED
      BY <2>2, <2>3, <2>4, <2>6, <3>1
  <2> QED
    BY <1>3, <2>5, <2>6
<1>6. CASE stored
  <2>1. child' = c /\ BeginTurn("human") /\ relay' = [st |-> "reading", acc |-> NoText]
    BY <1>2, <1>6 DEF SendHuman, RelayStarts
  <2>2. /\ c.slipped = child.slipped \/ c = NewChild
        /\ c.queue = child.queue \/ c = NewChild
    BY <1>3
  <2>3. ~c.slipped => /\ c.queue = <<>> /\ c.st \in {"idle", "hung"}
                      /\ stdin' = <<NextPrompt>> /\ stdout' = <<>>
    <3>1. CASE c = NewChild /\ stdout' = <<>> /\ stdin' = <<NextPrompt>>
      BY <3>1 DEF NewChild
    <3>2. CASE c = child /\ child.st # "dead" /\ stdin' = Append(stdin, NextPrompt)
               /\ stdout' = stdout
      <4>1. ~child.slipped => /\ child.queue = <<>> /\ stdin = <<>> /\ stdout = <<>>
                              /\ child.st \in {"idle", "hung"}
        BY <1>1, <3>2, Between DEF TurnInv, NothingOwed, Resting
      <4>2. Append(<<>>, NextPrompt) = <<NextPrompt>>
        OBVIOUS
      <4> QED
        BY <3>2, <4>1, <4>2
    <3> QED
      BY <1>3, <3>1, <3>2
  <2>4. child' \in Children
    BY <2>1
  <2>5. child'.slipped = child.slipped \/ child' = NewChild
    BY <2>1, <2>2
  <2>6. child'.queue = child.queue \/ child' = NewChild
    BY <2>1, <2>2
  <2> QED
    BY <1>1, <1>4, <1>5, <2>1, <2>3, <2>4, <2>5, <2>6, TurnBegins
<1>7. CASE ~stored
  <2>1. child' = [c EXCEPT !.slipped = TRUE] /\ AbandonTurn("human") /\ relay' = relay
    BY <1>2, <1>7 DEF SendHuman, relayVars
  <2>2. child' \in Children /\ child'.slipped /\ child'.st = c.st /\ child'.err = c.err
    BY <2>1 DEF Children
  <2> QED
    BY <1>1, <1>4, <1>5, <2>1, <2>2, TurnAbandoned
<1> QED
  BY <1>6, <1>7

LEMMA RefuseHolds == TurnInv /\ RefuseHuman => TurnInv'
<1> SUFFICES ASSUME TurnInv, RefuseHuman
             PROVE  TurnInv'
  OBVIOUS
<1>1. /\ CanSend /\ AbandonTurn("human") /\ child' = child /\ stdin' = stdin /\ stdout' = stdout
      /\ UNCHANGED <<probe, owner, relay, outbox, isolated>>
  BY DEF RefuseHuman, relayVars
<1>2. child' \in Children /\ stdin' \in Seq(Nat) /\ stdout' \in Seq(Records)
      /\ ProbeAnswers(stdout') = {}
  BY <1>1, Reader, Between
<1> QED
  BY <1>1, <1>2, TurnAbandoned

LEMMA SendInternalHolds == TurnInv /\ SendInternal => TurnInv'
<1> SUFFICES ASSUME TurnInv, SendInternal
             PROVE  TurnInv'
  OBVIOUS
<1>1. /\ CanSend /\ stdout' = <<>> /\ stdin' = Append(stdin, NextPrompt)
      /\ child.st \notin {"dead", "hung"} /\ outbox' = "internal" /\ BeginTurn("internal")
      /\ child' = child /\ relay' = relay /\ UNCHANGED <<probe, owner, isolated>>
  BY DEF SendInternal, IdentityAsked, Responsive, relayVars
<1>2. child' \in Children /\ stdin' \in Seq(Nat) /\ stdout' \in Seq(Records)
      /\ ProbeAnswers(stdout') = {} /\ isolated' \in BOOLEAN
  <2>1. ProbeAnswers(<<>>) = {} /\ stdin \in Seq(Nat) /\ NextPrompt \in Nat
        /\ isolated \in BOOLEAN /\ child \in Children
    BY <1>1, Reader, Between DEF ProbeAnswers, TurnInv, TypeOK
  <2> QED
    BY <1>1, <2>1, AppendProperties
<1>3. ~child'.slipped => child'.queue = <<>> /\ child'.st \in {"idle", "hung"}
                         /\ stdin' = <<NextPrompt>> /\ stdout' = <<>>
  <2>1. ~child.slipped => child.queue = <<>> /\ stdin = <<>> /\ child.st \in {"idle", "hung"}
    BY <1>1, Between DEF TurnInv, NothingOwed, Resting
  <2>2. Append(<<>>, NextPrompt) = <<NextPrompt>>
    OBVIOUS
  <2> QED
    BY <1>1, <2>1, <2>2
<1> QED
  BY <1>1, <1>2, <1>3, TurnBegins

-----------------------------------------------------------------------------
(* The reader. *)

LEMMA TailProbes ==
  ASSUME NEW q \in Seq(Records), q # <<>>, \A i, j \in ProbeAnswers(q) : i = j
  PROVE  /\ Tail(q) \in Seq(Records) /\ Head(q) \in Records /\ Head(q) = q[1] /\ 1 \in 1..Len(q)
         /\ \A i, j \in ProbeAnswers(Tail(q)) : i = j
         /\ Probing(Head(q)) => ProbeAnswers(Tail(q)) = {}
         /\ \A k \in 1..Len(Tail(q)) : Tail(q)[k] = q[k + 1] /\ k + 1 \in 2..Len(q)
<1>1. /\ Len(q) \in Nat /\ Len(q) # 0 /\ Len(Tail(q)) = Len(q) - 1 /\ Tail(q) \in Seq(Records)
      /\ \A k \in 1..(Len(q) - 1) : Tail(q)[k] = q[k + 1]
      /\ DOMAIN q = 1..Len(q) /\ DOMAIN Tail(q) = 1..(Len(q) - 1)
      /\ Head(q) = q[1]
  BY EmptySeq, LenProperties, HeadTailProperties
<1>2. 1 \in 1..Len(q) /\ q[1] \in Records
  BY <1>1, ElementOfSeq
<1>3. \A k \in 1..(Len(q) - 1) : k + 1 \in 1..Len(q) /\ k + 1 \in 2..Len(q) /\ k + 1 # 1 /\ k \in Nat
  BY <1>1
<1>4. \A k \in ProbeAnswers(Tail(q)) : k + 1 \in ProbeAnswers(q) /\ k + 1 # 1 /\ k \in Nat
  BY <1>1, <1>3 DEF ProbeAnswers
<1>5. ASSUME NEW i \in ProbeAnswers(Tail(q)), NEW j \in ProbeAnswers(Tail(q))
      PROVE  i = j
  <2>1. i + 1 = j + 1 /\ i \in Nat /\ j \in Nat
    BY <1>4
  <2> QED
    BY <2>1
<1>6. Probing(q[1]) => 1 \in ProbeAnswers(q)
  BY <1>1, <1>2 DEF Probing, ProbeAnswers
<1>7. Probing(Head(q)) => ProbeAnswers(Tail(q)) = {}
  BY <1>1, <1>4, <1>6
<1> QED
  BY <1>1, <1>2, <1>3, <1>5, <1>7

LEMMA DroppedProbes ==
  ASSUME NEW q \in Seq(Records), \A i, j \in ProbeAnswers(q) : i = j, NEW k \in 0..Len(q)
  PROVE  /\ SubSeq(q, k + 1, Len(q)) \in Seq(Records)
         /\ \A i, j \in ProbeAnswers(SubSeq(q, k + 1, Len(q))) : i = j
         /\ (\A i \in 1..Len(q) : Probing(q[i])) =>
              \A i \in 1..Len(SubSeq(q, k + 1, Len(q))) : Probing(SubSeq(q, k + 1, Len(q))[i])
<1> DEFINE b == SubSeq(q, k + 1, Len(q))
<1>1. Len(q) \in Nat /\ k \in Nat /\ DOMAIN q = 1..Len(q)
  BY LenProperties
<1>2. /\ b \in Seq(Records) /\ Len(b) = Len(q) - k
      /\ \A i \in 1..(Len(q) - k) : b[i] = q[(k + 1) + i - 1]
  <2>1. PICK m \in Int : m = k + 1
    BY <1>1
  <2>2. \A i \in m..Len(q) : q[i] \in Records
    BY <1>1, <2>1, ElementOfSeq
  <2>3. /\ b \in Seq(Records) /\ Len(b) = IF m <= Len(q) THEN Len(q) - m + 1 ELSE 0
        /\ \A i \in 1..(Len(q) - m + 1) : b[i] = q[m + i - 1]
    BY <1>1, <2>1, <2>2, SubSeqProperties
  <2> HIDE DEF b
  <2>4. Len(q) - m + 1 = Len(q) - k /\ Len(b) = Len(q) - k
    <3>1. k \in Int /\ 0 <= k /\ k <= Len(q) /\ Len(q) \in Int
      BY <1>1
    <3>2. CASE m <= Len(q)
      BY <2>1, <2>3, <3>1, <3>2
    <3>3. CASE ~(m <= Len(q))
      <4>1. Len(q) = k
        BY <2>1, <3>1, <3>3
      <4>2. Len(b) = 0
        BY <2>3, <3>3
      <4> QED
        BY <2>1, <3>1, <4>1, <4>2
    <3> QED
      BY <3>2, <3>3
  <2>5. \A i \in 1..(Len(q) - k) : b[i] = q[m + i - 1]
    BY <2>3, <2>4
  <2> QED
    BY <2>1, <2>3, <2>4, <2>5
<1> HIDE DEF b
<1>3. \A i \in 1..(Len(q) - k) : (k + 1) + i - 1 = k + i /\ k + i \in 1..Len(q) /\ i \in Nat
  BY <1>1
<1>4. DOMAIN b = 1..(Len(q) - k)
  BY <1>2, LenProperties
<1>5. \A i \in ProbeAnswers(b) : k + i \in ProbeAnswers(q) /\ i \in Nat
  BY <1>1, <1>2, <1>3, <1>4 DEF ProbeAnswers
<1>6. ASSUME NEW i \in ProbeAnswers(b), NEW j \in ProbeAnswers(b)
      PROVE  i = j
  <2>1. k + i = k + j /\ i \in Nat /\ j \in Nat
    BY <1>5
  <2> QED
    BY <1>1, <2>1
<1>7. (\A i \in 1..Len(q) : Probing(q[i])) => \A i \in 1..Len(b) : Probing(b[i])
  BY <1>2, <1>3
<1> QED
  BY <1>2, <1>6, <1>7 DEF b

(* A turn that ends leaves nothing of its lifecycle behind. *)
LEMMA TurnEnds ==
  ASSUME TurnInv, Reading, NEW text \in Seq(Nat), NEW rest \in Seq(Records), EndsWith(text, rest),
         \A i, j \in ProbeAnswers(rest) : i = j,
         UNCHANGED <<child, stdin, outbox, isolated, owner, kinds, said>>,
         turn' \in [n : Nat, st : {"idle", "reading", "closing"}, last : Nat, ok : BOOLEAN,
                    settled : BOOLEAN, consumed : BOOLEAN],
         turn'.n = turn.n, turn'.st = IF Human THEN "idle" ELSE "closing",
         ~child.slipped => /\ stdin = <<>> /\ Resting(child)
                           /\ \A k \in 1..Len(rest) : Probing(rest[k]),
         ~child.slipped /\ Human => Answer(turn.n, relay'.acc, turn'.last, turn'.ok)
  PROVE  TurnInv'
<1>1. /\ probe' = "no" /\ parse' = NewParse
      /\ Human => relay' = [st |-> "sending",
                            acc |-> IF text = ErrorText \/ relay.acc = NoText THEN text ELSE relay.acc]
      /\ ~Human => relay' = relay
  BY DEF EndsWith, RelayResult, relayVars
<1>2. /\ stdout' \in Seq(Records) /\ ProbeAnswers(stdout') = {}
      /\ ~child.slipped => stdout' = <<>>
  <2>1. PICK k \in 0..Len(rest) : stdout' = WithoutProbe(SubSeq(rest, k + 1, Len(rest)))
    BY DEF EndsWith
  <2>2. PICK b \in Seq(Records) :
          /\ b = SubSeq(rest, k + 1, Len(rest)) /\ \A i, j \in ProbeAnswers(b) : i = j
          /\ (\A i \in 1..Len(rest) : Probing(rest[i])) => \A i \in 1..Len(b) : Probing(b[i])
    BY DroppedProbes
  <2>3. /\ WithoutProbe(b) \in Seq(Records) /\ ProbeAnswers(WithoutProbe(b)) = {}
        /\ (\A i \in 1..Len(b) : Probing(b[i])) => WithoutProbe(b) = <<>>
    BY <2>2, Unprobed
  <2> QED
    BY <2>1, <2>2, <2>3
<1>3. Human' = Human /\ ~Reading'
  BY DEF Human, Reading
<1>4. relay' \in [st : {"off", "reading", "sending"}, acc : Seq(Nat)]
      /\ (Human => relay'.st = "sending")
  BY <1>1 DEF TurnInv, TypeOK
<1>5. TypeOK'
  BY <1>1, <1>2, <1>4, FreshTypes DEF TurnInv, TypeOK
<1>6. ProbeOnce'
  BY <1>1, <1>2 DEF ProbeOnce
<1>7. TurnsApart'
  <2>1. ~Human => relay.st = "off" /\ relay.acc = NoText
    BY DEF TurnInv, TypeOK, TurnsApart, Reading
  <2>2. turn.n # 0 /\ turn.st = "reading" /\ (Human => outbox = "human")
    BY DEF TurnInv, TurnsApart, Reading
  <2>3. /\ outbox = "internal" => ~Human
        /\ said.box = "human" /\ (Exited => stdin = <<>>)
    BY <2>2 DEF TurnInv, TurnsApart
  <2> QED
    BY <1>1, <1>3, <1>4, <2>1, <2>2, <2>3 DEF TurnsApart, Exited
<1>8. RunKnown' /\ NothingOwed'
  BY <1>2, <1>3 DEF RunKnown, NothingOwed, TurnInv, Resting
<1>9. Answers'
  <2>1. said.clean => Answer(said.n, said.text, said.last, said.ok)'
    BY DEF TurnInv, Answers, Answer
  <2>2. relay'.st = "sending" => Human
    BY <1>1 DEF TurnInv, TurnsApart, Reading
  <2> QED
    BY <1>3, <2>1, <2>2 DEF Answers, Answer
<1> QED
  BY <1>3, <1>5, <1>6, <1>7, <1>8, <1>9 DEF TurnInv, StreamFollowed

(* What the first unread record says of the turn, and the views after it. *)
LEMMA HeadRead ==
  ASSUME TurnInv, Reading, ~child.slipped, stdout # <<>>, NEW rec, rec = Head(stdout),
         NEW v, v = [s |-> parse, acc |-> relay.acc]
  PROVE  /\ rec \in Records /\ v \in Views /\ ViewFits(v, owner, turn.n, Human)
         /\ RecordFits(rec, owner, turn.n)
         /\ stdin # <<>> => Probing(rec)
         /\ Terminal(rec) => /\ Resting(child)
                             /\ \A k \in 1..Len(Tail(stdout)) : Probing(Tail(stdout)[k])
         /\ rec.t = "settled" => Settles(v, rec.r, rec.ok)
         /\ \E r : /\ Follows(r, Tail(stdout), child, stdin, owner, turn.n, Human)
                   /\ r[0] = Viewed(v, rec, turn.n, Human)
<1>1. PICK q \in Seq(Records) : q = stdout
  BY Reader
<1>2. /\ Tail(q) \in Seq(Records) /\ rec \in Records /\ rec = q[1] /\ 1 \in 1..Len(q)
      /\ \A k \in 1..Len(Tail(q)) : Tail(q)[k] = q[k + 1] /\ k + 1 \in 2..Len(q)
      /\ \A k \in 1..Len(Tail(q)) : k + 1 \in 1..Len(q)
  <2>1. \A i, j \in ProbeAnswers(q) : i = j
    BY <1>1 DEF TurnInv, ProbeOnce
  <2>2. /\ Tail(q) \in Seq(Records) /\ rec \in Records /\ rec = q[1] /\ 1 \in 1..Len(q)
        /\ \A k \in 1..Len(Tail(q)) : Tail(q)[k] = q[k + 1] /\ k + 1 \in 2..Len(q)
    BY <1>1, <2>1, TailProbes
  <2> QED
    BY <2>2, LenProperties
<1>3. PICK p : /\ Past(p, q, owner, turn.n, Human)
               /\ Closed(q, child)
               /\ Untaken(p, q, child, turn.n, stdin)
               /\ ViewOfChild(p[Len(q)], child, owner, turn.n)
               /\ p[0] = v
  BY <1>1, Reader
<1>4. /\ v \in Views /\ ViewFits(v, owner, turn.n, Human)
      /\ RecordFits(rec, owner, turn.n)
      /\ Terminal(rec) => \A k \in 2..Len(q) : Probing(q[k])
      /\ rec.t = "settled" => Settles(v, rec.r, rec.ok)
      /\ p[1] = Viewed(v, rec, turn.n, Human)
  <2>1. 0 \in 0..Len(q) /\ 1 - 1 = 0 /\ 1 + 1 = 2 /\ p[0] \in Views
    BY <1>3, PastTypes
  <2> QED
    BY <1>2, <1>3, <2>1 DEF Past, Foreseen
<1>5. stdin # <<>> => Probing(rec)
  BY <1>2, <1>3 DEF Untaken
<1>6. Terminal(rec) => /\ Resting(child)
                       /\ \A k \in 1..Len(Tail(q)) : Probing(Tail(q)[k])
  BY <1>2, <1>3, <1>4 DEF Closed
<1>7. PICK r : /\ Past(r, Tail(q), owner, turn.n, Human)
               /\ \A k \in 0..Len(Tail(q)) : r[k] = p[k + 1] /\ k + 1 \in 0..Len(q)
  <2>1. PICK own, n, h : own = owner /\ n = turn.n /\ h = Human
    OBVIOUS
  <2>2. Past(p, q, own, n, h) /\ q # <<>>
    BY <1>1, <1>3, <2>1
  <2>3. \E r : /\ Past(r, Tail(q), own, n, h)
               /\ \A k \in 0..Len(Tail(q)) : r[k] = p[k + 1] /\ k + 1 \in 0..Len(q)
    BY <2>2, OneLess
  <2> QED
    BY <2>1, <2>3
<1>8. /\ Len(Tail(q)) + 1 = Len(q) /\ 0 \in 0..Len(Tail(q)) /\ 0 + 1 = 1
      /\ Len(Tail(q)) \in 0..Len(Tail(q))
  <2>1. Len(Tail(q)) = Len(q) - 1 /\ Len(q) \in Nat /\ Len(q) # 0
    BY <1>1, EmptySeq, LenProperties, HeadTailProperties
  <2> QED
    BY <2>1
<1>9. r[0] = Viewed(v, rec, turn.n, Human) /\ r[Len(Tail(q))] = p[Len(q)]
  BY <1>4, <1>7, <1>8
<1>10. Closed(Tail(q), child)
  BY <1>2, <1>3 DEF Closed
<1>11. Untaken(r, Tail(q), child, turn.n, stdin)
  BY <1>2, <1>3, <1>7 DEF Untaken
<1>12. Follows(r, Tail(q), child, stdin, owner, turn.n, Human)
  BY <1>3, <1>7, <1>9, <1>10, <1>11 DEF Follows
<1> QED
  BY <1>1, <1>2, <1>4, <1>5, <1>6, <1>9, <1>12

LEMMA UnprobedFollows ==
  ASSUME NEW q \in Seq(Records), \A i, j \in ProbeAnswers(q) : i = j,
         NEW p, NEW c, NEW in, NEW own, NEW n, NEW h \in BOOLEAN, Follows(p, q, c, in, own, n, h)
  PROVE  \E r : Follows(r, WithoutProbe(q), c, in, own, n, h) /\ r[0] = p[0]
<1>1. PICK w \in Seq(Records) :
        /\ w = WithoutProbe(q)
        /\ \A k \in 1..Len(w) : \E j \in 1..Len(q) : w[k] = q[j]
  BY Unprobed
<1>2. PICK r : /\ Past(r, w, own, n, h)
               /\ r[0] = p[0] /\ r[Len(w)] = p[Len(q)]
               /\ \A k \in 0..Len(w) : \E j \in 0..Len(q) : r[k] = p[j]
  BY <1>1, UnprobedPast DEF Follows
<1>3. Closed(w, c)
  BY <1>1 DEF Closed, Follows
<1>4. Untaken(r, w, c, n, in)
  BY <1>1, <1>2 DEF Untaken, Follows
<1> QED
  BY <1>1, <1>2, <1>3, <1>4 DEF Follows

(* The reader goes on: it has read nothing, or a record, or dropped an     *)
(* answer of the watchdog.                                                 *)
LEMMA ReaderGoesOn ==
  ASSUME TurnInv, Reading, UNCHANGED <<stdin, outbox, isolated, owner, kinds, said>>,
         turn' \in [n : Nat, st : {"idle", "reading", "closing"}, last : Nat, ok : BOOLEAN,
                    settled : BOOLEAN, consumed : BOOLEAN],
         turn'.n = turn.n, turn'.st = "reading", turn'.last = turn.last,
         parse' \in ParseStates, stdout' \in Seq(Records),
         probe' = "no", ProbeAnswers(stdout') = {},
         child' \in Children, child'.slipped = child.slipped, child'.queue = child.queue,
         child'.err = child.err, child'.kind = child.kind,
         child'.st = child.st \/ (child.st = "dialog" /\ child'.st = "running"),
         relay' \in [st : {"off", "reading", "sending"}, acc : Seq(Nat)], relay'.st = relay.st,
         relay.st = "off" => relay' = relay,
         ~child.slipped =>
           \E p : /\ Follows(p, stdout', child, stdin, owner, turn.n, Human)
                  /\ p[0] = [s |-> parse', acc |-> relay'.acc]
  PROVE  TurnInv'
<1>1. Human' = Human /\ Reading'
  BY DEF Human, Reading
<1>2. TypeOK'
  BY DEF TurnInv, TypeOK
<1>3. ProbeOnce'
  BY DEF ProbeOnce
<1>4. TurnsApart'
  BY <1>1 DEF TurnInv, TurnsApart, Reading, Exited
<1>5. RunKnown'
  BY DEF TurnInv, RunKnown
<1>6. NothingOwed'
  BY <1>1 DEF TurnInv, NothingOwed
<1>7. Answers'
  <2>1. relay.st # "sending" /\ turn.last = 0
    BY DEF TurnInv, TurnsApart, Answers, Reading
  <2> QED
    BY <2>1 DEF TurnInv, Answers, Answer
<1>8. StreamFollowed'
  <2>1. SUFFICES ASSUME ~child.slipped
                 PROVE  \E p : /\ Follows(p, stdout', child', stdin, owner, turn.n, Human)
                               /\ p[0] = [s |-> parse', acc |-> relay'.acc]
    BY <1>1 DEF StreamFollowed
  <2>2. PICK p : /\ Follows(p, stdout', child, stdin, owner, turn.n, Human)
                 /\ p[0] = [s |-> parse', acc |-> relay'.acc]
    BY <2>1
  <2>3. Follows(p, stdout', child', stdin, owner, turn.n, Human)
    <3>1. Closed(stdout', child')
      BY <2>2 DEF Follows, Closed, Resting
    <3>2. Untaken(p, stdout', child', turn.n, stdin)
      BY <2>2 DEF Follows, Untaken
    <3>3. ViewOfChild(p[Len(stdout')], child', owner, turn.n)
      <4>1. CASE child.st = "dialog" /\ child'.st = "running"
        BY <2>2, <4>1 DEF Follows, ViewOfChild
      <4>2. CASE child'.st = child.st
        BY <2>2, <4>2 DEF Follows, ViewOfChild
      <4> QED
        BY <4>1, <4>2
    <3> QED
      BY <2>2, <3>1, <3>2, <3>3 DEF Follows
  <2> QED
    BY <2>2, <2>3
<1> QED
  BY <1>2, <1>3, <1>4, <1>5, <1>6, <1>7, <1>8 DEF TurnInv

LEMMA ReadProbeHolds == TurnInv /\ ReadProbe => TurnInv'
<1> SUFFICES ASSUME TurnInv, ReadProbe
             PROVE  TurnInv'
  OBVIOUS
<1>1. PICK rec : rec = Head(stdout)
  OBVIOUS
<1>2. /\ Reading /\ stdout # <<>> /\ Probing(rec)
      /\ child' = child \/ child' = [child EXCEPT !.killed = TRUE]
      /\ stdout' = Tail(stdout) /\ probe' = "no"
      /\ UNCHANGED <<turn, parse, stdin, outbox, isolated, owner, kinds, said, relay>>
  BY <1>1 DEF ReadProbe, Terminate, relayVars, Probing
<1>3. /\ child' \in Children /\ child'.slipped = child.slipped /\ child'.queue = child.queue
      /\ child'.err = child.err /\ child'.kind = child.kind /\ child'.st = child.st
  BY <1>2, Reader DEF Children
<1>4. stdout' \in Seq(Records) /\ ProbeAnswers(stdout') = {}
  BY <1>1, <1>2, Reader, TailProbes DEF TurnInv, ProbeOnce
<1>5. ASSUME ~child.slipped
      PROVE  \E p : /\ Follows(p, stdout', child, stdin, owner, turn.n, Human)
                    /\ p[0] = [s |-> parse', acc |-> relay'.acc]
  <2>1. PICK v : v = [s |-> parse, acc |-> relay.acc]
    OBVIOUS
  <2>2. v \in Views /\ \E r : /\ Follows(r, Tail(stdout), child, stdin, owner, turn.n, Human)
                              /\ r[0] = Viewed(v, rec, turn.n, Human)
    BY <1>1, <1>2, <1>5, <2>1, HeadRead
  <2>3. Viewed(v, rec, turn.n, Human) = v
    BY <1>2, <2>2, Reader, OtherViewed DEF Probing
  <2> QED
    BY <1>2, <2>1, <2>2, <2>3
<1>6. /\ turn \in [n : Nat, st : {"idle", "reading", "closing"}, last : Nat, ok : BOOLEAN,
                   settled : BOOLEAN, consumed : BOOLEAN]
      /\ turn.st = "reading" /\ parse \in ParseStates
      /\ relay \in [st : {"off", "reading", "sending"}, acc : Seq(Nat)]
  BY <1>2 DEF TurnInv, TypeOK, Reading
<1> QED
  BY <1>2, <1>3, <1>4, <1>5, <1>6, ReaderGoesOn

LEMMA ProbeTimeoutHolds == TurnInv /\ ProbeTimeout => TurnInv'
<1> SUFFICES ASSUME TurnInv, ProbeTimeout
             PROVE  TurnInv'
  OBVIOUS
<1>1. /\ Reading /\ child' = [child EXCEPT !.killed = TRUE]
      /\ stdout' = WithoutProbe(stdout) /\ probe' = "no"
      /\ UNCHANGED <<turn, parse, stdin, outbox, isolated, owner, kinds, said, relay>>
  BY DEF ProbeTimeout, Terminate, relayVars
<1>2. /\ child' \in Children /\ child'.slipped = child.slipped /\ child'.queue = child.queue
      /\ child'.err = child.err /\ child'.kind = child.kind /\ child'.st = child.st
  BY <1>1, Reader DEF Children
<1>3. stdout \in Seq(Records) /\ \A i, j \in ProbeAnswers(stdout) : i = j
  BY Reader DEF TurnInv, ProbeOnce
<1>4. stdout' \in Seq(Records) /\ ProbeAnswers(stdout') = {}
  BY <1>1, <1>3, Unprobed
<1>5. ASSUME ~child.slipped
      PROVE  \E p : /\ Follows(p, stdout', child, stdin, owner, turn.n, Human)
                    /\ p[0] = [s |-> parse', acc |-> relay'.acc]
  <2>1. PICK p : /\ Follows(p, stdout, child, stdin, owner, turn.n, Human)
                 /\ p[0] = [s |-> parse, acc |-> relay.acc]
    BY <1>1, <1>5 DEF TurnInv, StreamFollowed
  <2>2. PICK q \in Seq(Records) : q = stdout
    BY <1>3
  <2>3. PICK h \in BOOLEAN : h = Human
    BY Reader
  <2>4. PICK c, in, own, n : c = child /\ in = stdin /\ own = owner /\ n = turn.n
    OBVIOUS
  <2>5. Follows(p, q, c, in, own, n, h) /\ \A i, j \in ProbeAnswers(q) : i = j
    BY <1>3, <2>1, <2>2, <2>3, <2>4
  <2>6. \E r : Follows(r, WithoutProbe(q), c, in, own, n, h) /\ r[0] = p[0]
    BY <2>5, UnprobedFollows
  <2> QED
    BY <1>1, <2>1, <2>2, <2>3, <2>4, <2>6
<1>6. /\ turn \in [n : Nat, st : {"idle", "reading", "closing"}, last : Nat, ok : BOOLEAN,
                   settled : BOOLEAN, consumed : BOOLEAN]
      /\ turn.st = "reading" /\ parse \in ParseStates
      /\ relay \in [st : {"off", "reading", "sending"}, acc : Seq(Nat)]
  BY <1>1 DEF TurnInv, TypeOK, Reading
<1> QED
  BY <1>1, <1>2, <1>4, <1>5, <1>6, ReaderGoesOn

(* The relay and the parse state make of a record what its view says. *)
LEMMA TranslatedView ==
  ASSUME TurnInv, Reading, NEW rec \in Records, RelayLine(parse, rec),
         NEW v, v = [s |-> parse, acc |-> relay.acc], NEW s, s = Parsed(parse, rec)
  PROVE  /\ v \in Views /\ s \in ParseStates
         /\ relay' \in [st : {"off", "reading", "sending"}, acc : Seq(Nat)]
         /\ relay'.st = relay.st /\ (relay.st = "off" => relay' = relay)
         /\ Viewed(v, rec, turn.n, Human) = [s |-> s, acc |-> relay'.acc]
<1>1. /\ relay \in [st : {"off", "reading", "sending"}, acc : Seq(Nat)] /\ parse \in ParseStates
      /\ (Human <=> relay.st = "reading")
  BY DEF TurnInv, TypeOK, TurnsApart
<1>2. v \in Views /\ v.s = parse /\ v.acc = relay.acc
  BY <1>1 DEF Views
<1>3. s = ParsedBy(parse, rec, turn.n)
  BY ParsedIs
<1>4. PICK w : w = Viewed(v, rec, turn.n, Human) /\ w \in Views
  BY <1>2, Reader, ViewedTyped
<1>5. w.s = s /\ w.acc = IF Human THEN Gathered(v, rec) ELSE relay.acc
  BY <1>2, <1>3, <1>4 DEF Viewed
<1>6. w.s \in ParseStates /\ w.acc \in Seq(Nat) /\ w = [s |-> w.s, acc |-> w.acc]
  BY <1>4, ViewShape
<1>7. relay' = [st |-> relay.st, acc |-> w.acc]
  <2>1. CASE ~Human
    BY <1>1, <1>5, <2>1 DEF RelayLine, relayVars
  <2>2. CASE Human /\ rec.t = "delta"
    BY <1>1, <1>2, <1>5, <2>2 DEF RelayLine, RelayText, Gathered
  <2>3. CASE Human /\ rec.t # "delta" /\ Resets(parse, rec)
    BY <1>1, <1>2, <1>5, <2>3 DEF RelayLine, RelayReset, Gathered
  <2>4. CASE Human /\ rec.t # "delta" /\ ~Resets(parse, rec)
    BY <1>1, <1>2, <1>5, <2>4 DEF RelayLine, relayVars, Gathered
  <2> QED
    BY <2>1, <2>2, <2>3, <2>4
<1>8. relay.st = "off" => w.acc = relay.acc
  BY <1>1, <1>5
<1>9. relay = [st |-> relay.st, acc |-> relay.acc]
  BY <1>1
<1> QED
  BY <1>1, <1>2, <1>4, <1>5, <1>6, <1>7, <1>8, <1>9

LEMMA TranslatesHold ==
  ASSUME TurnInv, Reading, stdout # <<>>, NEW rec, rec = Head(stdout), ~Probing(rec),
         Translate(rec), NEW b \in BOOLEAN, turn' = [turn EXCEPT !.consumed = b],
         UNCHANGED <<stdin, outbox, isolated, owner, kinds, said>>
  PROVE  TurnInv'
<1>1. /\ stdout' = WithoutProbe(Tail(stdout)) /\ probe' = "no" /\ parse' = Parsed(parse, rec)
      /\ RelayLine(parse, rec)
  BY DEF Translate
<1>2. stdout \in Seq(Records) /\ \A i, j \in ProbeAnswers(stdout) : i = j
  BY Reader DEF TurnInv, ProbeOnce
<1>3. PICK q \in Seq(Records) : /\ q = Tail(stdout) /\ \A i, j \in ProbeAnswers(q) : i = j
                                /\ rec \in Records
  BY <1>2, TailProbes
<1>4. stdout' \in Seq(Records) /\ ProbeAnswers(stdout') = {}
  BY <1>1, <1>3, Unprobed
<1>5. /\ child' \in Children /\ child'.slipped = child.slipped /\ child'.queue = child.queue
      /\ child'.err = child.err /\ child'.kind = child.kind
      /\ child'.st = child.st \/ (child.st = "dialog" /\ child'.st = "running")
  <2>1. PICK d \in Nat : d = child.deltas + 1
    BY ChildShape
  <2>2. \/ child' = child
        \/ child.st = "dialog" /\ child' = [child EXCEPT !.st = "running", !.deltas = d]
    BY <2>1 DEF Translate, CancelDialog
  <2> QED
    BY <2>2, Reader DEF Children
<1>6. PICK v : v = [s |-> parse, acc |-> relay.acc]
  OBVIOUS
<1>7. /\ parse' \in ParseStates
      /\ relay' \in [st : {"off", "reading", "sending"}, acc : Seq(Nat)]
      /\ relay'.st = relay.st /\ (relay.st = "off" => relay' = relay)
      /\ Viewed(v, rec, turn.n, Human) = [s |-> parse', acc |-> relay'.acc]
  BY <1>1, <1>3, <1>6, TranslatedView
<1>8. ASSUME ~child.slipped
      PROVE  \E p : /\ Follows(p, stdout', child, stdin, owner, turn.n, Human)
                    /\ p[0] = [s |-> parse', acc |-> relay'.acc]
  <2>1. PICK r : /\ Follows(r, q, child, stdin, owner, turn.n, Human)
                 /\ r[0] = Viewed(v, rec, turn.n, Human)
    BY <1>3, <1>6, <1>8, HeadRead
  <2>3. PICK h \in BOOLEAN : h = Human
    BY Reader
  <2>4. PICK c, in, own, n : c = child /\ in = stdin /\ own = owner /\ n = turn.n
    OBVIOUS
  <2>5. Follows(r, q, c, in, own, n, h) /\ \A i, j \in ProbeAnswers(q) : i = j
    BY <1>3, <2>1, <2>3, <2>4
  <2>6. \E p : Follows(p, WithoutProbe(q), c, in, own, n, h) /\ p[0] = r[0]
    BY <2>5, UnprobedFollows
  <2> QED
    BY <1>1, <1>3, <1>7, <2>1, <2>3, <2>4, <2>6
<1>9. /\ turn' \in [n : Nat, st : {"idle", "reading", "closing"}, last : Nat, ok : BOOLEAN,
                    settled : BOOLEAN, consumed : BOOLEAN]
      /\ turn'.st = "reading" /\ turn'.n = turn.n /\ turn'.last = turn.last
  BY DEF TurnInv, TypeOK, Reading
<1> QED
  BY <1>1, <1>4, <1>5, <1>7, <1>8, <1>9, ReaderGoesOn

LEMMA TextTypes == NoText \in Seq(Nat) /\ ErrorText \in Seq(Nat)
<1>1. <<0>> \in Seq(Nat) /\ <<>> \in Seq(Nat)
  OBVIOUS
<1> QED
  BY <1>1 DEF NoText, ErrorText

LEMMA ReadRecordHolds == TurnInv /\ ReadRecord => TurnInv'
<1> SUFFICES ASSUME TurnInv, ReadRecord
             PROVE  TurnInv'
  OBVIOUS
<1>1. PICK rec : rec = Head(stdout)
  OBVIOUS
<1>2. /\ Reading /\ stdout # <<>> /\ ~Probing(rec)
      /\ UNCHANGED <<stdin, outbox, isolated, owner, kinds, said>>
  BY <1>1 DEF ReadRecord, Probing
<1>3. CASE Rejects(rec)
  <2>1. /\ EndsWith(ErrorText, Tail(stdout)) /\ child' = child
        /\ turn' = [turn EXCEPT !.st = IF Human THEN "idle" ELSE "closing"]
    BY <1>1, <1>3 DEF ReadRecord
  <2>2. /\ turn' \in [n : Nat, st : {"idle", "reading", "closing"}, last : Nat, ok : BOOLEAN,
                      settled : BOOLEAN, consumed : BOOLEAN]
        /\ turn'.n = turn.n /\ turn'.st = IF Human THEN "idle" ELSE "closing"
        /\ turn'.last = 0
    BY <1>2, <2>1 DEF TurnInv, TypeOK, Answers
  <2>3. PICK rest \in Seq(Records) : rest = Tail(stdout) /\ \A i, j \in ProbeAnswers(rest) : i = j
    BY <1>2, Reader, TailProbes DEF TurnInv, ProbeOnce
  <2>4. ~child.slipped => /\ stdin = <<>> /\ Resting(child)
                          /\ \A k \in 1..Len(rest) : Probing(rest[k])
    <3>1. PICK v : v = [s |-> parse, acc |-> relay.acc]
      OBVIOUS
    <3>2. Terminal(rec)
      BY <1>3 DEF Terminal, Rejects
    <3> QED
      BY <1>1, <1>2, <2>3, <3>1, <3>2, HeadRead
  <2>5. Human => Answer(turn.n, relay'.acc, turn'.last, turn'.ok)
    BY <2>1, <2>2, TextFacts DEF Answer, EndsWith, RelayResult
  <2>6. PICK text \in Seq(Nat) : text = ErrorText
    BY TextTypes
  <2> QED
    BY <1>2, <2>1, <2>2, <2>3, <2>4, <2>5, <2>6, TurnEnds
<1>4. CASE ~Rejects(rec)
  <2>1. /\ Translate(rec)
        /\ turn' = [turn EXCEPT !.consumed = @ \/ (rec.t = "start" /\ owner[rec.r] = turn.n)]
    BY <1>1, <1>4 DEF ReadRecord
  <2>2. PICK b \in BOOLEAN : b <=> turn.consumed \/ (rec.t = "start" /\ owner[rec.r] = turn.n)
    OBVIOUS
  <2>3. turn' = [turn EXCEPT !.consumed = b]
    BY <2>1, <2>2
  <2> QED
    BY <1>1, <1>2, <2>1, <2>3, TranslatesHold
<1> QED
  BY <1>3, <1>4

(* The answer of a lifecycle that settled is its last run's. *)
LEMMA SettledAnswer ==
  ASSUME NEW v \in Views, NEW r \in Nat, NEW ok \in BOOLEAN, NEW n, Settles(v, r, ok),
         TextOf(owner, n, v.acc), TextOf(owner, n, v.s.pend),
         NEW text, text = SettledText(v.s),
         NEW acc, acc = IF text = ErrorText \/ v.acc = NoText THEN text ELSE v.acc
  PROVE  Answer(n, acc, r, ok)
<1>1. CASE ok
  <2>1. v.s.pend = <<r>> /\ ~v.s.length /\ ToSet(v.acc) \subseteq {r} /\ r # 0 /\ v.acc \in Seq(Nat)
    BY <1>1, ViewShape DEF Settles
  <2>2. text = <<r>>
    BY <2>1, TextFacts DEF SettledText
  <2>3. text # ErrorText
    <3>1. ToSet(text) = {r} /\ ToSet(ErrorText) = {0}
      BY <2>2, TextFacts
    <3> QED
      BY <2>1, <3>1
  <2>4. CASE v.acc = NoText
    BY <1>1, <2>1, <2>2, <2>4, TextFacts DEF Answer
  <2>5. CASE v.acc # NoText
    <3>1. acc = v.acc
      BY <2>3, <2>5
    <3>2. ToSet(v.acc) # {}
      <4>1. Len(v.acc) \in Nat /\ Len(v.acc) # 0 /\ DOMAIN v.acc = 1..Len(v.acc)
        BY <2>1, <2>5, LenProperties, EmptySeq DEF NoText
      <4>2. 1 \in DOMAIN v.acc
        BY <4>1
      <4> QED
        BY <4>2 DEF ToSet
    <3>3. ToSet(v.acc) = {r}
      BY <2>1, <3>2
    <3> QED
      BY <1>1, <2>5, <3>1, <3>3 DEF Answer
  <2> QED
    BY <2>4, <2>5
<1>2. CASE ~ok
  <2>1. text = ErrorText
    BY <1>2 DEF Settles, SettledText
  <2> QED
    BY <1>2, <2>1, TextFacts DEF Answer
<1> QED
  BY <1>1, <1>2

LEMMA ReadSettledHolds == TurnInv /\ ReadSettled => TurnInv'
<1> SUFFICES ASSUME TurnInv, ReadSettled
             PROVE  TurnInv'
  OBVIOUS
<1>1. PICK rec : rec = Head(stdout)
  OBVIOUS
<1>2. /\ Reading /\ stdout # <<>> /\ rec.t = "settled" /\ ~Probing(rec) /\ Terminal(rec)
      /\ EndsWith(SettledText(parse), Tail(stdout))
      /\ turn' = [turn EXCEPT !.st = IF Human THEN "idle" ELSE "closing",
                              !.settled = TRUE, !.last = rec.r, !.ok = rec.ok]
      /\ UNCHANGED <<child, stdin, outbox, isolated, owner, kinds, said>>
  BY <1>1 DEF ReadSettled, Probing, Terminal
<1>3. PICK rest \in Seq(Records) : /\ rest = Tail(stdout) /\ \A i, j \in ProbeAnswers(rest) : i = j
                                   /\ rec \in Records
  BY <1>1, <1>2, Reader, TailProbes DEF TurnInv, ProbeOnce
<1>4. PICK r \in Nat, ok \in BOOLEAN : r = rec.r /\ ok = rec.ok
  BY <1>2, <1>3, RecordShape
<1>5. /\ turn' \in [n : Nat, st : {"idle", "reading", "closing"}, last : Nat, ok : BOOLEAN,
                    settled : BOOLEAN, consumed : BOOLEAN]
      /\ turn'.n = turn.n /\ turn'.st = IF Human THEN "idle" ELSE "closing"
      /\ turn'.last = r /\ turn'.ok = ok
  <2>1. turn' = [turn EXCEPT !.st = IF Human THEN "idle" ELSE "closing",
                             !.settled = TRUE, !.last = r, !.ok = ok]
    BY <1>2, <1>4
  <2> QED
    BY <2>1 DEF TurnInv, TypeOK
<1>6. PICK text \in Seq(Nat) : text = SettledText(parse)
  <2>1. parse.pend \in Seq(Nat)
    BY DEF TurnInv, TypeOK, ParseStates
  <2> QED
    BY <2>1, TextTypes DEF SettledText
<1>7. PICK v : v = [s |-> parse, acc |-> relay.acc]
  OBVIOUS
<1>8. ASSUME ~child.slipped
      PROVE  /\ stdin = <<>> /\ Resting(child)
             /\ \A k \in 1..Len(rest) : Probing(rest[k])
             /\ v \in Views /\ Settles(v, r, ok) /\ ViewFits(v, owner, turn.n, Human)
  BY <1>1, <1>2, <1>3, <1>4, <1>7, <1>8, HeadRead
<1>9. ASSUME ~child.slipped, Human
      PROVE  Answer(turn.n, relay'.acc, turn'.last, turn'.ok)
  <2>1. relay'.acc = IF text = ErrorText \/ v.acc = NoText THEN text ELSE v.acc
    BY <1>2, <1>6, <1>7, <1>9 DEF EndsWith, RelayResult
  <2>2. PICK acc, n : acc = relay'.acc /\ n = turn.n
    OBVIOUS
  <2>3. v \in Views /\ Settles(v, r, ok) /\ TextOf(owner, n, v.acc) /\ TextOf(owner, n, v.s.pend)
    BY <1>8, <1>9, <2>2 DEF ViewFits
  <2>4. text = SettledText(v.s)
    BY <1>6, <1>7
  <2>5. Answer(n, acc, r, ok)
    BY <2>1, <2>2, <2>3, <2>4, SettledAnswer
  <2> QED
    BY <1>5, <2>2, <2>5
<1> QED
  BY <1>2, <1>3, <1>5, <1>6, <1>8, <1>9, TurnEnds

LEMMA ReadDrainedHolds == TurnInv /\ ReadDrained => TurnInv'
<1> SUFFICES ASSUME TurnInv, ReadDrained
             PROVE  TurnInv'
  OBVIOUS
<1>1. PICK text \in Seq(Nat) : /\ EndsWith(text, <<>>)
                               /\ text \in {NoText, ErrorText}
  BY TextTypes DEF ReadDrained, EofText
<1>2. /\ Reading /\ stdout = <<>> /\ (HandledOnly \/ Exited)
      /\ turn' = [turn EXCEPT !.st = IF Human THEN "idle" ELSE "closing"]
      /\ UNCHANGED <<child, stdin, outbox, isolated, owner, kinds, said>>
  BY DEF ReadDrained, StdoutEnded
<1>3. /\ turn' \in [n : Nat, st : {"idle", "reading", "closing"}, last : Nat, ok : BOOLEAN,
                    settled : BOOLEAN, consumed : BOOLEAN]
      /\ turn'.n = turn.n /\ turn'.st = IF Human THEN "idle" ELSE "closing"
      /\ turn'.last = 0
  BY <1>2 DEF TurnInv, TypeOK, Answers
<1>4. PICK rest \in Seq(Records) : rest = <<>> /\ ProbeAnswers(rest) = {} /\ Len(rest) = 0
  <2>1. <<>> \in Seq(Records) /\ Len(<<>>) = 0 /\ DOMAIN <<>> = {}
    BY EmptySeq
  <2>2. ProbeAnswers(<<>>) = {}
    BY <2>1 DEF ProbeAnswers
  <2> QED
    BY <2>1, <2>2
<1>5. ASSUME ~child.slipped
      PROVE  stdin = <<>> /\ Resting(child) /\ TextOf(owner, turn.n, relay.acc)
  <2>1. PICK p : /\ Past(p, stdout, owner, turn.n, Human)
                 /\ Untaken(p, stdout, child, turn.n, stdin)
                 /\ ViewOfChild(p[Len(stdout)], child, owner, turn.n)
                 /\ p[0] = [s |-> parse, acc |-> relay.acc]
    BY <1>2, <1>5, Reader
  <2>2. Len(stdout) = 0 /\ 0 \in 0..0
    BY <1>2
  <2>3. TextOf(owner, turn.n, relay.acc)
    BY <2>1, <2>2 DEF Past, ViewFits
  <2>4. CASE HandledOnly
    <3>1. parse.handled /\ ~parse.life
      BY <2>4 DEF HandledOnly
    <3>2. stdin = <<>>
      <4>1. stdin # <<>> => p[0] = StartView
        BY <2>1, <2>2 DEF Untaken
      <4> QED
        BY <2>1, <3>1, <4>1 DEF StartView, NewParse
    <3>3. child.st \notin {"running", "dialog", "ended"}
      BY <2>1, <2>2, <3>1 DEF ViewOfChild
    <3> QED
      BY <2>3, <3>2, <3>3, ChildShape DEF Resting
  <2>5. CASE Exited
    BY <2>3, <2>5 DEF TurnInv, TurnsApart, Resting, Exited
  <2> QED
    BY <1>2, <2>4, <2>5
<1>6. ASSUME ~child.slipped, Human
      PROVE  Answer(turn.n, relay'.acc, turn'.last, turn'.ok)
  <2>1. relay'.acc \in {NoText, ErrorText, relay.acc}
    BY <1>1, <1>6 DEF EndsWith, RelayResult
  <2>2. TextOf(owner, turn.n, relay'.acc)
    BY <1>5, <1>6, <2>1, TextFacts
  <2> QED
    BY <1>3, <2>2 DEF Answer
<1>7. \A i, j \in ProbeAnswers(rest) : i = j
  BY <1>4
<1>8. \A k \in 1..Len(rest) : Probing(rest[k])
  BY <1>4
<1>9. EndsWith(text, rest)
  BY <1>1, <1>4
<1> QED
  BY <1>2, <1>3, <1>5, <1>6, <1>7, <1>8, <1>9, TurnEnds

-----------------------------------------------------------------------------
(* The watchdog, the end of an internal turn and the delivery. *)

LEMMA ActivityHolds == TurnInv /\ ActivityTimeout => TurnInv'
<1> SUFFICES ASSUME TurnInv, ActivityTimeout
             PROVE  TurnInv'
  OBVIOUS
<1>1. /\ Reading /\ probe = "no" /\ probe' = "asked"
      /\ UNCHANGED <<turn, parse, child, stdout, stdin, outbox, isolated, owner, kinds, said, relay>>
  BY DEF ActivityTimeout, relayVars
<1>2. TypeOK' /\ ProbeOnce'
  BY <1>1 DEF TurnInv, TypeOK, ProbeOnce, Reading
<1>3. TurnsApart' /\ RunKnown' /\ NothingOwed' /\ Answers'
  BY <1>1 DEF TurnInv, TurnsApart, RunKnown, NothingOwed, Answers, Answer, Reading, Human, Exited
<1>4. StreamFollowed'
  BY <1>1 DEF TurnInv, StreamFollowed, Reading, Human
<1> QED
  BY <1>2, <1>3, <1>4 DEF TurnInv

LEMMA StopHolds == TurnInv /\ StopUnsettled => TurnInv'
<1> SUFFICES ASSUME TurnInv, StopUnsettled
             PROVE  TurnInv'
  OBVIOUS
<1>1. /\ turn.st = "closing" /\ isolated' = TRUE /\ child' = [child EXCEPT !.killed = TRUE]
      /\ UNCHANGED <<turn, parse, stdout, stdin, probe, outbox, owner, kinds, said, relay>>
  BY DEF StopUnsettled, Terminate, relayVars
<1>2. /\ child' \in Children /\ child'.slipped = child.slipped /\ child'.queue = child.queue
      /\ child'.err = child.err /\ child'.st = child.st
  BY <1>1, Reader DEF Children
<1>3. ~Reading' /\ ~Reading
  BY <1>1 DEF Reading
<1>4. TypeOK' /\ ProbeOnce'
  BY <1>1, <1>2, <1>3 DEF TurnInv, TypeOK, ProbeOnce
<1>5. TurnsApart' /\ RunKnown' /\ NothingOwed' /\ Answers'
  BY <1>1, <1>2, <1>3
     DEF TurnInv, TurnsApart, RunKnown, NothingOwed, Answers, Answer, Human, Exited, Resting
<1> QED
  BY <1>3, <1>4, <1>5 DEF TurnInv, StreamFollowed

LEMMA GivesBackHolds == TurnInv /\ GiveOutboxBack => TurnInv'
<1> SUFFICES ASSUME TurnInv, GiveOutboxBack
             PROVE  TurnInv'
  OBVIOUS
<1>1. /\ turn.st = "closing" /\ turn' = [turn EXCEPT !.st = "idle"]
      /\ (outbox' = "human" /\ isolated' = isolated) \/ (outbox' = outbox /\ isolated' = TRUE)
      /\ UNCHANGED <<parse, child, stdout, stdin, probe, owner, kinds, said, relay>>
  BY DEF GiveOutboxBack, relayVars
<1>2. ~Reading' /\ ~Reading /\ relay.st = "off"
  BY <1>1 DEF TurnInv, TypeOK, TurnsApart, Reading
<1>3. TypeOK' /\ turn'.st = "idle" /\ turn'.n = turn.n
  BY <1>1 DEF TurnInv, TypeOK
<1>4. ProbeOnce' /\ RunKnown' /\ NothingOwed' /\ Answers'
  BY <1>1, <1>2 DEF TurnInv, ProbeOnce, RunKnown, NothingOwed, Answers, Answer, Resting
<1>5. TurnsApart'
  BY <1>1, <1>2, <1>3 DEF TurnInv, TurnsApart, Exited
<1> QED
  BY <1>2, <1>3, <1>4, <1>5 DEF TurnInv, StreamFollowed

LEMMA DeliverHolds == TurnInv /\ (\E sent \in BOOLEAN : Deliver(sent)) => TurnInv'
<1> SUFFICES ASSUME TurnInv, NEW sent \in BOOLEAN, Deliver(sent)
             PROVE  TurnInv'
  OBVIOUS
<1>1. PICK clean \in BOOLEAN : clean <=> ~child.slipped
  OBVIOUS
<1>2. /\ relay.st = "sending" /\ relay' = RelayOff
      /\ \/ said' = said
         \/ said' = [n |-> turn.n, text |-> relay.acc, ok |-> turn.ok, last |-> turn.last,
                     box |-> outbox, clean |-> clean]
      /\ UNCHANGED <<turn, parse, child, stdout, stdin, probe, outbox, isolated, owner, kinds>>
  BY <1>1 DEF Deliver, RelayEnds
<1>3. ~Reading' /\ ~Reading /\ outbox = "human" /\ turn.st = "idle"
  BY <1>2 DEF TurnInv, TurnsApart, Reading
<1>4. relay'.st = "off" /\ relay'.acc = NoText
      /\ relay' \in [st : {"off", "reading", "sending"}, acc : Seq(Nat)]
  BY <1>2, TextTypes DEF RelayOff
<1>5. TypeOK'
  BY <1>2, <1>4 DEF TurnInv, TypeOK
<1>6. ProbeOnce' /\ RunKnown' /\ NothingOwed'
  BY <1>2, <1>3 DEF TurnInv, ProbeOnce, RunKnown, NothingOwed, Resting
<1>7. TurnsApart'
  BY <1>2, <1>3, <1>4 DEF TurnInv, TurnsApart, Exited
<1>8. Answers'
  <2>1. ~child.slipped => Answer(turn.n, relay.acc, turn.last, turn.ok)
    BY <1>2 DEF TurnInv, Answers
  <2>2. CASE said' = said
    BY <1>2, <1>3, <1>4, <2>2 DEF TurnInv, Answers, Answer
  <2>3. CASE said' = [n |-> turn.n, text |-> relay.acc, ok |-> turn.ok, last |-> turn.last,
                      box |-> outbox, clean |-> clean]
    <3>1. /\ said'.n = turn.n /\ said'.text = relay.acc /\ said'.last = turn.last
          /\ said'.ok = turn.ok /\ (said'.clean <=> ~child.slipped)
      BY <1>1, <2>3
    <3> QED
      BY <1>2, <1>3, <1>4, <2>1, <3>1 DEF Answers, Answer
  <2> QED
    BY <1>2, <2>2, <2>3
<1> QED
  BY <1>3, <1>5, <1>6, <1>7, <1>8 DEF TurnInv, StreamFollowed

LEMMA StaysHold ==
  TurnInv /\ UNCHANGED <<turn, parse, child, stdout, stdin, probe, outbox, isolated, owner, kinds,
                         said, relay>> => TurnInv'
<1> SUFFICES ASSUME TurnInv,
                    UNCHANGED <<turn, parse, child, stdout, stdin, probe, outbox, isolated, owner,
                                kinds, said, relay>>
             PROVE  TurnInv'
  OBVIOUS
<1>1. TypeOK' /\ ProbeOnce'
  BY DEF TurnInv, TypeOK, ProbeOnce, Reading
<1>2. TurnsApart' /\ RunKnown' /\ NothingOwed' /\ Answers'
  BY DEF TurnInv, TurnsApart, RunKnown, NothingOwed, Answers, Answer, Reading, Human, Exited,
         Resting
<1>3. StreamFollowed'
  BY DEF TurnInv, StreamFollowed, Reading, Human
<1> QED
  BY <1>1, <1>2, <1>3 DEF TurnInv

LEMMA DraftHolds == TurnInv /\ DraftWorks => TurnInv'
<1>1. DraftWorks => relay' = relay
  BY DEF DraftWorks, DraftStep, DraftLands, ThrottleDue, RefreshDue, HumanWrites
<1> QED
  BY <1>1, StaysHold DEF DraftWorks

-----------------------------------------------------------------------------
LEMMA InitTurnInv == Init => TurnInv
<1> SUFFICES ASSUME Init
             PROVE  TurnInv
  OBVIOUS
<1>1. /\ turn = NewTurn /\ parse = NewParse /\ child = NewChild /\ stdout = <<>> /\ stdin = <<>>
      /\ probe = "no" /\ outbox = "human" /\ isolated = FALSE /\ owner = <<>> /\ kinds = <<>>
      /\ said = Silent /\ relay = RelayOff
  BY DEF Init, RelayInit
<1>2. /\ turn.n = 0 /\ turn.st = "idle" /\ turn.last = 0 /\ ~Reading
      /\ turn \in [n : Nat, st : {"idle", "reading", "closing"}, last : Nat, ok : BOOLEAN,
                   settled : BOOLEAN, consumed : BOOLEAN]
  BY <1>1 DEF NewTurn, Reading
<1>3. relay.st = "off" /\ relay.acc = NoText
      /\ relay \in [st : {"off", "reading", "sending"}, acc : Seq(Nat)]
  BY <1>1, TextTypes DEF RelayOff
<1>4. TypeOK
  <2>1. /\ stdout \in Seq(Records) /\ stdin \in Seq(Nat) /\ owner \in Seq(Nat)
        /\ kinds \in Seq({"human", "internal"}) /\ Len(kinds) = 0
    BY <1>1
  <2> QED
    BY <1>1, <1>2, <1>3, <2>1, FreshTypes DEF TypeOK
<1>5. ProbeOnce
  BY <1>1 DEF ProbeOnce, ProbeAnswers
<1>6. TurnsApart
  BY <1>1, <1>2, <1>3, FreshTypes DEF TurnsApart
<1>7. RunKnown /\ NothingOwed
  BY <1>1 DEF RunKnown, NothingOwed, NewChild, Resting
<1>8. Answers
  BY <1>1, <1>2, <1>3, FreshTypes, TextFacts DEF Answers, Answer
<1> QED
  BY <1>2, <1>4, <1>5, <1>6, <1>7, <1>8 DEF TurnInv, StreamFollowed

LEMMA NextTurnInv == TurnInv /\ [Next]_vars => TurnInv'
<1> SUFFICES ASSUME TurnInv, [Next]_vars
             PROVE  TurnInv'
  OBVIOUS
<1>1. CASE PiTakesPrompt
  BY <1>1, TakesPromptHolds
<1>2. CASE PiQueuesPrompt
  BY <1>2, QueuesHold
<1>3. CASE PiStreams
  BY <1>3, StreamsHold
<1>4. CASE PiEndsRun
  BY <1>4, EndHolds
<1>5. CASE PiCompacts
  BY <1>5, CompactsHold
<1>6. CASE PiContinues
  BY <1>6, ContinuesHold
<1>7. CASE PiReportsError
  BY <1>7, ErrorHolds
<1>8. CASE PiStartsQueued
  BY <1>8, StartsQueuedHold
<1>9. CASE PiSettles
  BY <1>9, SettlesHold
<1>10. CASE PiAnswersProbe
  BY <1>10, AnswersProbeHolds
<1>11. CASE PiAsksDialog
  BY <1>11, DialogHolds
<1>12. CASE PiHangs
  BY <1>12, HangsHold
<1>13. CASE PiDies \/ Killed
  BY <1>13, DiesHold DEF Killed
<1>14. CASE \E stored \in BOOLEAN : SendHuman(stored)
  BY <1>14, SendHumanHolds
<1>15. CASE RefuseHuman
  BY <1>15, RefuseHolds
<1>16. CASE SendInternal
  BY <1>16, SendInternalHolds
<1>17. CASE ReadRecord
  BY <1>17, ReadRecordHolds
<1>18. CASE ReadSettled
  BY <1>18, ReadSettledHolds
<1>19. CASE ReadDrained
  BY <1>19, ReadDrainedHolds
<1>20. CASE ReadProbe
  BY <1>20, ReadProbeHolds
<1>21. CASE ActivityTimeout
  BY <1>21, ActivityHolds
<1>22. CASE ProbeTimeout
  BY <1>22, ProbeTimeoutHolds
<1>23. CASE StopUnsettled
  BY <1>23, StopHolds
<1>24. CASE GiveOutboxBack
  BY <1>24, GivesBackHolds
<1>25. CASE \E sent \in BOOLEAN : Deliver(sent)
  BY <1>25, DeliverHolds
<1>26. CASE DraftWorks
  BY <1>26, DraftHolds
<1>27. CASE UNCHANGED vars
  BY <1>27, StaysHold DEF vars
<1>28. Next => \/ PiTakesPrompt \/ PiQueuesPrompt \/ PiStreams \/ PiEndsRun \/ PiCompacts
               \/ PiContinues \/ PiReportsError \/ PiStartsQueued \/ PiSettles
               \/ PiAnswersProbe \/ PiAsksDialog \/ PiHangs \/ PiDies \/ Killed
               \/ (\E stored \in BOOLEAN : SendHuman(stored)) \/ RefuseHuman \/ SendInternal
               \/ ReadRecord \/ ReadSettled \/ ReadDrained \/ ReadProbe
               \/ ActivityTimeout \/ ProbeTimeout \/ StopUnsettled \/ GiveOutboxBack
               \/ (\E sent \in BOOLEAN : Deliver(sent)) \/ DraftWorks
  BY Zenon DEF Next, PiProgress
<1> QED
  BY <1>1, <1>2, <1>3, <1>4, <1>5, <1>6, <1>7, <1>8, <1>9, <1>10, <1>11, <1>12, <1>13, <1>14,
     <1>15, <1>16, <1>17, <1>18, <1>19, <1>20, <1>21, <1>22, <1>23, <1>24, <1>25, <1>26, <1>27,
     <1>28

LEMMA TurnInvAlways == Spec => []TurnInv
<1> QED
  BY InitTurnInv, NextTurnInv, PTL DEF Spec

(* The answer delivered is of the last run, of its own prompt and from the *)
(* human's outbox, and a child no prompt slipped past owes nothing between *)
(* two turns.                                                              *)
LEMMA InvAnswersRight == TurnInv => AnswersRight
<1> SUFFICES ASSUME TurnInv
             PROVE  AnswersRight
  OBVIOUS
<1>1. AnswerIsLastRun
  BY DEF TurnInv, Answers, Answer, AnswerIsLastRun
<1>2. AnswerIsOwn
  <2>1. ASSUME said.clean, NEW r \in ToSet(said.text) \ {0}
        PROVE  owner[r] = said.n
    BY <2>1 DEF TurnInv, Answers, Answer, TextOf, RunOf
  <2> QED
    BY <2>1 DEF AnswerIsOwn, TurnInv, TurnsApart
<1>3. InSync
  BY DEF TurnInv, NothingOwed, InSync, QueueFree, Responsive, Resting, Reading
<1> QED
  BY <1>1, <1>2, <1>3 DEF AnswersRight

(* Whatever Pi, the watchdog and the relay do, in any order and however    *)
(* long: an answer sent to the chat is the right one.                      *)
THEOREM AnswersAreRight == Spec => []AnswersRight
<1> QED
  BY TurnInvAlways, InvAnswersRight, PTL

-----------------------------------------------------------------------------
(* The drafts shown while an answer is read. *)

DraftStates ==
    [fly : Seq(Nat), pend : Seq(Nat), latest : Seq(Nat), vis : Seq(Nat),
     timer : BOOLEAN, refresh : BOOLEAN, quiet : BOOLEAN, unsupported : BOOLEAN]

(* What waits is a part of the answer, or what is visible and then only    *)
(* while nothing is in flight.                                             *)
DraftFits(d, acc) ==
    /\ d \in DraftStates
    /\ d.refresh => d.fly = NoText
    /\ d.pend # NoText =>
          IsPrefix(d.pend, acc) \/ (d.pend = d.vis /\ d.fly = NoText)

(* Once the answer is read the scheduler is blocked. *)
DraftInv ==
    /\ relay.acc \in Seq(Nat)
    /\ relay.st # "reading" => Blocked(draft) \/ draft = NewDraft
    /\ DraftFits(draft, relay.acc)

(* A draft starts as DraftsKeepQuiet says. *)
Drafted ==
    draft'.fly # draft.fly /\ draft'.fly # NoText =>
        /\ relay'.st = "reading" /\ ~draft.quiet
        /\ IsPrefix(draft'.fly, relay'.acc) \/ draft'.fly = draft.vis

LEMMA PrefixFacts ==
  ASSUME NEW s \in Seq(Nat)
  PROVE  /\ IsPrefix(s, s)
         /\ \A t \in Seq(Nat), r \in Nat : IsPrefix(s, t) => IsPrefix(s, Append(t, r))
<1>1. Len(s) \in Nat /\ IsPrefix(s, s)
  BY LenProperties DEF IsPrefix
<1>2. ASSUME NEW t \in Seq(Nat), NEW r \in Nat, IsPrefix(s, t)
      PROVE  IsPrefix(s, Append(t, r))
  <2>1. /\ Len(s) <= Len(t) /\ SubSeq(s, 1, Len(s)) = SubSeq(t, 1, Len(s)) /\ Len(t) \in Nat
        /\ Len(Append(t, r)) = Len(t) + 1 /\ \A i \in 1..Len(t) : Append(t, r)[i] = t[i]
    BY <1>1, <1>2, AppendProperties, LenProperties DEF IsPrefix
  <2>2. SubSeq(Append(t, r), 1, Len(s)) = SubSeq(t, 1, Len(s))
    <3>1. PICK m \in Nat : m = Len(s)
      BY <1>1
    <3>2. PICK a \in Seq(Nat) : a = Append(t, r)
      BY AppendProperties
    <3>3. SubSeq(a, 1, m) = Restrict(a, 1..m) /\ SubSeq(t, 1, m) = Restrict(t, 1..m)
      <4>1. m \in 0..Len(a) /\ m \in 0..Len(t)
        BY <2>1, <3>1, <3>2
      <4> QED
        BY <4>1, SubSeqRestrict
    <3>4. \A i \in 1..m : a[i] = t[i]
      BY <2>1, <3>1, <3>2
    <3>5. Restrict(a, 1..m) = Restrict(t, 1..m)
      BY <3>4 DEF Restrict
    <3> QED
      BY <3>1, <3>2, <3>3, <3>5
  <2> QED
    BY <1>1, <2>1, <2>2 DEF IsPrefix
<1> QED
  BY <1>1, <1>2

(* startOrSchedule: nothing, a start, or the throttle's timer. *)
LEMMA ScheduledIs ==
  ASSUME NEW d, NEW e \in Scheduled(d)
  PROVE  \/ e = d
         \/ /\ ~d.quiet /\ d.fly = NoText /\ d.pend # NoText
            /\ e = [d EXCEPT !.fly = d.pend, !.pend = NoText, !.refresh = FALSE]
         \/ /\ ~d.quiet /\ d.fly = NoText /\ d.pend # NoText
            /\ e = [d EXCEPT !.timer = TRUE]
BY DEF Scheduled, Blocked

(* What a turn does with its relay, and when. *)
LEMMA RelayMoves ==
  TurnInv /\ [Next]_vars =>
    \/ UNCHANGED relayVars
    \/ RelayStarts
    \/ relay.st = "reading" /\ \E r \in Nat : RelayText(r)
    \/ RelayReset
    \/ \E text \in Seq(Nat) : RelayResult(text)
    \/ RelayEnds
    \/ DraftStep
<1> SUFFICES ASSUME TurnInv, [Next]_vars
             PROVE  \/ UNCHANGED relayVars
                    \/ RelayStarts
                    \/ relay.st = "reading" /\ \E r \in Nat : RelayText(r)
                    \/ RelayReset
                    \/ \E text \in Seq(Nat) : RelayResult(text)
                    \/ RelayEnds
                    \/ DraftStep
  OBVIOUS
<1>1. ASSUME \/ PiTakesPrompt \/ PiQueuesPrompt \/ PiStreams \/ PiEndsRun \/ PiCompacts
             \/ PiContinues \/ PiReportsError \/ PiStartsQueued \/ PiSettles
             \/ PiAnswersProbe \/ PiAsksDialog \/ PiHangs \/ PiDies \/ Killed
      PROVE  UNCHANGED relayVars
  <2>1. PiUnchanged
    BY <1>1 DEF PiTakesPrompt, PiQueuesPrompt, PiStreams, PiEndsRun, PiCompacts, PiContinues,
                PiReportsError, PiStartsQueued, PiSettles, PiAnswersProbe, PiAsksDialog, PiHangs,
                PiDies, Killed
  <2> QED
    BY <2>1 DEF PiUnchanged, relayVars
<1>2. ASSUME \/ RefuseHuman \/ SendInternal \/ ReadProbe \/ ActivityTimeout \/ ProbeTimeout
             \/ StopUnsettled \/ GiveOutboxBack
      PROVE  UNCHANGED relayVars
  BY <1>2 DEF RefuseHuman, SendInternal, ReadProbe, ActivityTimeout, ProbeTimeout, StopUnsettled,
              GiveOutboxBack
<1>3. CASE \E stored \in BOOLEAN : SendHuman(stored)
  BY <1>3 DEF SendHuman
<1>4. ASSUME NEW text \in Seq(Nat), NEW rest, EndsWith(text, rest)
      PROVE  UNCHANGED relayVars \/ RelayResult(text)
  BY <1>4 DEF EndsWith
<1>5. CASE ReadRecord
  <2>1. PICK rec \in Records : rec = Head(stdout)
    BY <1>5, Reader, TailProbes DEF ReadRecord, TurnInv, ProbeOnce
  <2>2. CASE Rejects(rec)
    BY <1>4, <1>5, <2>1, <2>2, TextTypes DEF ReadRecord
  <2>3. CASE ~Rejects(rec)
    <3>1. RelayLine(parse, rec) /\ Reading
      BY <1>5, <2>1, <2>3 DEF ReadRecord, Translate
    <3>2. Human => relay.st = "reading"
      BY <3>1 DEF TurnInv, TurnsApart
    <3>3. rec.t = "delta" => rec.r \in Nat
      BY RecordShape
    <3> QED
      BY <3>1, <3>2, <3>3 DEF RelayLine
  <2> QED
    BY <2>2, <2>3
<1>6. CASE ReadSettled
  <2>1. SettledText(parse) \in Seq(Nat)
    <3>1. parse.pend \in Seq(Nat)
      BY DEF TurnInv, TypeOK, ParseStates
    <3> QED
      BY <3>1, TextTypes DEF SettledText
  <2> QED
    BY <1>4, <1>6, <2>1 DEF ReadSettled
<1>7. CASE ReadDrained
  <2>1. PICK text \in Seq(Nat) : EndsWith(text, <<>>)
    BY <1>7, TextTypes DEF ReadDrained, EofText
  <2> QED
    BY <1>4, <2>1
<1>8. CASE \E sent \in BOOLEAN : Deliver(sent)
  BY <1>8 DEF Deliver
<1>9. CASE DraftWorks
  BY <1>9 DEF DraftWorks
<1>10. CASE UNCHANGED vars
  BY <1>10 DEF vars, relayVars
<1>11. Next => \/ PiTakesPrompt \/ PiQueuesPrompt \/ PiStreams \/ PiEndsRun \/ PiCompacts
               \/ PiContinues \/ PiReportsError \/ PiStartsQueued \/ PiSettles
               \/ PiAnswersProbe \/ PiAsksDialog \/ PiHangs \/ PiDies \/ Killed
               \/ (\E stored \in BOOLEAN : SendHuman(stored)) \/ RefuseHuman \/ SendInternal
               \/ ReadRecord \/ ReadSettled \/ ReadDrained \/ ReadProbe
               \/ ActivityTimeout \/ ProbeTimeout \/ StopUnsettled \/ GiveOutboxBack
               \/ (\E sent \in BOOLEAN : Deliver(sent)) \/ DraftWorks
  BY Zenon DEF Next, PiProgress
<1> QED
  BY <1>1, <1>2, <1>3, <1>5, <1>6, <1>7, <1>8, <1>9, <1>10, <1>11

(* startOrSchedule keeps what waits, or starts it. *)
LEMMA ScheduledFits ==
  ASSUME NEW d, NEW acc, DraftFits(d, acc), NEW e \in Scheduled(d)
  PROVE  /\ DraftFits(e, acc)
         /\ e.quiet <=> d.quiet
         /\ Blocked(e) <=> Blocked(d)
         /\ e # d => ~Blocked(d) /\ d.pend # NoText
         /\ e.fly # d.fly => e.fly = d.pend
<1>1. d \in DraftStates
  BY DEF DraftFits
<1>2. CASE e = d
  BY <1>2
<1>3. CASE /\ ~Blocked(d) /\ d.fly = NoText /\ d.pend # NoText
           /\ e = [d EXCEPT !.fly = d.pend, !.pend = NoText, !.refresh = FALSE]
  <2>1. NoText \in Seq(Nat)
    BY DEF NoText
  <2>2. e \in DraftStates
    BY <1>1, <1>3, <2>1 DEF DraftStates
  <2>3. /\ e.fly = d.pend /\ e.pend = NoText /\ e.refresh = FALSE
        /\ e.quiet = d.quiet /\ e.unsupported = d.unsupported
    BY <1>1, <1>3 DEF DraftStates
  <2> QED
    BY <1>3, <2>2, <2>3 DEF DraftFits, Blocked
<1>4. CASE /\ ~Blocked(d) /\ d.fly = NoText /\ d.pend # NoText
           /\ e = [d EXCEPT !.timer = TRUE]
  <2>1. e \in DraftStates
    BY <1>1, <1>4 DEF DraftStates
  <2>2. /\ e.fly = d.fly /\ e.pend = d.pend /\ e.refresh = d.refresh /\ e.vis = d.vis
        /\ e.quiet = d.quiet /\ e.unsupported = d.unsupported
    BY <1>1, <1>4 DEF DraftStates
  <2> QED
    BY <1>4, <2>1, <2>2 DEF DraftFits, Blocked
<1> QED
  BY <1>2, <1>3, <1>4 DEF Scheduled

(* The snapshot enqueued is the answer so far. *)
LEMMA TextFits ==
  ASSUME NEW d, NEW acc \in Seq(Nat), NEW r \in Nat, DraftFits(d, acc),
         NEW e \in Enqueued(d, Append(acc, r))
  PROVE  /\ DraftFits(e, Append(acc, r))
         /\ e.fly # d.fly /\ e.fly # NoText =>
               ~d.quiet /\ (IsPrefix(e.fly, Append(acc, r)) \/ e.fly = d.vis)
<1>1. d \in DraftStates /\ Append(acc, r) \in Seq(Nat)
  BY DEF DraftFits
<1>2. IsPrefix(Append(acc, r), Append(acc, r))
  BY <1>1, PrefixFacts
<1>3. d.pend # NoText => IsPrefix(d.pend, Append(acc, r)) \/ (d.pend = d.vis /\ d.fly = NoText)
  <2>1. d.pend \in Seq(Nat)
    BY <1>1 DEF DraftStates
  <2>2. IsPrefix(d.pend, acc) => IsPrefix(d.pend, Append(acc, r))
    BY <2>1, PrefixFacts
  <2> QED
    BY <2>2 DEF DraftFits
<1>4. CASE e = d
  BY <1>1, <1>3, <1>4 DEF DraftFits
<1>5. CASE ~Blocked(d) /\ e \in Scheduled([d EXCEPT !.latest = Append(acc, r), !.pend = Append(acc, r)])
  <2> DEFINE f == [d EXCEPT !.latest = Append(acc, r), !.pend = Append(acc, r)]
  <2>1. f \in DraftStates
    BY <1>1 DEF DraftStates
  <2>2. f.pend = Append(acc, r) /\ f.fly = d.fly /\ f.refresh = d.refresh
    BY <1>1 DEF DraftStates
  <2>3. DraftFits(f, Append(acc, r))
    BY <2>1, <2>2, <1>2 DEF DraftFits
  <2> HIDE DEF f
  <2>4. DraftFits(e, Append(acc, r)) /\ (e.fly # f.fly => e.fly = f.pend)
    BY <2>3, <1>5, ScheduledFits DEF f
  <2> QED
    BY <1>2, <1>5, <2>2, <2>4 DEF Blocked
<1> QED
  BY <1>4, <1>5 DEF Enqueued

(* What is scheduled is waiting only while the answer is read. *)
LEMMA ScheduledQuiet ==
  ASSUME NEW d, NEW acc, DraftFits(d, acc), NEW e \in Scheduled(d), e.fly # d.fly
  PROVE  ~d.quiet /\ ~Blocked(d) /\ (IsPrefix(e.fly, acc) \/ e.fly = d.vis)
<1>1. e.fly = d.pend /\ ~Blocked(d) /\ d.pend # NoText
  BY ScheduledFits
<1> QED
  BY <1>1 DEF DraftFits, Blocked

(* Each of the relay's steps. *)
LEMMA LandsFits ==
  ASSUME DraftInv, NEW result \in DraftResults, DraftLands(result)
  PROVE  DraftInv' /\ Drafted
<1>1. PICK told : /\ told = CASE result = "sent"        -> [draft EXCEPT !.vis = draft.fly, !.fly = NoText]
                              [] result = "unsupported" -> [NewDraft EXCEPT !.unsupported = TRUE]
                              [] result = "failed"      -> [draft EXCEPT !.fly = NoText]
                  /\ draft' \in {WithRefresh(e) : e \in Scheduled(told)}
  BY DEF DraftLands, Landed
<1>2. PICK e \in Scheduled(told) : draft' = WithRefresh(e)
  BY <1>1
<1>3. /\ relay' = relay /\ draft.fly # NoText /\ draft \in DraftStates
      /\ NoText \in Seq(Nat) /\ relay.acc \in Seq(Nat) /\ draft # NewDraft
  BY DEF DraftLands, DraftInv, DraftFits, NoText, NewDraft
<1>4. CASE result = "unsupported"
  <2>1. told = [NewDraft EXCEPT !.unsupported = TRUE]
    BY <1>1, <1>4
  <2>2. Blocked(told) /\ told.fly = NoText /\ DraftFits(told, relay.acc)
    BY <1>3, <2>1 DEF Blocked, NewDraft, DraftFits, DraftStates
  <2>3. e = told
    BY <1>2, <2>2 DEF Scheduled
  <2>4. draft' = told
    BY <1>2, <2>2, <2>3 DEF WithRefresh, NeedsRefresh
  <2> QED
    BY <1>3, <2>2, <2>4 DEF DraftInv, Drafted
<1>5. CASE result # "unsupported"
  <2>1. /\ told \in DraftStates /\ told.fly = NoText /\ told.pend = draft.pend
        /\ told.refresh = draft.refresh /\ told.quiet = draft.quiet
        /\ told.unsupported = draft.unsupported
    <3>1. CASE result = "sent"
      <4>1. told = [draft EXCEPT !.vis = draft.fly, !.fly = NoText]
        BY <1>1, <3>1
      <4>2. draft.fly \in Seq(Nat)
        BY <1>3 DEF DraftStates
      <4> QED
        BY <1>3, <4>1, <4>2 DEF DraftStates
    <3>2. CASE result = "failed"
      <4>1. told = [draft EXCEPT !.fly = NoText]
        BY <1>1, <3>2
      <4> QED
        BY <1>3, <4>1 DEF DraftStates
    <3> QED
      BY <1>5, <3>1, <3>2 DEF DraftResults
  <2>2. draft.pend # NoText => IsPrefix(draft.pend, relay.acc)
    BY <1>3 DEF DraftInv, DraftFits
  <2>3. DraftFits(told, relay.acc) /\ (Blocked(told) <=> Blocked(draft))
    BY <2>1, <2>2 DEF DraftFits, Blocked
  <2>4. /\ DraftFits(e, relay.acc) /\ (Blocked(e) <=> Blocked(told))
        /\ e # told => ~Blocked(told) /\ told.pend # NoText
        /\ e.fly # told.fly => e.fly = told.pend
    BY <1>2, <2>3, ScheduledFits
  <2>5. /\ DraftFits(draft', relay.acc) /\ (Blocked(draft') <=> Blocked(e))
        /\ draft'.fly = e.fly
    <3>1. CASE draft' = e
      BY <3>1, <2>4
    <3>2. CASE NeedsRefresh(e) /\ draft' = [e EXCEPT !.refresh = TRUE]
      <4>1. e \in DraftStates
        BY <2>4 DEF DraftFits
      <4>2. draft' \in DraftStates
        BY <4>1, <3>2 DEF DraftStates
      <4>3. /\ draft'.fly = e.fly /\ draft'.pend = e.pend /\ draft'.vis = e.vis
            /\ draft'.quiet = e.quiet /\ draft'.unsupported = e.unsupported
        BY <4>1, <3>2 DEF DraftStates
      <4>4. e.fly = NoText /\ e.pend = NoText
        BY <3>2 DEF NeedsRefresh
      <4> QED
        BY <4>2, <4>3, <4>4 DEF DraftFits, Blocked
    <3> QED
      BY <1>2, <3>1, <3>2 DEF WithRefresh
  <2>6. relay.st # "reading" => Blocked(draft)
    BY <1>3 DEF DraftInv
  <2>7. DraftInv'
    BY <1>3, <2>3, <2>4, <2>5, <2>6 DEF DraftInv
  <2>8. ASSUME draft'.fly # NoText
        PROVE  ~Blocked(draft) /\ draft'.fly = draft.pend /\ draft.pend # NoText
    <3>1. e.fly # told.fly
      BY <2>1, <2>5, <2>8
    <3> QED
      BY <2>1, <2>3, <2>4, <2>5, <3>1
  <2> QED
    BY <1>3, <2>2, <2>6, <2>7, <2>8 DEF Drafted, Blocked
<1> QED
  BY <1>4, <1>5

LEMMA ThrottleFits ==
  ASSUME DraftInv, ThrottleDue
  PROVE  DraftInv' /\ Drafted
<1> DEFINE d == [draft EXCEPT !.timer = FALSE]
<1>1. draft \in DraftStates /\ relay' = relay /\ draft' \in Scheduled(d)
  BY DEF DraftInv, DraftFits, ThrottleDue
<1>2. /\ d \in DraftStates /\ d.fly = draft.fly /\ d.pend = draft.pend /\ d.vis = draft.vis
      /\ d.refresh = draft.refresh /\ d.quiet = draft.quiet
      /\ d.unsupported = draft.unsupported
  BY <1>1 DEF DraftStates
<1> HIDE DEF d
<1>3. DraftFits(d, relay.acc)
  BY <1>2 DEF DraftInv, DraftFits
<1>4. /\ DraftFits(draft', relay.acc) /\ (Blocked(draft') <=> Blocked(d))
      /\ draft' # d => ~Blocked(d) /\ d.pend # NoText
  BY <1>1, <1>3, ScheduledFits
<1>5. ASSUME relay.st # "reading"
      PROVE  draft' = d /\ Blocked(draft')
  <2>1. draft.timer
    BY DEF ThrottleDue
  <2>2. draft # NewDraft
    BY <2>1 DEF NewDraft
  <2>3. Blocked(draft)
    BY <1>5, <2>2 DEF DraftInv
  <2> QED
    BY <2>3, <1>2, <1>4 DEF Blocked
<1>6. ASSUME draft'.fly # draft.fly
      PROVE  relay.st = "reading" /\ ~draft.quiet
             /\ (IsPrefix(draft'.fly, relay.acc) \/ draft'.fly = draft.vis)
  <2>1. draft'.fly # d.fly
    BY <1>2, <1>6
  <2>2. ~d.quiet /\ (IsPrefix(draft'.fly, relay.acc) \/ draft'.fly = d.vis)
    BY <1>1, <1>3, <2>1, ScheduledQuiet
  <2> QED
    BY <1>2, <1>5, <2>1, <2>2
<1>7. DraftInv'
  BY <1>1, <1>4, <1>5 DEF DraftInv
<1> QED
  BY <1>1, <1>6, <1>7 DEF Drafted

LEMMA RefreshFits ==
  ASSUME DraftInv, RefreshDue
  PROVE  DraftInv' /\ Drafted
<1> DEFINE d == [draft EXCEPT !.refresh = FALSE]
<1> DEFINE f == [d EXCEPT !.pend = d.vis]
<1>1. /\ draft \in DraftStates /\ relay' = relay /\ draft.fly = NoText
      /\ draft # NewDraft
      /\ draft' = d \/ (~Blocked(d) /\ draft' \in Scheduled(f))
  BY DEF DraftInv, DraftFits, RefreshDue, NewDraft
<1>2. /\ d \in DraftStates /\ d.fly = draft.fly /\ d.pend = draft.pend /\ d.vis = draft.vis
      /\ d.refresh = FALSE /\ d.quiet = draft.quiet /\ d.unsupported = draft.unsupported
  BY <1>1 DEF DraftStates
<1>3. /\ f \in DraftStates /\ f.fly = draft.fly /\ f.pend = draft.vis /\ f.vis = draft.vis
      /\ f.refresh = FALSE /\ f.quiet = draft.quiet /\ f.unsupported = draft.unsupported
  <2>1. d.vis \in Seq(Nat)
    BY <1>2 DEF DraftStates
  <2> HIDE DEF d
  <2> QED
    BY <1>2, <2>1 DEF DraftStates
<1> HIDE DEF d, f
<1>4. DraftFits(d, relay.acc)
  BY <1>2 DEF DraftInv, DraftFits
<1>5. DraftFits(f, relay.acc)
  BY <1>1, <1>3 DEF DraftFits
<1>6. relay.st # "reading" => Blocked(d)
  BY <1>1, <1>2 DEF DraftInv, Blocked
<1>7. CASE draft' = d
  BY <1>1, <1>2, <1>4, <1>6, <1>7 DEF DraftInv, Drafted
<1>8. CASE ~Blocked(d) /\ draft' \in Scheduled(f)
  <2>1. DraftFits(draft', relay.acc) /\ (draft'.fly # f.fly => draft'.fly = f.pend)
    BY <1>5, <1>8, ScheduledFits
  <2>2. relay.st = "reading" /\ ~draft.quiet
    BY <1>2, <1>6, <1>8 DEF Blocked
  <2> QED
    BY <1>1, <1>3, <2>1, <2>2 DEF DraftInv, Drafted
<1> QED
  BY <1>1, <1>7, <1>8

LEMMA HushedFits ==
  ASSUME NEW d \in DraftStates
  PROVE  /\ Hushed(d) \in DraftStates /\ Hushed(d).fly = d.fly
         /\ Hushed(d).pend = NoText /\ ~Hushed(d).refresh /\ Blocked(Hushed(d))
<1>1. d.fly \in Seq(Nat) /\ NoText \in Seq(Nat)
  BY DEF DraftStates, NoText
<1>2. PICK x \in Seq(Nat) : x = d.fly
  BY <1>1
<1>3. PICK y \in Seq(Nat) : y = NoText
  BY <1>1
<1>4. Hushed(d) = [NewDraft EXCEPT !.fly = x, !.quiet = TRUE]
  BY <1>2 DEF Hushed
<1>5. NewDraft = [fly |-> y, pend |-> y, latest |-> y, vis |-> y,
                  timer |-> FALSE, refresh |-> FALSE, quiet |-> FALSE, unsupported |-> FALSE]
  BY <1>3 DEF NewDraft
<1>6. Hushed(d) = [fly |-> x, pend |-> y, latest |-> y, vis |-> y,
                   timer |-> FALSE, refresh |-> FALSE, quiet |-> TRUE, unsupported |-> FALSE]
  BY <1>4, <1>5
<1> QED
  BY <1>2, <1>3, <1>6 DEF DraftStates, Blocked

LEMMA HumanFits ==
  ASSUME DraftInv, HumanWrites
  PROVE  DraftInv' /\ Drafted
<1>1. draft \in DraftStates /\ relay' = relay /\ draft' = Hushed(draft)
  BY DEF DraftInv, DraftFits, HumanWrites
<1>2. /\ Hushed(draft) \in DraftStates /\ Hushed(draft).fly = draft.fly
      /\ Hushed(draft).pend = NoText /\ ~Hushed(draft).refresh /\ Blocked(Hushed(draft))
  BY <1>1, HushedFits
<1> QED
  BY <1>1, <1>2 DEF DraftInv, DraftFits, Drafted

(* Each of the reader's steps. *)
LEMMA NewDraftFits ==
  ASSUME draft' = NewDraft, relay'.acc \in Seq(Nat)
  PROVE  DraftInv' /\ Drafted
<1>1. NoText \in Seq(Nat)
  BY DEF NoText
<1>2. draft' \in DraftStates /\ draft'.fly = NoText /\ draft'.pend = NoText /\ ~draft'.refresh
  BY <1>1 DEF NewDraft, DraftStates
<1> QED
  BY <1>2 DEF DraftInv, DraftFits, Drafted

LEMMA TextStepFits ==
  ASSUME TypeOK, DraftInv, relay.st = "reading", NEW r \in Nat, RelayText(r)
  PROVE  DraftInv' /\ Drafted
<1>1. relay' = [relay EXCEPT !.acc = Append(relay.acc, r)] /\ relay.acc \in Seq(Nat)
  BY DEF TypeOK, RelayText
<1>2. Append(relay.acc, r) \in Seq(Nat)
  BY <1>1
<1>3. relay'.acc = Append(relay.acc, r) /\ relay'.st = "reading"
  BY <1>1 DEF TypeOK
<1>4. draft' \in Enqueued(draft, Append(relay.acc, r))
  BY <1>3 DEF RelayText
<1>5. /\ DraftFits(draft', Append(relay.acc, r))
      /\ draft'.fly # draft.fly /\ draft'.fly # NoText =>
            ~draft.quiet /\ (IsPrefix(draft'.fly, Append(relay.acc, r)) \/ draft'.fly = draft.vis)
  BY <1>1, <1>4, TextFits DEF DraftInv
<1> QED
  BY <1>2, <1>3, <1>5 DEF DraftInv, Drafted

LEMMA ResetStepFits ==
  ASSUME TypeOK, DraftInv, RelayReset
  PROVE  DraftInv' /\ Drafted
<1>1. /\ draft \in DraftStates /\ NoText \in Seq(Nat)
      /\ draft' = ResetDraft(draft)
  BY DEF DraftInv, DraftFits, RelayReset, NoText
<1>2. relay'.st = relay.st /\ relay'.acc = NoText
  BY DEF TypeOK, RelayReset
<1>3. draft' = [fly |-> draft.fly, pend |-> NoText, latest |-> NoText, vis |-> NoText,
                timer |-> FALSE, refresh |-> FALSE, quiet |-> draft.quiet,
                unsupported |-> draft.unsupported]
  BY <1>1 DEF ResetDraft, Unscheduled, DraftStates
<1>4. draft.fly \in Seq(Nat) /\ draft.quiet \in BOOLEAN /\ draft.unsupported \in BOOLEAN
  BY <1>1 DEF DraftStates
<1>5. draft' \in DraftStates
  BY <1>1, <1>3, <1>4 DEF DraftStates
<1>6. draft = NewDraft => draft' = NewDraft
  BY <1>3 DEF NewDraft
<1>7. /\ draft'.fly = draft.fly /\ draft'.pend = NoText /\ ~draft'.refresh
      /\ Blocked(draft') <=> Blocked(draft)
  BY <1>3 DEF Blocked
<1> QED
  BY <1>1, <1>2, <1>5, <1>6, <1>7 DEF DraftInv, DraftFits, Drafted

LEMMA ResultStepFits ==
  ASSUME TypeOK, DraftInv, NEW text \in Seq(Nat), RelayResult(text)
  PROVE  DraftInv' /\ Drafted
<1>1. draft \in DraftStates /\ draft' = Hushed(draft) /\ relay'.acc \in Seq(Nat)
  BY DEF TypeOK, DraftInv, DraftFits, RelayResult
<1>2. /\ Hushed(draft) \in DraftStates /\ Hushed(draft).fly = draft.fly
      /\ Hushed(draft).pend = NoText /\ ~Hushed(draft).refresh /\ Blocked(Hushed(draft))
  BY <1>1, HushedFits
<1> QED
  BY <1>1, <1>2 DEF DraftInv, DraftFits, Drafted

LEMMA InitDraft == Init => DraftInv
<1> SUFFICES ASSUME Init
             PROVE  DraftInv
  OBVIOUS
<1>1. relay = RelayOff /\ draft = NewDraft
  BY DEF Init, RelayInit
<1>2. NoText \in Seq(Nat)
  BY DEF NoText
<1>3. draft \in DraftStates /\ draft.pend = NoText /\ ~draft.refresh
  BY <1>1, <1>2 DEF NewDraft, DraftStates
<1> QED
  BY <1>1, <1>2, <1>3 DEF DraftInv, DraftFits, RelayOff

LEMMA NextDraft == TurnInv /\ DraftInv /\ [Next]_vars => DraftInv' /\ Drafted
<1> SUFFICES ASSUME TurnInv, DraftInv, [Next]_vars
             PROVE  DraftInv' /\ Drafted
  OBVIOUS
<1> TypeOK
  BY DEF TurnInv
<1>1. CASE UNCHANGED relayVars
  <2>1. relay' = relay /\ draft' = draft
    BY <1>1 DEF relayVars
  <2> QED
    BY <2>1 DEF DraftInv, Drafted
<1>2. CASE RelayStarts
  <2>1. draft' = NewDraft /\ relay'.acc \in Seq(Nat)
    BY <1>2 DEF RelayStarts, NoText
  <2> QED
    BY <2>1, NewDraftFits
<1>3. CASE RelayEnds
  <2>1. draft' = NewDraft /\ relay'.acc \in Seq(Nat)
    BY <1>3 DEF RelayEnds, RelayOff, NoText
  <2> QED
    BY <2>1, NewDraftFits
<1>4. ASSUME relay.st = "reading", NEW r \in Nat, RelayText(r)
      PROVE  DraftInv' /\ Drafted
  BY <1>4, TextStepFits
<1>5. CASE RelayReset
  BY <1>5, ResetStepFits
<1>6. ASSUME NEW text \in Seq(Nat), RelayResult(text)
      PROVE  DraftInv' /\ Drafted
  BY <1>6, ResultStepFits
<1>7. CASE DraftStep
  BY <1>7, LandsFits, ThrottleFits, RefreshFits, HumanFits DEF DraftStep
<1> QED
  BY <1>1, <1>2, <1>3, <1>4, <1>5, <1>6, <1>7, RelayMoves

LEMMA DraftInvAlways == Spec => []DraftInv
<1> QED
  BY InitDraft, NextDraft, TurnInvAlways, PTL DEF Spec

(* A draft starts only while the answer is being read and no message of    *)
(* the human suspended it; it shows what was accumulated, or again what    *)
(* was visible - however many pieces, resets and lost requests came first. *)
THEOREM DraftsStayQuiet == Spec => DraftsKeepQuiet
<1>1. TurnInv /\ DraftInv /\ [Next]_vars => [Drafted]_vars
  BY NextDraft
<1>2. Spec => [][Drafted]_vars
  BY <1>1, TurnInvAlways, DraftInvAlways, PTL DEF Spec
<1> QED
  BY <1>2, PTL DEF DraftsKeepQuiet, Drafted
=============================================================================
