------------------------ MODULE SessionManagerProofs ------------------------
(* What the maps of the session manager say of one another, for any number *)
(* of chats, startups in flight, sessions and transcripts: a transcript    *)
(* has one writer, /clean is final, and no recovery notice is forgotten.   *)
EXTENDS SessionManager, FiniteSetTheorems, FunctionTheorems, SequenceTheorems, TLAPS

-----------------------------------------------------------------------------
(* Types. *)

Phases == {"free", "barrier", "replacing", "evicting", "backoff",
           "spawning", "identifying", "failing", "aborting"}
Bindings == [id : Transcripts \union {None}, notice : BOOLEAN]
Calls == [phase : Phases, chat : Chats \union {None}, stale : BOOLEAN, state : Bindings,
          sess : Sessions \union {None}, mayRotate : BOOLEAN]
Objects == [chat : Chats \union {None}, id : Transcripts \union {None}, notice : BOOLEAN,
            child : {"none", "up", "term", "kill", "dead"}, task : {"none", "queued", "running"}]
Closings == [owner : Starters \union {"user", "closeAll"}, persist : BOOLEAN,
             sess : Sessions \union {None}]

Typed ==
    /\ accepting \in BOOLEAN /\ closing \in {"no", "waiting", "tearing", "done"}
    /\ startups \in [Chats -> Starters \union {None}]
    /\ su \in [Starters -> Calls]
    /\ active \in [Chats -> Sessions \union {None}]
    /\ gauge \in Int
    /\ sess \in [Sessions -> Objects]
    /\ teardowns \in [Chats -> Seq(Closings)]
    /\ store \in [Chats -> Bindings]
    /\ restarts \in [Chats -> Nat]
    /\ notifying \in [Chats -> Transcripts \union {None}]
    /\ cleaned \subseteq Transcripts /\ notified \subseteq Transcripts

(* The startup that leads a chat, the steps at which a startup has a child *)
(* and those at which its chat is its own.                                 *)
Live(k) == su[k].phase # "free" /\ ~su[k].stale
Opening == {"spawning", "identifying"}
Bearing == Opening \union {"failing", "aborting"}
Admitted == {"evicting", "backoff"} \union Bearing

(* None is no object of the model.                                         *)
LEMMA NoneIsNone ==
    None \notin Starters /\ None \notin Sessions /\ None \notin Transcripts /\ None \notin Chats
BY SessionManagerAssumption

(* What the empty records say.                                             *)
LEMMA Blanks ==
    /\ NoEntry \in Bindings /\ NoEntry.id = None /\ NoEntry.notice = FALSE
    /\ NoStartup \in Calls /\ NoSession \in Objects
    /\ NoStartup.phase = "free" /\ NoStartup.chat = None /\ NoStartup.stale = FALSE
    /\ NoStartup.state = NoEntry /\ NoStartup.sess = None
    /\ NoSession.child = "none" /\ NoSession.task = "none"
BY DEF NoEntry, NoStartup, NoSession, Bindings, Calls, Objects, Phases

-----------------------------------------------------------------------------
(* What an action makes of one record. *)

(* What a session would have the store say.                                *)
LEMMA StateShape ==
    ASSUME Typed, NEW n \in Sessions
    PROVE  /\ StateOf(n) \in Bindings
           /\ StateOf(n).id = sess[n].id /\ StateOf(n).notice = sess[n].notice
BY DEF Typed, StateOf, Bindings, Objects

(* Signals change nothing but the child. *)
LEMMA SignalShape ==
    ASSUME NEW s \in Objects
    PROVE  /\ Killed(s) \in Objects /\ Terminated(s) \in Objects
           /\ \A r \in {Killed(s), Terminated(s)} :
                 r.chat = s.chat /\ r.id = s.id /\ r.notice = s.notice /\ r.task = s.task
           /\ Killed(s).child = IF s.child \in {"up", "term"} THEN "kill" ELSE s.child
           /\ Terminated(s).child = IF s.child = "up" THEN "term" ELSE s.child
<1>1. ASSUME NEW ch \in {"none", "up", "term", "kill", "dead"}, NEW r,
             r = [s EXCEPT !.child = ch]
      PROVE  r = [chat |-> s.chat, id |-> s.id, notice |-> s.notice, child |-> ch, task |-> s.task]
             /\ r \in Objects
  BY <1>1 DEF Objects
<1>2. s.child \in {"none", "up", "term", "kill", "dead"}
  BY DEF Objects
<1>3. Killed(s) = [s EXCEPT !.child = IF s.child \in {"up", "term"} THEN "kill" ELSE s.child]
  BY DEF Killed, Objects
<1>4. Terminated(s) = [s EXCEPT !.child = IF s.child = "up" THEN "term" ELSE s.child]
  BY DEF Terminated, Objects
<1>5. /\ Killed(s) \in Objects
      /\ Killed(s) = [chat |-> s.chat, id |-> s.id, notice |-> s.notice,
                      child |-> IF s.child \in {"up", "term"} THEN "kill" ELSE s.child, task |-> s.task]
  BY <1>1, <1>2, <1>3
<1>6. /\ Terminated(s) \in Objects
      /\ Terminated(s) = [chat |-> s.chat, id |-> s.id, notice |-> s.notice,
                          child |-> IF s.child = "up" THEN "term" ELSE s.child, task |-> s.task]
  BY <1>1, <1>2, <1>4
<1> QED
  BY <1>5, <1>6

(* A startup takes its next step. *)
LEMMA PhaseShape ==
    ASSUME Typed, NEW k \in Starters, NEW p \in Phases, su' = [su EXCEPT ![k].phase = p]
    PROVE  /\ su' \in [Starters -> Calls]
           /\ \A j \in Starters \ {k} : su'[j] = su[j]
           /\ su'[k].phase = p /\ su'[k].chat = su[k].chat /\ su'[k].stale = su[k].stale
           /\ su'[k].state = su[k].state /\ su'[k].sess = su[k].sess
BY DEF Typed, Calls

(* A call of startSession begins.                                          *)
LEMMA BeginShape ==
    ASSUME Typed, NEW k \in Starters, NEW c \in Chats,
           su' = [su EXCEPT ![k].phase = "barrier", ![k].chat = c]
    PROVE  /\ su' \in [Starters -> Calls]
           /\ \A j \in Starters \ {k} : su'[j] = su[j]
           /\ su'[k].phase = "barrier" /\ su'[k].chat = c /\ su'[k].stale = su[k].stale
           /\ su'[k].state = su[k].state /\ su'[k].sess = su[k].sess
BY DEF Typed, Calls, Phases

(* A startup ends and forgets its own registration only.                   *)
LEMMA FinishShape ==
    ASSUME Typed, NEW k \in Starters, Finish(k)
    PROVE  /\ su' \in [Starters -> Calls] /\ startups' \in [Chats -> Starters \union {None}]
           /\ su'[k] = NoStartup /\ \A j \in Starters \ {k} : su'[j] = su[j]
           /\ \A c \in Chats : startups'[c] = IF startups[c] = k THEN None ELSE startups[c]
<1>1. su' = [su EXCEPT ![k] = NoStartup]
  BY DEF Finish
<1>2. startups' = [c \in Chats |-> IF startups[c] = k THEN None ELSE startups[c]]
  BY DEF Finish, Unregistered
<1> QED
  BY <1>1, <1>2, Blanks DEF Typed

(* /clean and shutdown mark the startups they overtake, nothing else.      *)
LEMMA SupersedingShape ==
    ASSUME Typed, NEW C, su' = Superseding(C)
    PROVE  /\ su' \in [Starters -> Calls]
           /\ \A k \in Starters :
                 /\ su'[k].phase = su[k].phase /\ su'[k].chat = su[k].chat
                 /\ su'[k].state = su[k].state /\ su'[k].sess = su[k].sess
                 /\ su'[k].mayRotate = su[k].mayRotate
                 /\ su'[k].stale = (su[k].stale \/ su[k].chat \in C)
<1>1. ASSUME NEW k \in Starters
      PROVE  /\ su'[k] \in Calls
             /\ su'[k].phase = su[k].phase /\ su'[k].chat = su[k].chat
             /\ su'[k].state = su[k].state /\ su'[k].sess = su[k].sess
             /\ su'[k].mayRotate = su[k].mayRotate
             /\ su'[k].stale = (su[k].stale \/ su[k].chat \in C)
  <2>1. su[k] \in Calls
    BY DEF Typed
  <2>2. CASE su[k].chat \in C
    <3>1. su'[k] = [su[k] EXCEPT !.stale = TRUE]
      BY <2>2 DEF Superseding
    <3> QED
      BY <2>1, <2>2, <3>1 DEF Calls
  <2>3. CASE su[k].chat \notin C
    <3>1. su'[k] = su[k]
      BY <2>3 DEF Superseding
    <3> QED
      BY <2>1, <2>3, <3>1 DEF Calls
  <2> QED
    BY <2>2, <2>3
<1>2. su' = [k \in Starters |-> su'[k]]
  BY DEF Superseding
<1> QED
  BY <1>1, <1>2

(* A startup has a child of its own on a prepared binding. *)
Spawned(k, state) ==
    /\ su' \in [Starters -> Calls] /\ sess' \in [Sessions -> Objects]
    /\ \A j \in Starters \ {k} : su'[j] = su[j]
    /\ su'[k].phase = "spawning" /\ su'[k].chat = su[k].chat /\ su'[k].stale = su[k].stale
    /\ su'[k].state = state
    /\ \E n \in FreeSessions :
          /\ su'[k].sess = n
          /\ sess'[n] = [chat |-> su[k].chat, id |-> state.id, notice |-> state.notice,
                         child |-> "up", task |-> "none"]
          /\ \A m \in Sessions \ {n} : sess'[m] = sess[m]

LEMMA SpawnShape ==
    ASSUME Typed, NEW k \in Starters, NEW state \in Bindings, NEW r \in BOOLEAN,
           su[k].chat \in Chats, SpawnOn(k, state, r)
    PROVE  Spawned(k, state)
<1> DEFINE s == [chat |-> su[k].chat, id |-> state.id, notice |-> state.notice,
                 child |-> "up", task |-> "none"]
<1>1. PICK n \in FreeSessions :
          /\ su' = [su EXCEPT ![k].phase = "spawning", ![k].state = state, ![k].sess = n,
                              ![k].mayRotate = r]
          /\ sess' = [sess EXCEPT ![n] = s]
  BY DEF SpawnOn
<1>2. n \in Sessions
  BY DEF FreeSessions
<1>3. su \in [Starters -> Calls] /\ su[k] \in Calls
  BY DEF Typed
<1>4. su'[k] = [phase |-> "spawning", chat |-> su[k].chat, stale |-> su[k].stale,
                state |-> state, sess |-> n, mayRotate |-> r]
  BY <1>1, <1>3 DEF Calls
<1>5. su'[k] \in Calls
  BY <1>2, <1>3, <1>4 DEF Calls, Phases
<1>6. su' = [j \in Starters |-> su'[j]] /\ \A j \in Starters \ {k} : su'[j] = su[j]
  BY <1>1, <1>3 DEF Calls
<1>7. su' \in [Starters -> Calls]
  BY <1>3, <1>5, <1>6
<1>8. s \in Objects
  BY DEF Objects, Bindings
<1>9. sess' \in [Sessions -> Objects] /\ sess'[n] = s /\ \A m \in Sessions \ {n} : sess'[m] = sess[m]
  BY <1>1, <1>2, <1>8 DEF Typed
<1>10. /\ su'[k].phase = "spawning" /\ su'[k].chat = su[k].chat /\ su'[k].stale = su[k].stale
       /\ su'[k].state = state /\ su'[k].sess = n
  BY <1>4
<1> QED
  BY <1>6, <1>7, <1>9, <1>10 DEF Spawned

(* A change of one session's child or task. *)
LEMMA ObjectShape ==
    ASSUME Typed, NEW n \in Sessions, NEW s \in Objects, sess' = [sess EXCEPT ![n] = s]
    PROVE  /\ sess' \in [Sessions -> Objects]
           /\ sess'[n] = s /\ \A m \in Sessions \ {n} : sess'[m] = sess[m]
BY DEF Typed

(* A session's task moves on.                                              *)
LEMMA TaskShape ==
    ASSUME Typed, NEW n \in Sessions, NEW t \in {"none", "queued", "running"},
           sess' = [sess EXCEPT ![n].task = t]
    PROVE  /\ sess' \in [Sessions -> Objects]
           /\ \A m \in Sessions \ {n} : sess'[m] = sess[m]
           /\ sess'[n].chat = sess[n].chat /\ sess'[n].id = sess[n].id
           /\ sess'[n].notice = sess[n].notice /\ sess'[n].child = sess[n].child /\ sess'[n].task = t
BY DEF Typed, Objects

(* A child exits, and with it a turn that was running.                     *)
LEMMA ExitShape ==
    ASSUME Typed, NEW n \in Sessions,
           sess' = [sess EXCEPT ![n].child = "dead", ![n].task = IF @ = "running" THEN "none" ELSE @]
    PROVE  /\ sess' \in [Sessions -> Objects]
           /\ \A m \in Sessions \ {n} : sess'[m] = sess[m]
           /\ sess'[n].chat = sess[n].chat /\ sess'[n].id = sess[n].id
           /\ sess'[n].notice = sess[n].notice /\ sess'[n].child = "dead"
           /\ sess'[n].task # "none" => sess[n].task # "none"
BY DEF Typed, Objects

(* A teardown that waits behind another one leaves that one in front. *)
LEMMA AppendShape ==
    ASSUME NEW S, NEW s \in Seq(S), NEW e \in S
    PROVE  /\ Append(s, e) \in Seq(S) /\ Append(s, e) # <<>>
           /\ s # <<>> => Head(Append(s, e)) = Head(s)
           /\ <<e>> \in Seq(S) /\ <<e>> # <<>> /\ Head(<<e>>) = e
<1>1. Append(s, e) \in Seq(S) /\ Append(s, e) # <<>>
  BY AppendProperties
<1>2. s # <<>> => Head(Append(s, e)) = Head(s)
  BY HeadTailAppend
<1>3. <<e>> \in Seq(S) /\ <<e>> # <<>> /\ Head(<<e>>) = e
  OBVIOUS
<1> QED
  BY <1>1, <1>2, <1>3

(* The running teardown is one of a chat's teardowns.                      *)
LEMMA HeadElement ==
    ASSUME Typed, NEW c \in Chats, teardowns[c] # <<>>
    PROVE  Head(teardowns[c]) \in ElementsOf(teardowns[c])
<1>1. teardowns[c] \in Seq(Closings)
  BY DEF Typed
<1>2. Head(teardowns[c]) = teardowns[c][1] /\ 1 \in DOMAIN teardowns[c]
  BY <1>1, EmptySeq, LenProperties
<1> QED
  BY <1>2 DEF ElementsOf

(* closeSession on the chats C of a map in which a chat with a session has *)
(* no teardown: its sessions leave the map and get the first SIGTERM.      *)
Closes(C, owner, w) ==
    /\ store' = w.store
    /\ active' \in [Chats -> Sessions \union {None}]
    /\ \A c \in Chats : active'[c] = IF c \in C THEN None ELSE w.active[c]
    /\ gauge' = w.gauge - Cardinality({c \in C : w.active[c] # None})
    /\ sess' \in [Sessions -> Objects]
    /\ \A n \in Sessions : sess'[n] = IF \E c \in C : w.active[c] = n
                                      THEN Terminated(w.sess[n]) ELSE w.sess[n]
    /\ teardowns' \in [Chats -> Seq(Closings)]
    /\ \A c \in Chats :
          \/ /\ c \in C /\ w.active[c] # None /\ teardowns'[c] # <<>>
             /\ Head(teardowns'[c]).sess = w.active[c] /\ Head(teardowns'[c]).owner = owner
          \/ /\ c \notin C \/ w.active[c] = None
             /\ teardowns'[c] = <<>> <=> teardowns[c] = <<>>
             /\ teardowns[c] # <<>> => Head(teardowns'[c]) = Head(teardowns[c])
    /\ restarts' \in [Chats -> Nat]
    /\ \A c \in Chats : restarts'[c] = restarts[c] \/ restarts'[c] = 0

LEMMA CloseShape ==
    ASSUME Typed, NEW C \in SUBSET Chats, NEW owner \in Starters \union {"user", "closeAll"},
           NEW persist \in BOOLEAN, NEW w, Close(C, owner, persist, w),
           w.store \in [Chats -> Bindings], w.active \in [Chats -> Sessions \union {None}],
           w.sess \in [Sessions -> Objects], w.gauge \in Int,
           \A c \in C : w.active[c] # None => teardowns[c] = <<>>,
           persist => \A c \in C : w.active[c] # None => w.store[c] = StateOf(w.active[c])
    PROVE  Closes(C, owner, w)
<1> DEFINE now == {c \in C : teardowns[c] = <<>>}
           hit == {c \in now : w.active[c] # None}
           Entry(n) == [owner |-> owner, persist |-> persist, sess |-> n]
<1>1. /\ restarts' = [c \in Chats |-> IF c \in now THEN 0 ELSE restarts[c]]
      /\ teardowns' = [c \in Chats |->
           IF c \in hit THEN <<Entry(w.active[c])>>
           ELSE IF c \in C \ now THEN Append(teardowns[c], Entry(None))
           ELSE teardowns[c]]
      /\ store' = [c \in Chats |->
           IF c \in hit /\ persist THEN StateOf(w.active[c]) ELSE w.store[c]]
      /\ active' = [c \in Chats |-> IF c \in hit THEN None ELSE w.active[c]]
      /\ gauge' = w.gauge - Cardinality(hit)
      /\ sess' = [n \in Sessions |->
           IF \E c \in hit : w.active[c] = n THEN Terminated(w.sess[n]) ELSE w.sess[n]]
  BY DEF Close
<1>2. hit = {c \in C : w.active[c] # None}
  OBVIOUS
<1>3. store' = w.store
  BY <1>1
<1>4. active' \in [Chats -> Sessions \union {None}]
      /\ \A c \in Chats : active'[c] = IF c \in C THEN None ELSE w.active[c]
  BY <1>1, <1>2
<1>5. /\ sess' \in [Sessions -> Objects]
      /\ \A n \in Sessions : sess'[n] = IF \E c \in C : w.active[c] = n
                                        THEN Terminated(w.sess[n]) ELSE w.sess[n]
  <2>1. \A n \in Sessions : (\E c \in hit : w.active[c] = n) <=> (\E c \in C : w.active[c] = n)
    BY <1>2, NoneIsNone
  <2>2. \A n \in Sessions : Terminated(w.sess[n]) \in Objects
    BY SignalShape
  <2> HIDE DEF hit
  <2> QED
    BY <1>1, <2>1, <2>2
<1>6. \A n \in Sessions \union {None} : Entry(n) \in Closings
  BY DEF Closings
<1>7. teardowns \in [Chats -> Seq(Closings)] /\ restarts \in [Chats -> Nat]
  BY DEF Typed
<1>8. ASSUME NEW c \in Chats
      PROVE  /\ teardowns'[c] \in Seq(Closings)
             /\ \/ /\ c \in C /\ w.active[c] # None /\ teardowns'[c] # <<>>
                   /\ Head(teardowns'[c]).sess = w.active[c] /\ Head(teardowns'[c]).owner = owner
                \/ /\ c \notin C \/ w.active[c] = None
                   /\ teardowns'[c] = <<>> <=> teardowns[c] = <<>>
                   /\ teardowns[c] # <<>> => Head(teardowns'[c]) = Head(teardowns[c])
  <2>1. CASE c \in hit
    <3>1. teardowns'[c] = <<Entry(w.active[c])>>
      BY <1>1, <2>1
    <3>2. Entry(w.active[c]) \in Closings
      BY <1>6
    <3>3. Head(<<Entry(w.active[c])>>) = Entry(w.active[c]) /\ <<Entry(w.active[c])>> \in Seq(Closings)
          /\ <<Entry(w.active[c])>> # <<>>
      BY <3>2, AppendShape
    <3> QED
      BY <2>1, <3>1, <3>3
  <2>2. CASE c \in C \ now
    <3>1. teardowns'[c] = Append(teardowns[c], Entry(None)) /\ teardowns[c] # <<>>
      BY <1>1, <2>2
    <3>2. Entry(None) \in Closings /\ teardowns[c] \in Seq(Closings)
      BY <1>6, <1>7
    <3> HIDE DEF Entry
    <3>3. teardowns'[c] \in Seq(Closings) /\ teardowns'[c] # <<>> /\ Head(teardowns'[c]) = Head(teardowns[c])
      BY <3>1, <3>2, AppendShape
    <3> QED
      BY <2>2, <3>1, <3>3
  <2>3. CASE c \notin hit /\ c \notin C \ now
    <3>1. teardowns'[c] = teardowns[c]
      BY <1>1, <2>3
    <3> QED
      BY <1>2, <1>7, <2>3, <3>1
  <2> QED
    BY <2>1, <2>2, <2>3
<1>9. teardowns' \in [Chats -> Seq(Closings)]
  <2>1. \A c \in Chats : teardowns'[c] \in Seq(Closings)
    BY <1>8
  <2>2. teardowns' = [c \in Chats |-> teardowns'[c]]
    BY <1>1
  <2> QED
    BY <2>1, <2>2
<1>10. restarts' \in [Chats -> Nat] /\ \A c \in Chats : restarts'[c] = restarts[c] \/ restarts'[c] = 0
  BY <1>1, <1>7
<1>11. gauge' = w.gauge - Cardinality({c \in C : w.active[c] # None})
  BY <1>1, <1>2
<1> QED
  BY <1>3, <1>4, <1>5, <1>8, <1>9, <1>10, <1>11 DEF Closes

-----------------------------------------------------------------------------
(* The invariant. *)

StoreIds == {store[c].id : c \in Chats} \ {None}

(* The live startup of a chat is the registered one. *)
Registered ==
    /\ \A c \in Chats : startups[c] # None => su[startups[c]].phase # "free" /\ su[startups[c]].chat = c
    /\ \A k \in Starters : Live(k) => startups[su[k].chat] = k /\ accepting
    /\ accepting <=> closing = "no"

(* A startup with a child holds a session of its own, on the transcript it *)
(* was prepared for and not yet in the map.                                *)
Childless(k) ==
    /\ su[k].phase = "free" <=> su[k] = NoStartup
    /\ su[k].phase # "free" => su[k].chat \in Chats
    /\ su[k].phase \notin Bearing => su[k].state = NoEntry /\ su[k].sess = None
Carrying(k) ==
    LET n == su[k].sess
    IN su[k].phase \in Bearing =>
          /\ n \in Sessions /\ su[k].state.id \in Transcripts
          /\ sess[n].chat = su[k].chat /\ sess[n].id = su[k].state.id
          /\ sess[n].task = "none" /\ sess[n].child # "none"
          /\ active[su[k].chat] # n
          /\ su[k].phase \in Opening => sess[n].notice = su[k].state.notice
          /\ su[k].phase \notin Opening => sess[n].child \in {"kill", "dead"}
StartupShape ==
    /\ \A k \in Starters : Childless(k) /\ Carrying(k)
    /\ \A j, k \in Starters : su[j].sess = su[k].sess => j = k \/ su[k].sess = None

(* The live startup works on what the store says of its chat and, once     *)
(* admitted, finds the chat's place in the map and its teardown barrier    *)
(* empty; what a superseded one was prepared for the store has dropped.    *)
Holding(k) ==
    /\ Live(k) /\ su[k].phase \in Bearing => su[k].state.id = store[su[k].chat].id
    /\ ~Live(k) /\ su[k].phase \in Bearing /\ accepting => su[k].state.id \notin StoreIds
    /\ Live(k) /\ su[k].phase \in Admitted =>
          active[su[k].chat] = None /\ teardowns[su[k].chat] = <<>>
    /\ Live(k) /\ su[k].phase = "replacing" =>
          /\ active[su[k].chat] = None
          /\ teardowns[su[k].chat] = <<>> \/ Head(teardowns[su[k].chat]).owner = k
StartupHolds == \A k \in Starters : Holding(k)

(* A session in the map is what the store says, and nothing tears it down. *)
Mapped(c) ==
    active[c] # None =>
       /\ sess[active[c]].chat = c /\ store[c] = StateOf(active[c]) /\ teardowns[c] = <<>>
       /\ store[c].id \in Transcripts /\ sess[active[c]].child # "none"
ActiveShape == \A c \in Chats : Mapped(c)

(* A running teardown has a session that was told to stop. *)
TornDown(c) ==
    LET n == Head(teardowns[c]).sess
    IN teardowns[c] # <<>> =>
          /\ n \in Sessions /\ sess[n].chat = c /\ sess[n].child \notin {"none", "up"}
          /\ \A k \in Starters : su[k].sess # n
TeardownShape == \A c \in Chats : TornDown(c)

(* A child that may write has the transcript the store names for its chat, *)
(* or one that the store no longer knows; somebody watches it.             *)
Watched(n) ==
    /\ sess[n].child # "none" \/ sess[n].task # "none" => sess[n].chat \in Chats
    /\ sess[n].child \in {"up", "term"} =>
          /\ sess[n].id \in Transcripts
          /\ sess[n].id = store[sess[n].chat].id \/ sess[n].id \notin StoreIds
    /\ sess[n].child = "up" =>
          \/ active[sess[n].chat] = n
          \/ \E k \in Starters : su[k].sess = n /\ su[k].phase \in Opening
    /\ sess[n].child = "term" =>
          \/ active[sess[n].chat] = n
          \/ teardowns[sess[n].chat] # <<>> /\ Head(teardowns[sess[n].chat]).sess = n
    /\ sess[n].child = "up" /\ sess[n].task # "none" => active[sess[n].chat] = n
ChildShape == \A n \in Sessions : Watched(n)

(* A transcript belongs to one chat, and what /clean or an acknowledgement *)
(* took out of the store is not in it.                                     *)
Ledger ==
    /\ DistinctIds(store) /\ None \notin cleaned
    /\ \A c \in Chats : store[c].id \notin cleaned
    /\ NoticeOnce

(* Nothing happens before the store is in use. *)
Fresh ==
    /\ boot # "up" =>
        /\ \A c \in Chats : store[c] = NoEntry /\ active[c] = None /\ teardowns[c] = <<>>
        /\ \A k \in Starters : su[k] = NoStartup
        /\ \A n \in Sessions : sess[n] = NoSession
        /\ cleaned = {} /\ notified = {}
    /\ boot \in {"off", "migrating", "backing", "replacing", "up"}
    /\ boot = "replacing" => backup = "exact"
    /\ boot = "backing" => backup # "exact"

Opened == {c \in Chats : active[c] # None}
Gauged == gauge = Cardinality(Opened)

(* A chat at the crash limit has no session and starts none. *)
Counted == {"backoff", "failing"} \union Opening
Bounded ==
    /\ \A c \in Chats : /\ restarts[c] <= MaxCrashRestarts
                        /\ active[c] # None => restarts[c] < MaxCrashRestarts
    /\ \A k \in Starters : Live(k) /\ su[k].phase \in Counted =>
          restarts[su[k].chat] < MaxCrashRestarts

(* What a step that leaves the store alone can disturb ...                 *)
Coherent ==
    /\ StartupShape /\ StartupHolds /\ ActiveShape /\ TeardownShape /\ ChildShape
    /\ Ledger /\ Fresh /\ OneWriterPerTranscript

(* ... and everything.                                                     *)
SessInv ==
    Typed /\ Coherent /\ Registered /\ Gauged /\ Bounded /\ ClosedForGood

-----------------------------------------------------------------------------
(* Most steps only take away: sessions leave the map and their children    *)
(* stop, entries leave the store, startups move on or end.                 *)

(* A child comes no nearer to life. *)
Sinks(n) ==
    \/ sess'[n].child = sess[n].child
    \/ sess[n].child = "up" /\ sess'[n].child \in {"term", "kill", "dead"}
    \/ sess[n].child = "term" /\ sess'[n].child \in {"kill", "dead"}
    \/ sess[n].child = "kill" /\ sess'[n].child = "dead"

KeptSession(n) ==
    /\ sess'[n].chat = sess[n].chat /\ sess'[n].id = sess[n].id /\ sess'[n].notice = sess[n].notice
    /\ Sinks(n)
    /\ sess'[n].task # "none" =>
          \/ sess[n].task # "none"
          \/ sess[n].chat \in Chats /\ active[sess[n].chat] = n /\ active'[sess[n].chat] = n
    /\ sess[n].child = "up" /\ sess'[n].child = "term" => active[sess[n].chat] = n

(* A session leaves the map dead, or told to stop by the teardown. *)
KeptPlace(c) ==
    \/ active'[c] = active[c]
    \/ /\ active[c] # None /\ active'[c] = None /\ sess'[active[c]].child # "up"
       /\ sess'[active[c]].child = "term" =>
             teardowns'[c] # <<>> /\ Head(teardowns'[c]).sess = active[c]

KeptBarrier(c) ==
    \/ teardowns'[c] = <<>> /\ (teardowns[c] # <<>> => sess[Head(teardowns[c]).sess].child # "term")
    \/ teardowns[c] # <<>> /\ teardowns'[c] # <<>> /\ Head(teardowns'[c]) = Head(teardowns[c])
    \/ /\ teardowns[c] = <<>> /\ teardowns'[c] # <<>> /\ active[c] # None /\ active'[c] = None
       /\ Head(teardowns'[c]).sess = active[c] /\ sess'[active[c]].child # "up"

KeptEntry(c) ==
    \/ store'[c] = store[c]
    \/ /\ store'[c] = NoEntry /\ active'[c] = None
       /\ \A k \in Starters : su[k].chat = c => su'[k].stale

Ends(k) == su'[k] = NoStartup /\ su[k].phase \notin Opening
Begins(k) ==
    /\ su[k] = NoStartup /\ su'[k].phase = "barrier" /\ su'[k].chat \in Chats
    /\ su'[k].state = NoEntry /\ su'[k].sess = None
Moves(k) ==
    LET c == su[k].chat
    IN /\ su'[k].chat = c /\ su'[k].state = su[k].state /\ su'[k].sess = su[k].sess
       /\ su[k].stale => su'[k].stale
       /\ su'[k].stale => su[k].stale \/ ~accepting' \/ store'[c] = NoEntry
       /\ \/ su'[k].phase = su[k].phase /\ (su[k].phase = "free" => su'[k] = su[k])
          \/ /\ su[k].phase = "barrier" /\ su'[k].phase = "replacing" /\ active'[c] = None
             /\ teardowns'[c] = <<>> \/ Head(teardowns'[c]).owner = k
          \/ /\ su[k].phase \in {"barrier", "replacing"} /\ su'[k].phase = "evicting"
             /\ active'[c] = None /\ teardowns'[c] = <<>>
          \/ su[k].phase = "evicting" /\ su'[k].phase = "backoff"
          \/ su[k].phase = "spawning" /\ su'[k].phase = "identifying"
          \/ /\ su[k].phase \in Opening /\ su'[k].phase \in {"failing", "aborting"}
             /\ sess'[su[k].sess].child \in {"kill", "dead"}

Quiet ==
    /\ boot = "up" /\ boot' = "up" /\ notified' = notified /\ (accepting' => accepting)
    /\ \A n \in Sessions : KeptSession(n)
    /\ \A c \in Chats : KeptPlace(c) /\ KeptBarrier(c) /\ KeptEntry(c)
    /\ \A k \in Starters : Ends(k) \/ Begins(k) \/ Moves(k)
    /\ \A t \in cleaned' : t \in cleaned \/ t \in StoreIds \ StoreIds'

(* Startups keep their shape through such a step.                          *)
LEMMA QuietStartups ==
    ASSUME Typed, Coherent, Typed', Quiet
    PROVE  StartupShape'
<1>1. ASSUME NEW k \in Starters
      PROVE  Childless(k)' /\ Carrying(k)'
  <2> USE DEF Opening, Bearing
  <2>0. Childless(k) /\ Carrying(k) /\ (Ends(k) \/ Begins(k) \/ Moves(k))
    BY DEF Coherent, StartupShape, Quiet
  <2>1. CASE Ends(k)
    BY <2>1, Blanks DEF Ends, Childless, Carrying
  <2>2. CASE Begins(k)
    BY <2>2, Blanks DEF Begins, Childless, Carrying
  <2>3. CASE Moves(k)
    <3>1. Childless(k)'
      BY <2>0, <2>3, Blanks DEF Moves, Childless
    <3>2. CASE su'[k].phase \in Bearing
      <4>1. /\ su[k].phase \in Bearing /\ su[k].chat \in Chats
            /\ su'[k].chat = su[k].chat /\ su'[k].state = su[k].state /\ su'[k].sess = su[k].sess
        BY <2>0, <2>3, <3>2 DEF Moves, Childless
      <4> DEFINE n == su[k].sess
                 c == su[k].chat
      <4>2. /\ n \in Sessions /\ su[k].state.id \in Transcripts
            /\ sess[n].chat = c /\ sess[n].id = su[k].state.id
            /\ sess[n].task = "none" /\ sess[n].child # "none" /\ active[c] # n
        BY <2>0, <4>1 DEF Carrying
      <4>3. KeptSession(n) /\ KeptPlace(c) /\ sess[n] \in Objects /\ sess'[n] \in Objects
        BY <4>1, <4>2 DEF Quiet, Typed
      <4>4. sess'[n].chat = c /\ sess'[n].id = su[k].state.id /\ sess'[n].notice = sess[n].notice
        BY <4>2, <4>3 DEF KeptSession
      <4>5. sess'[n].task = "none" /\ sess'[n].child # "none"
        BY <4>2, <4>3 DEF KeptSession, Sinks
      <4>6. active'[c] # n
        BY <4>2, <4>3, NoneIsNone DEF KeptPlace
      <4>7. su'[k].phase \in Opening => su[k].phase \in Opening
        BY <2>3, <4>1 DEF Moves
      <4>8. su'[k].phase \notin Opening => sess'[n].child \in {"kill", "dead"}
        <5>1. CASE su[k].phase \in Opening
          BY <2>3, <5>1, <3>2 DEF Moves
        <5>2. CASE su[k].phase \notin Opening
          <6>1. sess[n].child \in {"kill", "dead"}
            BY <2>0, <4>1, <5>2 DEF Carrying
          <6> QED
            BY <4>3, <6>1 DEF KeptSession, Sinks
        <5> QED
          BY <5>1, <5>2
      <4>9. su[k].phase \in Opening => sess[n].notice = su[k].state.notice
        BY <2>0 DEF Carrying
      <4> QED
        BY <3>1, <4>1, <4>2, <4>4, <4>5, <4>6, <4>7, <4>8, <4>9 DEF Carrying
    <3>3. CASE su'[k].phase \notin Bearing
      BY <3>1, <3>3 DEF Carrying
    <3> QED
      BY <3>2, <3>3
  <2> QED
    BY <2>0, <2>1, <2>2, <2>3
<1>2. \A k \in Starters : su'[k].sess \in {su[k].sess, None}
  BY Blanks DEF Quiet, Ends, Begins, Moves
<1>3. \A j, k \in Starters : su'[j].sess = su'[k].sess => j = k \/ su'[k].sess = None
  BY <1>2 DEF Coherent, StartupShape
<1> QED
  BY <1>1, <1>3 DEF StartupShape

(* A session that stays in the map stays what the store says; one that     *)
(* leaves it leaves no entry to a session of another chat.                 *)
LEMMA QuietMap ==
    ASSUME Typed, Coherent, Typed', Quiet
    PROVE  ActiveShape' /\ TeardownShape'
<1>1. ASSUME NEW c \in Chats, active'[c] # None
      PROVE  Mapped(c)'
  <2> DEFINE n == active[c]
  <2>1. active'[c] = n /\ n \in Sessions
    BY <1>1 DEF Quiet, KeptPlace, Typed
  <2>2. /\ sess[n].chat = c /\ store[c] = StateOf(n) /\ teardowns[c] = <<>>
        /\ store[c].id \in Transcripts /\ sess[n].child # "none"
    BY <1>1, <2>1 DEF Coherent, ActiveShape, Mapped
  <2>3. KeptSession(n) /\ KeptBarrier(c) /\ KeptEntry(c)
    BY <2>1 DEF Quiet
  <2>4. store'[c] = store[c]
    BY <1>1, <2>3 DEF KeptEntry
  <2>5. teardowns'[c] = <<>>
    BY <1>1, <2>2, <2>3 DEF KeptBarrier
  <2>6. sess'[n].chat = c /\ sess'[n].child # "none" /\ StateOf(n)' = StateOf(n)
    BY <2>1, <2>2, <2>3 DEF KeptSession, Sinks, StateOf
  <2> QED
    BY <2>1, <2>2, <2>4, <2>5, <2>6 DEF Mapped
<1>2. ASSUME NEW c \in Chats, teardowns'[c] # <<>>
      PROVE  TornDown(c)'
  <2> DEFINE n == Head(teardowns'[c]).sess
  <2>0. KeptBarrier(c) /\ \A k \in Starters : su'[k].sess \in {su[k].sess, None}
    BY Blanks DEF Quiet, Ends, Begins, Moves
  <2>1. n \in Sessions /\ sess[n].chat = c /\ sess'[n].child \notin {"none", "up"}
        /\ \A k \in Starters : su[k].sess # n
    <3>1. CASE teardowns[c] # <<>>
      <4>1. Head(teardowns'[c]) = Head(teardowns[c])
        BY <1>2, <2>0, <3>1 DEF KeptBarrier
      <4>2. n \in Sessions /\ sess[n].chat = c /\ sess[n].child \notin {"none", "up"}
            /\ \A k \in Starters : su[k].sess # n
        BY <3>1, <4>1 DEF Coherent, TeardownShape, TornDown
      <4>3. KeptSession(n) /\ sess[n] \in Objects
        BY <4>2 DEF Quiet, Typed
      <4> QED
        BY <4>2, <4>3 DEF KeptSession, Sinks
    <3>2. CASE teardowns[c] = <<>>
      <4>1. n = active[c] /\ n # None /\ sess'[n].child # "up"
        BY <1>2, <2>0, <3>2 DEF KeptBarrier
      <4>2. n \in Sessions /\ KeptSession(n)
        BY <4>1 DEF Typed, Quiet
      <4>3. sess[n].chat = c /\ sess[n].child # "none"
        BY <4>1 DEF Coherent, ActiveShape, Mapped
      <4>4. sess'[n].child # "none"
        BY <4>2, <4>3 DEF KeptSession, Sinks
      <4>5. ASSUME NEW k \in Starters, su[k].sess = n
            PROVE  FALSE
        <5>1. Childless(k) /\ Carrying(k)
          BY DEF Coherent, StartupShape
        <5>2. su[k].phase \in Bearing
          BY <4>1, <4>5, <5>1 DEF Childless
        <5> QED
          BY <4>1, <4>3, <4>5, <5>1, <5>2 DEF Carrying
      <4> QED
        BY <4>1, <4>2, <4>3, <4>4, <4>5
    <3> QED
      BY <3>1, <3>2
  <2>2. sess'[n].chat = c
    BY <2>1 DEF Quiet, KeptSession
  <2>3. \A k \in Starters : su'[k].sess # n
    BY <2>0, <2>1, NoneIsNone
  <2> QED
    BY <2>1, <2>2, <2>3 DEF TornDown
<1>3. \A c \in Chats : Mapped(c)' /\ TornDown(c)'
  BY <1>1, <1>2 DEF Mapped, TornDown
<1> QED
  BY <1>3 DEF ActiveShape, TeardownShape

(* The store only loses entries. *)
LEMMA QuietStore ==
    ASSUME Typed, Coherent, Typed', Quiet
    PROVE  /\ \A c \in Chats : store'[c] = store[c] \/ store'[c] = NoEntry
           /\ StoreIds' \subseteq StoreIds
           /\ Ledger' /\ Fresh'
<1>1. \A c \in Chats : store'[c] = store[c] \/ store'[c] = NoEntry
  BY DEF Quiet, KeptEntry
<1>2. StoreIds' \subseteq StoreIds
  BY <1>1, Blanks DEF StoreIds
<1>3. DistinctIds(store) /\ None \notin cleaned /\ NoticeOnce /\ \A c \in Chats : store[c].id \notin cleaned
  BY DEF Coherent, Ledger
<1>4. DistinctIds(store')
  BY <1>1, <1>3, Blanks DEF DistinctIds
<1>5. None \notin cleaned' /\ \A c \in Chats : store'[c].id \notin cleaned'
  <2>1. \A t \in cleaned' : t \in cleaned \/ (t \in StoreIds /\ t \notin StoreIds')
    BY DEF Quiet
  <2>2. None \notin cleaned'
    BY <1>3, <2>1 DEF StoreIds
  <2>3. ASSUME NEW c \in Chats, store'[c].id \in cleaned'
        PROVE  FALSE
    <3>1. store'[c].id # None /\ store'[c].id \in StoreIds'
      BY <2>2, <2>3 DEF StoreIds
    <3>2. store'[c] = store[c]
      BY <1>1, <3>1, Blanks
    <3> QED
      BY <1>3, <2>1, <2>3, <3>1, <3>2
  <2> QED
    BY <2>2, <2>3
<1>6. NoticeOnce'
  BY <1>1, <1>3, Blanks DEF NoticeOnce, Quiet
<1>7. Ledger'
  BY <1>4, <1>5, <1>6 DEF Ledger
<1>8. Fresh'
  BY DEF Quiet, Fresh
<1> QED
  BY <1>1, <1>2, <1>7, <1>8

(* The id of an entry that left the store is in it no more. *)
LEMMA QuietDropped ==
    ASSUME Typed, Coherent, Typed', Quiet, NEW c \in Chats, store'[c] # store[c]
    PROVE  store'[c] = NoEntry /\ store[c].id \notin StoreIds'
<1>1. \A d \in Chats : store'[d] = store[d] \/ store'[d] = NoEntry
  BY QuietStore
<1>2. store'[c] = NoEntry
  BY <1>1
<1>3. ASSUME NEW d \in Chats, store'[d].id = store[c].id, store[c].id # None
      PROVE  FALSE
  <2>1. store'[d] = store[d] /\ d # c
    BY <1>1, <1>2, <1>3, Blanks
  <2> QED
    BY <1>3, <2>1 DEF Coherent, Ledger, DistinctIds
<1> QED
  BY <1>2, <1>3 DEF StoreIds

(* A live startup keeps what it holds.                                     *)
LEMMA QuietHolds ==
    ASSUME Typed, Coherent, Typed', Quiet
    PROVE  StartupHolds'
<1> SUFFICES ASSUME NEW k \in Starters
             PROVE  Holding(k)'
  BY DEF StartupHolds
<1> USE DEF Opening, Bearing, Admitted
<1>0. Childless(k) /\ Carrying(k) /\ Holding(k) /\ (Ends(k) \/ Begins(k) \/ Moves(k))
  BY DEF Coherent, StartupShape, StartupHolds, Quiet
<1>1. CASE Ends(k)
  BY <1>1, Blanks DEF Ends, Holding, Live
<1>2. CASE Begins(k)
  BY <1>2 DEF Begins, Holding
<1>3. CASE Moves(k) /\ su[k].phase # "free"
  <2> DEFINE c == su[k].chat
  <2>1. c \in Chats /\ su'[k].chat = c /\ su'[k].state = su[k].state /\ su'[k].sess = su[k].sess
    BY <1>0, <1>3 DEF Moves, Childless
  <2>2. KeptPlace(c) /\ KeptBarrier(c) /\ KeptEntry(c) /\ active[c] \in Sessions \union {None}
    BY <2>1 DEF Quiet, Typed
  <2>3. Live(k)' => Live(k)
    BY <1>3 DEF Moves, Live
  <2>4. ASSUME Live(k)'
        PROVE  store'[c] = store[c]
    BY <2>2, <2>4 DEF KeptEntry, Live
  <2>5. su'[k].phase \in Bearing => su[k].phase \in Bearing
    BY <1>3 DEF Moves
  <2>6. ASSUME Live(k)', su'[k].phase \in Bearing
        PROVE  su'[k].state.id = store'[c].id
    BY <1>0, <2>1, <2>3, <2>4, <2>5, <2>6 DEF Holding
  <2>7. ASSUME ~Live(k)', su'[k].phase \in Bearing, accepting'
        PROVE  su'[k].state.id \notin StoreIds'
    <3>1. su'[k].stale /\ accepting
      BY <2>7 DEF Live, Quiet
    <3>2. CASE su[k].stale
      <4>1. su[k].state.id \notin StoreIds
        BY <1>0, <2>5, <2>7, <3>1, <3>2 DEF Holding, Live
      <4> QED
        BY <2>1, <4>1, QuietStore
    <3>3. CASE ~su[k].stale
      <4>1. store'[c] = NoEntry
        BY <1>3, <2>7, <3>1, <3>3 DEF Moves
      <4>2. su[k].state.id = store[c].id /\ store[c].id \in Transcripts
        BY <1>0, <2>5, <2>7, <3>3 DEF Holding, Live, Carrying
      <4>3. store'[c] # store[c]
        BY <4>1, <4>2, Blanks, NoneIsNone
      <4> QED
        BY <2>1, <4>2, <4>3, QuietDropped
    <3> QED
      BY <3>2, <3>3
  <2>8. ASSUME active[c] = None, teardowns[c] = <<>>
        PROVE  active'[c] = None /\ teardowns'[c] = <<>>
    BY <2>2, <2>8 DEF KeptPlace, KeptBarrier
  <2>9. ASSUME Live(k)', su'[k].phase \in Admitted
        PROVE  active'[c] = None /\ teardowns'[c] = <<>>
    <3>1. CASE su[k].phase \in Admitted
      BY <1>0, <2>3, <2>8, <2>9, <3>1 DEF Holding
    <3>2. CASE su[k].phase \notin Admitted
      BY <1>3, <2>9, <3>2 DEF Moves
    <3> QED
      BY <3>1, <3>2
  <2>10. ASSUME Live(k)', su'[k].phase = "replacing"
         PROVE  /\ active'[c] = None
                /\ teardowns'[c] = <<>> \/ Head(teardowns'[c]).owner = k
    <3>1. CASE su[k].phase = "replacing"
      <4>1. active[c] = None /\ (teardowns[c] = <<>> \/ Head(teardowns[c]).owner = k)
        BY <1>0, <2>3, <2>10, <3>1 DEF Holding
      <4> QED
        BY <2>2, <4>1 DEF KeptPlace, KeptBarrier
    <3>2. CASE su[k].phase # "replacing"
      BY <1>3, <2>10, <3>2 DEF Moves
    <3> QED
      BY <3>1, <3>2
  <2> QED
    BY <2>1, <2>6, <2>7, <2>9, <2>10 DEF Holding
<1>4. CASE Moves(k) /\ su[k].phase = "free"
  <2>1. su'[k].phase = "free"
    BY <1>4 DEF Moves
  <2> QED
    BY <2>1 DEF Holding, Live
<1> QED
  BY <1>0, <1>1, <1>2, <1>3, <1>4

(* No child gains a transcript or loses its watcher.                       *)
LEMMA QuietChildren ==
    ASSUME Typed, Coherent, Typed', Quiet
    PROVE  ChildShape' /\ OneWriterPerTranscript'
<1>1. ASSUME NEW n \in Sessions
      PROVE  Watched(n)'
  <2> DEFINE c == sess[n].chat
  <2>0. /\ Watched(n) /\ KeptSession(n) /\ sess'[n].chat = c /\ sess'[n].id = sess[n].id
        /\ sess[n] \in Objects /\ sess'[n] \in Objects
    BY DEF Coherent, ChildShape, Quiet, KeptSession, Typed
  <2>1. ASSUME sess'[n].child # "none" \/ sess'[n].task # "none"
        PROVE  c \in Chats
    BY <2>0, <2>1 DEF Watched, KeptSession, Sinks
  <2>2. ASSUME sess'[n].child \in {"up", "term"}
        PROVE  sess[n].id \in Transcripts /\ (sess[n].id = store'[c].id \/ sess[n].id \notin StoreIds')
    <3>1. sess[n].child \in {"up", "term"}
      BY <2>0, <2>2 DEF KeptSession, Sinks
    <3>2. c \in Chats /\ sess[n].id \in Transcripts /\ (sess[n].id = store[c].id \/ sess[n].id \notin StoreIds)
      BY <2>0, <3>1 DEF Watched
    <3>3. CASE sess[n].id \notin StoreIds
      BY <3>2, <3>3, QuietStore
    <3>4. CASE sess[n].id = store[c].id
      BY <3>2, <3>4, QuietDropped
    <3> QED
      BY <3>2, <3>3, <3>4
  <2>3. ASSUME c \in Chats, active[c] = n, sess'[n].child \in {"up", "term"}
        PROVE  \/ active'[c] = n
               \/ sess'[n].child = "term" /\ teardowns'[c] # <<>> /\ Head(teardowns'[c]).sess = n
    BY <2>3 DEF Quiet, KeptPlace
  <2>4. ASSUME sess'[n].child = "up"
        PROVE  active'[c] = n \/ \E k \in Starters : su'[k].sess = n /\ su'[k].phase \in Opening
    <3>1. sess[n].child = "up" /\ c \in Chats
      BY <2>0, <2>1, <2>4 DEF KeptSession, Sinks
    <3>2. CASE active[c] = n
      BY <2>3, <2>4, <3>1, <3>2
    <3>3. ASSUME NEW k \in Starters, su[k].sess = n, su[k].phase \in Opening
          PROVE  su'[k].sess = n /\ su'[k].phase \in Opening
      <4>1. Moves(k)
        BY <3>3, Blanks DEF Quiet, Ends, Begins, Opening
      <4> QED
        BY <2>4, <3>3, <4>1 DEF Moves, Opening
    <3> QED
      BY <2>0, <3>1, <3>2, <3>3 DEF Watched
  <2>5. ASSUME sess'[n].child = "term"
        PROVE  active'[c] = n \/ (teardowns'[c] # <<>> /\ Head(teardowns'[c]).sess = n)
    <3>1. c \in Chats
      BY <2>1, <2>5
    <3>2. CASE active[c] = n
      BY <2>3, <2>5, <3>1, <3>2
    <3>3. CASE active[c] # n
      <4>1. sess[n].child = "term"
        BY <2>0, <2>5, <3>3 DEF KeptSession, Sinks
      <4>2. teardowns[c] # <<>> /\ Head(teardowns[c]).sess = n
        BY <2>0, <3>3, <4>1 DEF Watched
      <4>3. KeptBarrier(c)
        BY <3>1 DEF Quiet
      <4> QED
        BY <4>1, <4>2, <4>3 DEF KeptBarrier
    <3> QED
      BY <3>2, <3>3
  <2>6. ASSUME sess'[n].child = "up", sess'[n].task # "none"
        PROVE  active'[c] = n
    <3>1. sess[n].child = "up" /\ c \in Chats
      BY <2>0, <2>1, <2>6 DEF KeptSession, Sinks
    <3>2. CASE sess[n].task # "none"
      <4>1. active[c] = n
        BY <2>0, <3>1, <3>2 DEF Watched
      <4> QED
        BY <2>3, <2>6, <3>1, <4>1
    <3>3. CASE sess[n].task = "none"
      BY <2>0, <2>6, <3>3 DEF KeptSession
    <3> QED
      BY <3>2, <3>3
  <2> QED
    BY <2>0, <2>1, <2>2, <2>4, <2>5, <2>6 DEF Watched
<1>2. ASSUME NEW n \in Sessions, sess'[n].child \in {"up", "term"}
      PROVE  sess[n].child \in {"up", "term"} /\ sess'[n].id = sess[n].id
  BY <1>2 DEF Quiet, KeptSession, Sinks
<1>3. OneWriterPerTranscript'
  BY <1>2 DEF OneWriterPerTranscript, Coherent
<1> QED
  BY <1>1, <1>3 DEF ChildShape

(* So such a step keeps everything.                                        *)
LEMMA QuietCoherent ==
    ASSUME Typed, Coherent, Typed', Quiet
    PROVE  Coherent'
BY QuietStartups, QuietMap, QuietStore, QuietHolds, QuietChildren DEF Coherent

-----------------------------------------------------------------------------
(* What the other invariants ask of a step. *)

(* No startup begins or ends. *)
LEMMA StayRegistered ==
    ASSUME Typed, Registered, startups' = startups, accepting' = accepting, closing' = closing,
           \A k \in Starters : /\ su'[k].phase = "free" <=> su[k].phase = "free"
                               /\ su'[k].chat = su[k].chat /\ (su[k].stale => su'[k].stale)
    PROVE  Registered'
<1>1. \A c \in Chats : startups[c] \in Starters \union {None}
  BY DEF Typed
<1>2. \A k \in Starters : Live(k)' => Live(k)
  BY DEF Live
<1>3. \A c \in Chats : startups'[c] # None =>
         su'[startups'[c]].phase # "free" /\ su'[startups'[c]].chat = c
  BY <1>1 DEF Registered
<1>4. \A k \in Starters : Live(k)' => startups'[su'[k].chat] = k /\ accepting'
  BY <1>2 DEF Registered
<1>5. accepting' <=> closing' = "no"
  BY DEF Registered
<1> QED
  BY <1>3, <1>4, <1>5 DEF Registered

(* A startup ends and takes back its registration. *)
LEMMA FinishRegistered ==
    ASSUME Typed, Registered, StartupShape, NEW k \in Starters, Finish(k),
           accepting' = accepting, closing' = closing
    PROVE  Registered'
<1>1. /\ su'[k] = NoStartup /\ \A j \in Starters \ {k} : su'[j] = su[j]
      /\ \A c \in Chats : startups'[c] = IF startups[c] = k THEN None ELSE startups[c]
  BY FinishShape
<1>2. \A c \in Chats : startups[c] \in Starters \union {None}
  BY DEF Typed
<1>3. \A c \in Chats : startups'[c] # None =>
         su'[startups'[c]].phase # "free" /\ su'[startups'[c]].chat = c
  BY <1>1, <1>2 DEF Registered
<1>4. ASSUME NEW j \in Starters, Live(j)'
      PROVE  startups'[su'[j].chat] = j /\ accepting'
  <2>1. j # k
    BY <1>1, <1>4, Blanks DEF Live
  <2>2. Live(j) /\ su'[j] = su[j]
    BY <1>1, <1>4, <2>1 DEF Live
  <2>3. su[j].chat \in Chats
    BY <2>2 DEF StartupShape, Childless, Live
  <2> QED
    BY <1>1, <2>1, <2>2, <2>3 DEF Registered
<1>5. accepting' <=> closing' = "no"
  BY DEF Registered
<1> QED
  BY <1>3, <1>4, <1>5 DEF Registered

(* Crash counts are reset and chats leave the map. *)
LEMMA StayBounded ==
    ASSUME Typed, Bounded, StartupShape, \A c \in Chats : restarts'[c] = restarts[c] \/ restarts'[c] = 0,
           \A c \in Chats : active'[c] \in {active[c], None},
           \A k \in Starters : Live(k)' /\ su'[k].phase \in Counted =>
              Live(k) /\ su[k].phase \in Counted /\ su'[k].chat = su[k].chat
    PROVE  Bounded'
<1>1. MaxCrashRestarts \in Nat \ {0} /\ \A c \in Chats : restarts[c] \in Nat
  BY SessionManagerAssumption DEF Typed
<1>2. \A c \in Chats : restarts'[c] <= restarts[c]
  BY <1>1
<1>3. \A c \in Chats : restarts'[c] \in Nat
  BY <1>1
<1>4. \A k \in Starters : Live(k) => su[k].chat \in Chats
  BY DEF Live, StartupShape, Childless
<1>5. \A c \in Chats : /\ restarts'[c] <= MaxCrashRestarts
                       /\ active'[c] # None => restarts'[c] < MaxCrashRestarts
  BY <1>1, <1>2, <1>3 DEF Bounded
<1>6. ASSUME NEW k \in Starters, Live(k)', su'[k].phase \in Counted
      PROVE  restarts'[su'[k].chat] < MaxCrashRestarts
  <2>1. Live(k) /\ su[k].phase \in Counted /\ su'[k].chat = su[k].chat /\ su[k].chat \in Chats
    BY <1>4, <1>6
  <2>2. restarts[su[k].chat] < MaxCrashRestarts
    BY <2>1 DEF Bounded
  <2> QED
    BY <1>1, <1>2, <1>3, <2>1, <2>2
<1> QED
  BY <1>5, <1>6 DEF Bounded

(* The chats are finitely many.                                            *)
LEMMA OpenedFinite == IsFiniteSet(Chats) /\ IsFiniteSet(Opened)
<1>1. Opened \subseteq Chats
  BY DEF Opened
<1> QED
  BY <1>1, FS_Subset, SessionManagerAssumption

(* The chats D lose their sessions. *)
LEMMA ClearCount ==
    ASSUME Typed, Gauged, ClosedForGood, NEW D \in SUBSET Chats,
           \A c \in D : active[c] # None,
           \A c \in Chats : active'[c] = IF c \in D THEN None ELSE active[c],
           gauge' = gauge - Cardinality(D), closing' = closing \/ closing' \notin {"tearing", "done"}
    PROVE  Gauged' /\ ClosedForGood'
<1>1. Opened' = Opened \ D /\ Opened \cap D = D
  BY DEF Opened
<1>2. Cardinality(Opened') = Cardinality(Opened) - Cardinality(D)
  BY <1>1, OpenedFinite, FS_Difference
<1>3. Gauged'
  BY <1>2 DEF Gauged
<1>4. ActiveSet' \subseteq ActiveSet
  BY DEF ActiveSet
<1>5. ClosedForGood'
  BY <1>4 DEF ClosedForGood
<1> QED
  BY <1>3, <1>5

(* A step that changes neither map nor gauge keeps the count.              *)
LEMMA StayCounted ==
    ASSUME Typed, Gauged, ClosedForGood, active' = active, gauge' = gauge, closing' = closing
    PROVE  Gauged' /\ ClosedForGood'
BY DEF Gauged, ClosedForGood, Opened, ActiveSet

-----------------------------------------------------------------------------
(* The steps of a startup that leave the session map alone. *)

(* A chat that a step leaves alone.                                        *)
LEMMA SamePlaces ==
    ASSUME active' = active, teardowns' = teardowns, store' = store, NEW c \in Chats
    PROVE  KeptPlace(c) /\ KeptBarrier(c) /\ KeptEntry(c)
BY DEF KeptPlace, KeptBarrier, KeptEntry

(* A startup that a step leaves alone.                                     *)
LEMMA SameStartup ==
    ASSUME NEW k \in Starters, su'[k] = su[k]
    PROVE  Moves(k)
BY DEF Moves

(* A session that a step leaves alone.                                     *)
LEMMA SameSession ==
    ASSUME NEW n \in Sessions, sess'[n] = sess[n]
    PROVE  KeptSession(n)
BY DEF KeptSession, Sinks

(* A startup ends without a child. *)
LEMMA FinishStep ==
    ASSUME SessInv, Running, NEW k \in Starters, Finish(k), su[k].phase \notin Opening,
           UNCHANGED <<accepting, active, gauge, sess, teardowns, store, notifying, closing,
                       cleaned, notified>>,
           restarts' \in [Chats -> Nat], Bounded'
    PROVE  SessInv' /\ NoticeKept
<1> USE DEF SessInv
<1>1. /\ su' \in [Starters -> Calls] /\ startups' \in [Chats -> Starters \union {None}]
      /\ su'[k] = NoStartup /\ \A j \in Starters \ {k} : su'[j] = su[j]
  BY FinishShape
<1>2. Typed'
  BY <1>1 DEF Typed
<1>3. \A j \in Starters : Ends(j) \/ Begins(j) \/ Moves(j)
  BY <1>1, SameStartup DEF Ends
<1>4. Quiet
  BY <1>3, SamePlaces, SameSession DEF Quiet, Running, stored
<1>5. Coherent' /\ Registered'
  BY <1>2, <1>4, QuietCoherent, FinishRegistered DEF Coherent
<1> QED
  BY <1>2, <1>5, StayCounted DEF NoticeKept

(* An ended startup counts no crash.                                       *)
LEMMA StayBoundedFinish ==
    ASSUME SessInv, NEW k \in Starters, Finish(k), UNCHANGED <<active, restarts>>
    PROVE  Bounded' /\ restarts' \in [Chats -> Nat]
<1>1. su'[k] = NoStartup /\ \A j \in Starters \ {k} : su'[j] = su[j]
  BY FinishShape DEF SessInv
<1>2. \A j \in Starters : Live(j)' /\ su'[j].phase \in Counted =>
         Live(j) /\ su[j].phase \in Counted /\ su'[j].chat = su[j].chat
  BY <1>1, Blanks DEF Live
<1> QED
  BY <1>2, StayBounded DEF SessInv, Coherent, Typed

(* The startups that end without a child.                                  *)
LEMMA EndSteps ==
    ASSUME SessInv, Running, NEW k \in Starters,
           \/ SupersededStops(k) \/ ReuseSession(k) \/ StartupRefused(k)
           \/ ReplacementUnusable(k) \/ AbortEnds(k)
    PROVE  SessInv' /\ NoticeKept
<1>1. /\ Finish(k) /\ su[k].phase \notin Opening
      /\ UNCHANGED <<accepting, active, gauge, sess, teardowns, store, restarts, notifying,
                     closing, cleaned, notified>>
  BY DEF SupersededStops, ReuseSession, StartupRefused, ReplacementUnusable, AbortEnds,
         Resumes, MaySpawn, Opening
<1> QED
  BY <1>1, FinishStep, StayBoundedFinish

(* A failure counts towards the crash limit of a chat without a session. *)
LEMMA StartupFailsStep ==
    ASSUME SessInv, Running, NEW k \in Starters, StartupFails(k)
    PROVE  SessInv' /\ NoticeKept
<1> USE DEF SessInv
<1> DEFINE c == su[k].chat
<1>1. /\ su[k].phase = "failing" /\ ~su[k].stale /\ Finish(k)
      /\ restarts' = [restarts EXCEPT ![c] = @ + 1] \/ restarts' = restarts
      /\ UNCHANGED <<accepting, active, gauge, sess, teardowns, store, notifying, closing,
                     cleaned, notified>>
  BY DEF StartupFails, Superseded
<1>2. su'[k] = NoStartup /\ \A j \in Starters \ {k} : su'[j] = su[j]
  BY <1>1, FinishShape
<1>3. CASE restarts' = restarts
  BY <1>1, <1>3, FinishStep, StayBoundedFinish DEF Opening
<1>4. CASE restarts' = [restarts EXCEPT ![c] = @ + 1]
  <2>1. Live(k) /\ c \in Chats /\ active[c] = None /\ restarts[c] < MaxCrashRestarts
    BY <1>1 DEF Live, Coherent, StartupShape, Childless, StartupHolds, Holding, Admitted,
                Bearing, Bounded, Counted
  <2>2. /\ restarts \in [Chats -> Nat] /\ MaxCrashRestarts \in Nat
        /\ restarts' \in [Chats -> Nat] /\ restarts'[c] = restarts[c] + 1
        /\ \A d \in Chats \ {c} : restarts'[d] = restarts[d]
    BY <1>4, <2>1, SessionManagerAssumption DEF Typed
  <2>3. \A d \in Chats : /\ restarts'[d] <= MaxCrashRestarts
                         /\ active'[d] # None => restarts'[d] < MaxCrashRestarts
    BY <1>1, <2>1, <2>2 DEF Bounded
  <2>4. ASSUME NEW j \in Starters, Live(j)', su'[j].phase \in Counted
        PROVE  restarts'[su'[j].chat] < MaxCrashRestarts
    <3>1. j # k
      BY <1>2, <2>4, Blanks DEF Live
    <3>2. Live(j) /\ su'[j] = su[j] /\ su[j].chat \in Chats
      BY <1>2, <2>4, <3>1 DEF Live, Coherent, StartupShape, Childless
    <3>3. su[j].chat # c
      BY <2>1, <3>1, <3>2 DEF Registered
    <3> QED
      BY <2>2, <2>4, <3>2, <3>3 DEF Bounded
  <2>5. Bounded'
    BY <2>3, <2>4 DEF Bounded
  <2> QED
    BY <1>1, <2>2, <2>5, FinishStep DEF Opening
<1> QED
  BY <1>1, <1>3, <1>4

(* A startup moves on, and perhaps kills its child. *)
LEMMA PhaseStep ==
    ASSUME SessInv, Running, NEW k \in Starters, NEW p \in Phases \ {"free"},
           su' = [su EXCEPT ![k].phase = p], su[k].phase # "free", sess' \in [Sessions -> Objects],
           \A n \in Sessions : KeptSession(n), Moves(k),
           UNCHANGED <<accepting, startups, active, gauge, teardowns, store, restarts, notifying,
                       closing, cleaned, notified>>,
           Live(k) /\ p \in Counted => su[k].phase \in Counted \/ restarts[su[k].chat] < MaxCrashRestarts
    PROVE  SessInv' /\ NoticeKept
<1> USE DEF SessInv
<1>1. /\ su' \in [Starters -> Calls] /\ \A j \in Starters \ {k} : su'[j] = su[j]
      /\ su'[k].phase = p /\ su'[k].chat = su[k].chat /\ su'[k].stale = su[k].stale
  BY PhaseShape
<1>2. Typed'
  BY <1>1 DEF Typed
<1>3. \A j \in Starters : Ends(j) \/ Begins(j) \/ Moves(j)
  BY <1>1, SameStartup
<1>4. Quiet
  BY <1>3, SamePlaces DEF Quiet, Running, stored
<1>5. Coherent'
  BY <1>2, <1>4, QuietCoherent
<1>6. Registered'
  BY <1>1, StayRegistered
<1>7. \A j \in Starters : Live(j)' => Live(j) /\ su'[j].chat = su[j].chat
  BY <1>1 DEF Live
<1>8. ASSUME NEW j \in Starters, Live(j)', su'[j].phase \in Counted
      PROVE  restarts[su'[j].chat] < MaxCrashRestarts
  BY <1>1, <1>7, <1>8 DEF Bounded
<1>9. Bounded'
  BY <1>8 DEF Bounded
<1> QED
  BY <1>2, <1>5, <1>6, <1>9, StayCounted DEF NoticeKept

(* Killing keeps a session; so does the first SIGTERM to one in the map.   *)
LEMMA KilledKept ==
    ASSUME Typed, NEW n \in Sessions, sess'[n] = Killed(sess[n])
    PROVE  KeptSession(n) /\ sess'[n].child \notin {"up", "term"}
BY SignalShape DEF Typed, KeptSession, Sinks

(* SIGTERM to a session in the map.                                        *)
LEMMA TerminatedKept ==
    ASSUME Typed, NEW n \in Sessions, sess'[n] = Terminated(sess[n]), active[sess[n].chat] = n
    PROVE  KeptSession(n) /\ sess'[n].child # "up"
BY SignalShape DEF Typed, KeptSession, Sinks

(* A startup's child is killed.                                            *)
LEMMA KillStep ==
    ASSUME SessInv, Running, NEW k \in Starters, NEW p \in {"failing", "aborting"}, KillChild(k, p),
           su[k].phase \in Opening, Live(k) \/ p = "aborting",
           UNCHANGED <<accepting, startups, active, gauge, teardowns, store, restarts, notifying,
                       closing, cleaned, notified>>
    PROVE  SessInv' /\ NoticeKept
<1> USE DEF SessInv
<1> DEFINE n == su[k].sess
<1>1. su' = [su EXCEPT ![k].phase = p] /\ sess' = [sess EXCEPT ![n] = Killed(@)]
  BY DEF KillChild
<1>2. n \in Sessions /\ sess[n].child # "none" /\ su[k].phase # "free" /\ p \in Phases \ {"free"}
  BY DEF Coherent, StartupShape, Carrying, Opening, Bearing, Phases
<1>3. sess[n] \in Objects /\ Killed(sess[n]) \in Objects
  BY <1>2, SignalShape DEF Typed
<1>4. /\ sess' \in [Sessions -> Objects] /\ sess'[n] = Killed(sess[n])
      /\ \A m \in Sessions \ {n} : sess'[m] = sess[m]
  BY <1>1, <1>2, <1>3, ObjectShape
<1>5. \A m \in Sessions : KeptSession(m)
  BY <1>2, <1>4, SameSession, KilledKept
<1>6. sess'[n].child \in {"kill", "dead"}
  BY <1>2, <1>4, KilledKept DEF Objects, KeptSession, Sinks
<1>7. /\ su'[k].phase = p /\ su'[k].chat = su[k].chat /\ su'[k].stale = su[k].stale
      /\ su'[k].state = su[k].state /\ su'[k].sess = su[k].sess
  BY <1>1, <1>2, PhaseShape
<1>8. Moves(k)
  BY <1>6, <1>7 DEF Moves
<1>9. Live(k) => su[k].phase \in Counted
  BY DEF Counted
<1>10. p \in Counted => Live(k)
  BY DEF Counted, Opening
<1> QED
  BY <1>1, <1>2, <1>4, <1>5, <1>8, <1>9, PhaseStep

(* The steps that change only a startup's phase, or kill its child.        *)
LEMMA MoveSteps ==
    ASSUME SessInv, Running, NEW k \in Starters,
           \/ CrashBackoff(k) \/ ChildSpawned(k) \/ AbortSuperseded(k) \/ SpawnFails(k)
           \/ ActivationRefused(k)
    PROVE  SessInv' /\ NoticeKept
<1>1. CASE CrashBackoff(k)
  <2>1. /\ su[k].phase = "evicting" /\ ~su[k].stale /\ restarts[su[k].chat] < MaxCrashRestarts
        /\ su' = [su EXCEPT ![k].phase = "backoff"] /\ sess' = sess
        /\ UNCHANGED <<accepting, startups, active, gauge, teardowns, store, restarts, notifying,
                       closing, cleaned, notified>>
    <3>1. su[k].phase = "evicting" /\ su[k].chat \in Chats
      BY <1>1 DEF CrashBackoff, BackoffDue, SessInv, Coherent, StartupShape, Childless
    <3>2. restarts[su[k].chat] \in Nat /\ MaxCrashRestarts \in Nat
      BY <3>1, SessionManagerAssumption DEF SessInv, Typed
    <3> QED
      BY <1>1, <3>1, <3>2 DEF CrashBackoff, Superseded, CrashLimitReached
  <2>2. "backoff" \in Phases \ {"free"} /\ sess' \in [Sessions -> Objects]
    BY <2>1 DEF Phases, SessInv, Typed
  <2>3. Moves(k)
    BY <2>1, <2>2, PhaseShape DEF Moves, SessInv
  <2> QED
    BY <2>1, <2>2, <2>3, SameSession, PhaseStep
<1>2. CASE ChildSpawned(k)
  <2>1. /\ su[k].phase = "spawning"
        /\ su' = [su EXCEPT ![k].phase = "identifying"] /\ sess' = sess
        /\ UNCHANGED <<accepting, startups, active, gauge, teardowns, store, restarts, notifying,
                       closing, cleaned, notified>>
    BY <1>2 DEF ChildSpawned
  <2>2. "identifying" \in Phases \ {"free"} /\ sess' \in [Sessions -> Objects]
    BY <2>1 DEF Phases, SessInv, Typed
  <2>3. Moves(k)
    BY <2>1, <2>2, PhaseShape DEF Moves, SessInv
  <2> QED
    BY <2>1, <2>2, <2>3, SameSession, PhaseStep DEF Counted, Opening
<1>3. CASE AbortSuperseded(k)
  BY <1>3, KillStep DEF AbortSuperseded, Opening
<1>4. CASE SpawnFails(k)
  BY <1>4, KillStep DEF SpawnFails, Opening, Live, Superseded
<1>5. CASE ActivationRefused(k)
  BY <1>5, KillStep DEF ActivationRefused, Opening
<1> QED
  BY <1>1, <1>2, <1>3, <1>4, <1>5

(* getOrCreateSession begins a startup. *)
LEMMA GetOrCreateStep ==
    ASSUME SessInv, Running, NEW c \in Chats, GetOrCreate(c)
    PROVE  SessInv' /\ NoticeKept
<1> USE DEF SessInv
<1>1. PICK k \in Starters :
         /\ su[k].phase = "free" /\ accepting
         /\ startups[c] # None => su[startups[c]].stale
         /\ su' = [su EXCEPT ![k].phase = "barrier", ![k].chat = c]
         /\ startups' = [startups EXCEPT ![c] = k]
         /\ UNCHANGED <<accepting, active, gauge, sess, teardowns, store, restarts, notifying,
                        closing, cleaned, notified>>
  BY DEF GetOrCreate, AcceptsWork, Superseded
<1>2. /\ su' \in [Starters -> Calls] /\ \A j \in Starters \ {k} : su'[j] = su[j]
      /\ su'[k].phase = "barrier" /\ su'[k].chat = c /\ su'[k].stale = su[k].stale
      /\ su'[k].state = su[k].state /\ su'[k].sess = su[k].sess
  BY <1>1, BeginShape
<1>3. /\ startups' \in [Chats -> Starters \union {None}] /\ startups'[c] = k
      /\ \A d \in Chats \ {c} : startups'[d] = startups[d]
  BY <1>1 DEF Typed
<1>4. Typed'
  BY <1>1, <1>2, <1>3 DEF Typed
<1>5. su[k] = NoStartup
  BY <1>1 DEF Coherent, StartupShape, Childless
<1>6. Begins(k)
  BY <1>2, <1>5, Blanks DEF Begins
<1>7. Quiet
  BY <1>1, <1>2, <1>6, SameStartup, SamePlaces, SameSession DEF Quiet, Running, stored
<1>8. Coherent'
  BY <1>4, <1>7, QuietCoherent
<1>9. Registered'
  <2>1. \A d \in Chats : startups'[d] # None => su'[startups'[d]].phase # "free" /\ su'[startups'[d]].chat = d
    <3>1. \A d \in Chats : startups[d] # None => startups[d] \in Starters \ {k}
      BY <1>1 DEF Registered, Typed
    <3> QED
      BY <1>2, <1>3, <3>1 DEF Registered
  <2>2. ASSUME NEW j \in Starters, Live(j)'
        PROVE  startups'[su'[j].chat] = j /\ accepting'
    <3>1. CASE j = k
      BY <1>1, <1>2, <1>3, <3>1
    <3>2. CASE j # k
      <4>1. Live(j) /\ su'[j] = su[j] /\ su[j].chat \in Chats
        BY <1>2, <2>2, <3>2 DEF Live, Coherent, StartupShape, Childless
      <4>2. startups[su[j].chat] = j /\ j # None
        BY <4>1, NoneIsNone DEF Registered
      <4>3. su[j].chat # c
        BY <1>1, <4>1, <4>2 DEF Live
      <4> QED
        BY <1>1, <1>3, <4>1, <4>2, <4>3
    <3> QED
      BY <3>1, <3>2
  <2> QED
    BY <1>1, <2>1, <2>2 DEF Registered
<1>10. \A j \in Starters : Live(j)' /\ su'[j].phase \in Counted =>
         Live(j) /\ su[j].phase \in Counted /\ su'[j].chat = su[j].chat
  BY <1>2 DEF Live, Counted, Opening
<1>11. Bounded'
  BY <1>1, <1>10, StayBounded DEF Coherent
<1> QED
  BY <1>1, <1>4, <1>8, <1>9, <1>11, StayCounted DEF NoticeKept

-----------------------------------------------------------------------------
(* The steps of a session. *)

(* Steps of one session that stays where it is.                            *)
LEMMA SessionOnly ==
    ASSUME SessInv, Running, sess' \in [Sessions -> Objects], \A n \in Sessions : KeptSession(n),
           UNCHANGED <<accepting, startups, su, active, gauge, teardowns, store, closing, cleaned,
                       notified>>,
           notifying' \in [Chats -> Transcripts \union {None}], restarts' \in [Chats -> Nat],
           \A c \in Chats : restarts'[c] = restarts[c] \/ restarts'[c] = 0
    PROVE  SessInv' /\ NoticeKept
<1> USE DEF SessInv
<1>1. Typed'
  BY DEF Typed
<1>2. Quiet
  BY SameStartup, SamePlaces DEF Quiet, Running, stored
<1>3. Coherent'
  BY <1>1, <1>2, QuietCoherent
<1>4. Registered'
  BY StayRegistered
<1>5. Bounded'
  BY StayBounded DEF Coherent, Live
<1> QED
  BY <1>1, <1>3, <1>4, <1>5, StayCounted DEF NoticeKept

(* A task that may still write belongs to a session in the map, whose      *)
(* state the store has already.                                            *)
LEMMA RunningStored ==
    ASSUME SessInv, NEW n \in Sessions, sess[n].child = "up", sess[n].task # "none",
           SetSession(sess[n].chat, StateOf(n))
    PROVE  store' = store
<1> DEFINE c == sess[n].chat
<1>1. c \in Chats /\ active[c] = n
  BY DEF SessInv, Coherent, ChildShape, Watched
<1>2. store[c] = StateOf(n)
  BY <1>1, NoneIsNone DEF SessInv, Coherent, ActiveShape, Mapped
<1>3. store \in [Chats -> Bindings] /\ store' = [store EXCEPT ![c] = StateOf(n)]
  BY DEF SetSession, SessInv, Typed
<1> QED
  BY <1>1, <1>2, <1>3

(* Turns and signals.                                                      *)
LEMMA TaskSteps ==
    ASSUME SessInv, Running, NEW n \in Sessions,
           QueueTask(n) \/ RunTask(n) \/ EndTask(n) \/ ProbeFails(n) \/ Escalate(n)
    PROVE  SessInv' /\ NoticeKept
<1> DEFINE c == sess[n].chat
<1>0. /\ Typed /\ sess[n] \in Objects /\ restarts \in [Chats -> Nat]
      /\ notifying \in [Chats -> Transcripts \union {None}]
  BY DEF SessInv, Typed
<1>1. CASE QueueTask(n)
  <2>1. PICK d \in Chats : active[d] = n
    BY <1>1 DEF QueueTask, ActiveSet
  <2>2. c = d
    BY <2>1, NoneIsNone DEF SessInv, Coherent, ActiveShape, Mapped
  <2>3. /\ sess' \in [Sessions -> Objects] /\ \A m \in Sessions \ {n} : sess'[m] = sess[m]
        /\ sess'[n].chat = sess[n].chat /\ sess'[n].id = sess[n].id
        /\ sess'[n].notice = sess[n].notice /\ sess'[n].child = sess[n].child
    BY <1>0, <1>1, TaskShape DEF QueueTask
  <2>4. \A m \in Sessions : KeptSession(m)
    BY <1>1, <2>1, <2>2, <2>3, SameSession DEF KeptSession, Sinks, QueueTask
  <2> QED
    BY <1>0, <1>1, <2>3, <2>4, SessionOnly DEF QueueTask
<1>2. CASE RunTask(n)
  <2>1. PICK t \in {"none", "running"} : sess' = [sess EXCEPT ![n].task = t]
    BY <1>2 DEF RunTask
  <2>2. /\ sess' \in [Sessions -> Objects] /\ \A m \in Sessions \ {n} : sess'[m] = sess[m]
        /\ sess'[n].chat = sess[n].chat /\ sess'[n].id = sess[n].id
        /\ sess'[n].notice = sess[n].notice /\ sess'[n].child = sess[n].child
    BY <1>0, <2>1, TaskShape
  <2>3. \A m \in Sessions : KeptSession(m)
    BY <1>2, <2>2, SameSession DEF KeptSession, Sinks, RunTask
  <2>4. store' = store
    <3>1. CASE Writable(n)
      BY <1>2, <3>1, RunningStored DEF RunTask, Writable
    <3>2. CASE ~Writable(n)
      BY <1>2, <3>2 DEF RunTask
    <3> QED
      BY <3>1, <3>2
  <2> QED
    BY <1>0, <1>2, <2>2, <2>3, <2>4, SessionOnly DEF RunTask
<1>3. CASE EndTask(n)
  <2>1. sess' = [sess EXCEPT ![n].task = "none"]
    BY <1>3 DEF EndTask
  <2>2. /\ sess' \in [Sessions -> Objects] /\ \A m \in Sessions \ {n} : sess'[m] = sess[m]
        /\ sess'[n].chat = sess[n].chat /\ sess'[n].id = sess[n].id
        /\ sess'[n].notice = sess[n].notice /\ sess'[n].child = sess[n].child
        /\ sess'[n].task = "none"
    BY <1>0, <2>1, TaskShape
  <2>3. \A m \in Sessions : KeptSession(m)
    BY <2>2, SameSession DEF KeptSession, Sinks
  <2>4. \/ restarts' = [restarts EXCEPT ![c] = 0]
        \/ restarts' = restarts
    BY <1>3 DEF EndTask
  <2>5. restarts' \in [Chats -> Nat] /\ \A d \in Chats : restarts'[d] = restarts[d] \/ restarts'[d] = 0
    BY <1>0, <2>4
  <2> QED
    BY <1>0, <1>3, <2>2, <2>3, <2>5, SessionOnly DEF EndTask
<1>4. CASE ProbeFails(n)
  <2>1. sess[n].task = "running" /\ sess[n].child = "up" /\ sess' = [sess EXCEPT ![n] = Terminated(sess[n])]
    BY <1>4 DEF ProbeFails
  <2>2. active[c] = n
    BY <2>1 DEF SessInv, Coherent, ChildShape, Watched
  <2>3. /\ sess' \in [Sessions -> Objects] /\ sess'[n] = Terminated(sess[n])
        /\ \A m \in Sessions \ {n} : sess'[m] = sess[m]
    BY <1>0, <2>1, SignalShape, ObjectShape
  <2>4. \A m \in Sessions : KeptSession(m)
    BY <1>0, <2>2, <2>3, SameSession, TerminatedKept
  <2> QED
    BY <1>0, <1>4, <2>3, <2>4, SessionOnly DEF ProbeFails
<1>5. CASE Escalate(n)
  <2>1. sess' = [sess EXCEPT ![n] = Killed(sess[n])]
    BY <1>5 DEF Escalate
  <2>2. /\ sess' \in [Sessions -> Objects] /\ sess'[n] = Killed(sess[n])
        /\ \A m \in Sessions \ {n} : sess'[m] = sess[m]
    BY <1>0, <2>1, SignalShape, ObjectShape
  <2>3. \A m \in Sessions : KeptSession(m)
    BY <1>0, <2>2, SameSession, KilledKept
  <2> QED
    BY <1>0, <1>5, <2>2, <2>3, SessionOnly DEF Escalate
<1> QED
  BY <1>1, <1>2, <1>3, <1>4, <1>5

(* setupCrashRecovery: a chat loses its session when that session's own    *)
(* child exits, and a crash counts.                                        *)
LEMMA ChildExitsStep ==
    ASSUME SessInv, Running, NEW n \in Sessions, ChildExits(n)
    PROVE  SessInv' /\ NoticeKept
<1> USE DEF SessInv
<1> DEFINE c == sess[n].chat
           hit == active[c] = n
<1>1. /\ sess[n].child \in {"up", "term", "kill"}
      /\ sess' = [sess EXCEPT ![n].child = "dead", ![n].task = IF @ = "running" THEN "none" ELSE @]
      /\ UNCHANGED <<accepting, startups, su, teardowns, store, notifying, closing, cleaned, notified>>
  BY DEF ChildExits
<1>2. /\ active' = IF hit THEN [active EXCEPT ![c] = None] ELSE active
      /\ gauge' = IF hit THEN gauge - 1 ELSE gauge
      /\ restarts' = restarts \/ (hit /\ restarts' = [restarts EXCEPT ![c] = @ + 1])
  BY DEF ChildExits, ExitConcernsActive
<1>3. /\ sess' \in [Sessions -> Objects] /\ \A m \in Sessions \ {n} : sess'[m] = sess[m]
      /\ sess'[n].chat = sess[n].chat /\ sess'[n].id = sess[n].id
      /\ sess'[n].notice = sess[n].notice /\ sess'[n].child = "dead"
      /\ sess'[n].task # "none" => sess[n].task # "none"
  BY <1>1, ExitShape
<1>4. \A m \in Sessions : KeptSession(m)
  BY <1>1, <1>3, SameSession DEF KeptSession, Sinks
<1>5. active \in [Chats -> Sessions \union {None}] /\ restarts \in [Chats -> Nat] /\ gauge \in Int
  BY DEF Typed
<1>6. c \in Chats /\ \A d \in Chats : active'[d] = IF hit /\ d = c THEN None ELSE active[d]
  BY <1>1, <1>2, <1>5 DEF Coherent, ChildShape, Watched
<1>7. active' \in [Chats -> Sessions \union {None}] /\ gauge' \in Int /\ restarts' \in [Chats -> Nat]
  BY <1>2, <1>5, <1>6
<1>8. Typed'
  BY <1>1, <1>3, <1>7 DEF Typed
<1>9. Quiet
  <2>1. \A d \in Chats : KeptPlace(d)
    BY <1>3, <1>6, NoneIsNone DEF KeptPlace
  <2>2. \A d \in Chats : KeptBarrier(d) /\ KeptEntry(d)
    BY <1>1 DEF KeptBarrier, KeptEntry
  <2> QED
    BY <1>1, <1>4, <2>1, <2>2, SameStartup DEF Quiet, Running, stored
<1>10. Coherent'
  BY <1>8, <1>9, QuietCoherent
<1>11. Registered'
  BY <1>1, StayRegistered
<1>12. Gauged' /\ ClosedForGood'
  <2>1. CASE ~hit
    BY <1>1, <1>2, <2>1, StayCounted
  <2>2. CASE hit
    <3>1. Cardinality({c}) = 1
      BY FS_Singleton
    <3>2. {c} \in SUBSET Chats /\ \A d \in {c} : active[d] # None
      BY <1>6, <2>2, NoneIsNone
    <3>3. \A d \in Chats : active'[d] = IF d \in {c} THEN None ELSE active[d]
      BY <1>6, <2>2
    <3> QED
      BY <1>1, <1>2, <2>2, <3>1, <3>2, <3>3, ClearCount
  <2> QED
    BY <2>1, <2>2
<1>13. Bounded'
  <2>1. \A j \in Starters : Live(j)' => Live(j) /\ su'[j] = su[j] /\ su[j].chat \in Chats
    BY <1>1 DEF Live, Coherent, StartupShape, Childless
  <2>2. CASE restarts' = restarts
    BY <1>6, <2>1, <2>2, StayBounded DEF Coherent
  <2>3. CASE hit /\ restarts' = [restarts EXCEPT ![c] = @ + 1]
    <3>1. restarts'[c] = restarts[c] + 1 /\ \A d \in Chats \ {c} : restarts'[d] = restarts[d]
      BY <1>5, <1>6, <2>3
    <3>2. active[c] # None /\ active'[c] = None /\ \A d \in Chats \ {c} : active'[d] = active[d]
      BY <1>6, <2>3, NoneIsNone
    <3>3. MaxCrashRestarts \in Nat /\ restarts[c] < MaxCrashRestarts
      BY <1>6, <3>2, SessionManagerAssumption DEF Bounded
    <3>4. \A d \in Chats : /\ restarts'[d] <= MaxCrashRestarts
                           /\ active'[d] # None => restarts'[d] < MaxCrashRestarts
      BY <1>5, <1>6, <3>1, <3>2, <3>3 DEF Bounded
    <3>5. ASSUME NEW j \in Starters, Live(j)', su'[j].phase \in Counted
          PROVE  restarts'[su'[j].chat] < MaxCrashRestarts
      <4>1. Live(j) /\ su'[j] = su[j] /\ su[j].chat \in Chats
        BY <2>1, <3>5
      <4>2. su[j].chat # c
        BY <3>2, <3>5, <4>1 DEF Coherent, StartupHolds, Holding, Admitted, Bearing, Counted, Opening
      <4> QED
        BY <3>1, <3>5, <4>1, <4>2 DEF Bounded
    <3> QED
      BY <3>4, <3>5 DEF Bounded
  <2> QED
    BY <1>2, <2>2, <2>3
<1> QED
  BY <1>1, <1>8, <1>10, <1>11, <1>12, <1>13 DEF NoticeKept

-----------------------------------------------------------------------------
(* closeSession. *)

(* On a map from which sessions may have been dropped with a SIGKILL.      *)
ClosesMap(C, owner, w) ==
    /\ store' = w.store
    /\ active' \in [Chats -> Sessions \union {None}]
    /\ \A c \in Chats : active'[c] = IF c \in C THEN None ELSE w.active[c]
    /\ gauge' = w.gauge - Cardinality({c \in C : w.active[c] # None})
    /\ sess' \in [Sessions -> Objects] /\ \A n \in Sessions : KeptSession(n)
    /\ \A c \in Chats : KeptPlace(c) /\ KeptBarrier(c)
    /\ teardowns' \in [Chats -> Seq(Closings)]
    /\ \A c \in Chats :
          IF c \in C /\ w.active[c] # None THEN Head(teardowns'[c]).owner = owner
          ELSE teardowns'[c] = <<>> <=> teardowns[c] = <<>>
    /\ restarts' \in [Chats -> Nat]
    /\ \A c \in Chats : restarts'[c] = restarts[c] \/ restarts'[c] = 0

(* closeSession, perhaps after a dead session left the map.                *)
LEMMA ClosePlaces ==
    ASSUME Typed, Coherent, NEW C \in SUBSET Chats, NEW owner \in Starters \union {"user", "closeAll"},
           NEW persist \in BOOLEAN, NEW w, Close(C, owner, persist, w),
           w.store \in [Chats -> Bindings], w.active \in [Chats -> Sessions \union {None}],
           w.sess \in [Sessions -> Objects], w.gauge \in Int,
           \A c \in Chats : w.active[c] # active[c] =>
              w.active[c] = None /\ w.sess[active[c]] = Killed(sess[active[c]]),
           \A n \in Sessions : w.sess[n] \in {sess[n], Killed(sess[n])},
           persist => w.store = store
    PROVE  ClosesMap(C, owner, w)
<1>1. ASSUME NEW c \in Chats, w.active[c] # None
      PROVE  /\ w.active[c] = active[c] /\ w.active[c] \in Sessions
             /\ sess[w.active[c]].chat = c /\ teardowns[c] = <<>> /\ store[c] = StateOf(w.active[c])
  <2>1. w.active[c] = active[c]
    BY <1>1
  <2> QED
    BY <1>1, <2>1 DEF Coherent, ActiveShape, Mapped
<1>2. \A c \in C : w.active[c] # None => teardowns[c] = <<>>
  BY <1>1
<1>3. persist => \A c \in C : w.active[c] # None => w.store[c] = StateOf(w.active[c])
  BY <1>1
<1>0. Closes(C, owner, w)
  BY <1>2, <1>3, CloseShape
<1>4. /\ store' = w.store
      /\ active' \in [Chats -> Sessions \union {None}]
      /\ \A c \in Chats : active'[c] = IF c \in C THEN None ELSE w.active[c]
      /\ sess' \in [Sessions -> Objects]
      /\ \A n \in Sessions : sess'[n] = IF \E c \in C : w.active[c] = n
                                        THEN Terminated(w.sess[n]) ELSE w.sess[n]
      /\ teardowns' \in [Chats -> Seq(Closings)]
      /\ restarts' \in [Chats -> Nat]
      /\ \A c \in Chats : restarts'[c] = restarts[c] \/ restarts'[c] = 0
  BY <1>0 DEF Closes
<1>9. gauge' = w.gauge - Cardinality({c \in C : w.active[c] # None})
  BY <1>0 DEF Closes
<1>5. ASSUME NEW c \in Chats
      PROVE  \/ /\ c \in C /\ w.active[c] # None /\ teardowns'[c] # <<>>
                /\ Head(teardowns'[c]).sess = w.active[c] /\ Head(teardowns'[c]).owner = owner
             \/ /\ c \notin C \/ w.active[c] = None
                /\ teardowns'[c] = <<>> <=> teardowns[c] = <<>>
                /\ teardowns[c] # <<>> => Head(teardowns'[c]) = Head(teardowns[c])
  BY <1>0 DEF Closes
<1>6. ASSUME NEW n \in Sessions
      PROVE  /\ KeptSession(n)
             /\ \A c \in C : w.active[c] = n => sess'[n].child # "up"
             /\ w.sess[n] = Killed(sess[n]) => sess'[n].child \notin {"up", "term"}
  <2>1. sess[n] \in Objects /\ w.sess[n] \in Objects /\ w.sess[n] \in {sess[n], Killed(sess[n])}
    BY DEF Typed
  <2>2. /\ w.sess[n].chat = sess[n].chat /\ w.sess[n].id = sess[n].id
        /\ w.sess[n].notice = sess[n].notice /\ w.sess[n].task = sess[n].task
        /\ w.sess[n].child = sess[n].child
           \/ (sess[n].child \in {"up", "term"} /\ w.sess[n].child = "kill")
        /\ w.sess[n] = Killed(sess[n]) => w.sess[n].child \notin {"up", "term"}
    BY <2>1, SignalShape
  <2>3. CASE \E c \in C : w.active[c] = n
    <3>0. PICK c \in C : w.active[c] = n
      BY <2>3
    <3>3. active[sess[n].chat] = n
      BY <1>1, <3>0, NoneIsNone
    <3>4. sess'[n] = IF \E k \in C : w.active[k] = n THEN Terminated(w.sess[n]) ELSE w.sess[n]
      BY <1>4
    <3>1. sess'[n] = Terminated(w.sess[n]) /\ active[sess[n].chat] = n
      BY <2>3, <3>3, <3>4
    <3>2. /\ sess'[n].chat = sess[n].chat /\ sess'[n].id = sess[n].id
          /\ sess'[n].notice = sess[n].notice /\ sess'[n].task = sess[n].task
          /\ sess'[n].child = IF w.sess[n].child = "up" THEN "term" ELSE w.sess[n].child
      BY <2>1, <2>2, <3>1, SignalShape
    <3> QED
      BY <2>2, <3>1, <3>2 DEF KeptSession, Sinks
  <2>4. CASE ~\E c \in C : w.active[c] = n
    <3>1. sess'[n] = w.sess[n]
      BY <1>4, <2>4
    <3> QED
      BY <2>1, <2>2, <2>4, <3>1 DEF KeptSession, Sinks
  <2> QED
    BY <2>3, <2>4
<1>7. ASSUME NEW c \in Chats
      PROVE  KeptPlace(c)
  <2>1. CASE w.active[c] # active[c]
    <3>1. active[c] \in Sessions /\ active'[c] = None /\ w.sess[active[c]] = Killed(sess[active[c]])
      BY <1>4, <2>1 DEF Typed
    <3>2. sess'[active[c]].child \notin {"up", "term"}
      BY <1>6, <3>1
    <3> QED
      BY <3>1, <3>2, NoneIsNone DEF KeptPlace
  <2>2. CASE w.active[c] = active[c] /\ c \in C /\ active[c] # None
    <3>1. active[c] \in Sessions /\ active'[c] = None /\ sess'[active[c]].child # "up"
      BY <1>1, <1>4, <1>6, <2>2
    <3>2. teardowns'[c] # <<>> /\ Head(teardowns'[c]).sess = active[c]
      BY <1>5, <2>2
    <3> QED
      BY <2>2, <3>1, <3>2 DEF KeptPlace
  <2>3. CASE w.active[c] = active[c] /\ (c \notin C \/ active[c] = None)
    <3>1. active'[c] = active[c]
      BY <1>4, <2>3
    <3> QED
      BY <3>1 DEF KeptPlace
  <2> QED
    BY <2>1, <2>2, <2>3
<1>8. ASSUME NEW c \in Chats
      PROVE  KeptBarrier(c)
  <2>1. CASE c \in C /\ w.active[c] # None
    <3>1. /\ active[c] = w.active[c] /\ active[c] \in Sessions /\ teardowns[c] = <<>>
          /\ active'[c] = None /\ sess'[active[c]].child # "up"
      BY <1>1, <1>4, <1>6, <2>1
    <3>2. teardowns'[c] # <<>> /\ Head(teardowns'[c]).sess = w.active[c]
      BY <1>5, <2>1
    <3> QED
      BY <2>1, <3>1, <3>2 DEF KeptBarrier
  <2>2. CASE ~(c \in C /\ w.active[c] # None)
    <3>1. /\ teardowns'[c] = <<>> <=> teardowns[c] = <<>>
          /\ teardowns[c] # <<>> => Head(teardowns'[c]) = Head(teardowns[c])
      BY <1>5, <2>2
    <3> QED
      BY <3>1 DEF KeptBarrier
  <2> QED
    BY <2>1, <2>2
<1> QED
  BY <1>4, <1>5, <1>6, <1>7, <1>8, <1>9 DEF ClosesMap

(* On the map as it is, by a caller that may move its startup on, drop an  *)
(* entry or supersede startups.                                            *)
LEMMA CloseStep ==
    ASSUME SessInv, Running, NEW C \in SUBSET Chats, NEW owner, NEW w, ClosesMap(C, owner, w),
           w.gauge = Cardinality({c \in Chats : w.active[c] # None}), w.store \in [Chats -> Bindings],
           \A c \in Chats : w.active[c] \in {active[c], None},
           UNCHANGED <<accepting, startups, notifying, notified>>,
           closing' \in {closing, "tearing"}, closing' = "tearing" => closing # "no" /\ Opened \subseteq C,
           su' \in [Starters -> Calls], cleaned' \subseteq Transcripts,
           \A k \in Starters : Moves(k) /\ (su'[k].phase = "free" <=> su[k].phase = "free"),
           \A k \in Starters : su'[k].phase \in Counted => su[k].phase \in Counted,
           \A c \in Chats : KeptEntry(c),
           \A t \in cleaned' : t \in cleaned \/ t \in StoreIds \ StoreIds'
    PROVE  SessInv' /\ NoticeKept
<1> USE DEF SessInv
<1>1. /\ store' = w.store
      /\ active' \in [Chats -> Sessions \union {None}]
      /\ \A c \in Chats : active'[c] = IF c \in C THEN None ELSE w.active[c]
      /\ gauge' = w.gauge - Cardinality({c \in C : w.active[c] # None})
      /\ sess' \in [Sessions -> Objects] /\ \A n \in Sessions : KeptSession(n)
      /\ \A c \in Chats : KeptPlace(c) /\ KeptBarrier(c)
      /\ teardowns' \in [Chats -> Seq(Closings)]
      /\ restarts' \in [Chats -> Nat]
      /\ \A c \in Chats : restarts'[c] = restarts[c] \/ restarts'[c] = 0
  BY DEF ClosesMap
<1> DEFINE W == {c \in Chats : w.active[c] # None}
           D == {c \in C : w.active[c] # None}
<1>2. /\ IsFiniteSet(W) /\ Cardinality(W) \in Nat
      /\ IsFiniteSet(D) /\ Cardinality(D) \in Nat
  <2>1. W \in SUBSET Chats /\ D \in SUBSET Chats
    OBVIOUS
  <2> QED
    BY <2>1, OpenedFinite, FS_Subset, FS_CardinalityType
<1>3. Typed'
  <2>1. gauge' \in Int
    BY <1>1, <1>2 DEF Typed
  <2>2. closing' \in {"no", "waiting", "tearing", "done"}
    BY DEF Typed
  <2> QED
    BY <1>1, <2>1, <2>2 DEF Typed
<1>4. Quiet
  BY <1>1 DEF Quiet, Running, stored
<1>5. Coherent'
  BY <1>3, <1>4, QuietCoherent
<1>6. Registered'
  <2>1. \A k \in Starters : Live(k)' => Live(k) /\ su'[k].chat = su[k].chat
    BY DEF Live, Moves
  <2>2. \A k \in Starters : su'[k].chat = su[k].chat
    BY DEF Moves
  <2>3. \A c \in Chats : startups'[c] # None => su'[startups'[c]].phase # "free" /\ su'[startups'[c]].chat = c
    <3>1. \A c \in Chats : startups[c] # None => startups[c] \in Starters
      BY DEF Typed
    <3> QED
      BY <2>2, <3>1 DEF Registered
  <2>4. \A k \in Starters : Live(k)' => startups'[su'[k].chat] = k /\ accepting'
    BY <2>1 DEF Registered
  <2>5. accepting' <=> closing' = "no"
    BY DEF Registered
  <2> QED
    BY <2>3, <2>4, <2>5 DEF Registered
<1>7. Bounded'
  <2>1. \A k \in Starters : Live(k)' /\ su'[k].phase \in Counted =>
           Live(k) /\ su[k].phase \in Counted /\ su'[k].chat = su[k].chat
    BY DEF Live, Moves
  <2>2. \A c \in Chats : active'[c] \in {active[c], None}
    BY <1>1
  <2> QED
    BY <1>1, <2>1, <2>2, StayBounded DEF Coherent
<1>8. Gauged'
  <2>1. Opened' = W \ D /\ W \cap D = D
    BY <1>1 DEF Opened
  <2> HIDE DEF W, D
  <2>2. Cardinality(W \ D) = Cardinality(W) - Cardinality(W \cap D)
    BY <1>2, FS_Difference, Zenon
  <2>3. Cardinality(Opened') = Cardinality(W) - Cardinality(D)
    BY <2>1, <2>2
  <2> QED
    BY <1>1, <2>3 DEF Gauged, W, D
<1>9. ClosedForGood'
  <2>1. CASE closing' = closing
    <3>1. ActiveSet' \subseteq ActiveSet
      BY <1>1 DEF ActiveSet
    <3> QED
      BY <2>1, <3>1 DEF ClosedForGood
  <2>2. CASE closing' = "tearing"
    <3>1. \A c \in Chats : active'[c] = None
      BY <1>1, <2>2 DEF Opened
    <3>2. ActiveSet' = {}
      BY <3>1 DEF ActiveSet
    <3> QED
      BY <3>2 DEF ClosedForGood
  <2> QED
    BY <2>1, <2>2
<1>10. NoticeKept
  BY Blanks DEF NoticeKept, KeptEntry
<1> QED
  BY <1>3, <1>5, <1>6, <1>7, <1>8, <1>9, <1>10

(* The map a handler starts from.                                          *)
LEMMA MapsShape ==
    /\ Maps.store = store /\ Maps.active = active /\ Maps.gauge = gauge /\ Maps.sess = sess
BY DEF Maps

(* closeSession on the map as it is.                                       *)
LEMMA CloseMaps ==
    ASSUME SessInv, NEW C \in SUBSET Chats, NEW owner \in Starters \union {"user", "closeAll"},
           Close(C, owner, TRUE, Maps)
    PROVE  /\ ClosesMap(C, owner, Maps) /\ store' = store
           /\ Maps.store \in [Chats -> Bindings]
           /\ Maps.gauge = Cardinality({c \in Chats : Maps.active[c] # None})
           /\ \A c \in Chats : Maps.active[c] \in {active[c], None}
<1>1. ClosesMap(C, owner, Maps)
  BY MapsShape, ClosePlaces DEF SessInv, Typed
<1> QED
  BY <1>1, MapsShape DEF ClosesMap, SessInv, Typed, Gauged, Opened

(* The idle timer, /reconnect and closeAll close sessions as they are.     *)
LEMMA CloseSteps ==
    ASSUME SessInv, Running,
           (\E c \in Chats : IdleTimeout(c) \/ Reconnect(c)) \/ CloseActiveSessions
    PROVE  SessInv' /\ NoticeKept
<1>1. ASSUME NEW C \in SUBSET Chats, NEW owner \in {"user", "closeAll"}, Close(C, owner, TRUE, Maps),
             closing' \in {closing, "tearing"},
             closing' = "tearing" => closing # "no" /\ Opened \subseteq C,
             UNCHANGED <<accepting, startups, su, notifying, cleaned, notified>>
      PROVE  SessInv' /\ NoticeKept
  <2>1. ClosesMap(C, owner, Maps)
    BY <1>1, CloseMaps
  <2>3. \A c \in Chats : KeptEntry(c)
    BY <1>1, CloseMaps DEF KeptEntry
  <2>4. \A k \in Starters : Moves(k)
    BY <1>1, SameStartup
  <2>5. su' \in [Starters -> Calls] /\ cleaned' \subseteq Transcripts
    BY <1>1 DEF SessInv, Typed
  <2>6. /\ Maps.store \in [Chats -> Bindings]
        /\ Maps.gauge = Cardinality({c \in Chats : Maps.active[c] # None})
        /\ \A c \in Chats : Maps.active[c] \in {active[c], None}
    BY <1>1, CloseMaps
  <2> QED
    BY <1>1, <2>1, <2>3, <2>4, <2>5, <2>6, CloseStep
<1>2. ASSUME NEW c \in Chats, IdleTimeout(c) \/ Reconnect(c)
      PROVE  SessInv' /\ NoticeKept
  <2>1. {c} \in SUBSET Chats
    OBVIOUS
  <2>2. closing' # "tearing" \/ closing = "tearing"
    BY <1>2 DEF IdleTimeout, Reconnect
  <2>3. closing = "tearing" => Opened = {}
    BY DEF SessInv, ClosedForGood, ActiveSet, Opened
  <2> QED
    BY <1>1, <1>2, <2>1, <2>2, <2>3 DEF IdleTimeout, Reconnect
<1>3. ASSUME CloseActiveSessions
      PROVE  SessInv' /\ NoticeKept
  BY <1>1, <1>3 DEF CloseActiveSessions, Opened
<1> QED
  BY <1>2, <1>3

(* A startup finds a session for another agent or model and closes it.     *)
LEMMA ReplaceStep ==
    ASSUME SessInv, Running, NEW k \in Starters, ReplaceSession(k)
    PROVE  SessInv' /\ NoticeKept
<1> USE DEF SessInv
<1> DEFINE c == su[k].chat
<1>1. /\ su[k].phase = "barrier" /\ Alive(active[c]) /\ Close({c}, k, TRUE, Maps)
      /\ su' = [su EXCEPT ![k].phase = "replacing"]
      /\ UNCHANGED <<accepting, startups, notifying, closing, cleaned, notified>>
  BY DEF ReplaceSession
<1>2. c \in Chats /\ {c} \in SUBSET Chats /\ active[c] # None /\ "replacing" \in Phases
  BY <1>1 DEF Coherent, StartupShape, Childless, Alive, Phases
<1>3. /\ ClosesMap({c}, k, Maps) /\ store' = store
      /\ Maps.store \in [Chats -> Bindings]
      /\ Maps.gauge = Cardinality({d \in Chats : Maps.active[d] # None})
      /\ \A d \in Chats : Maps.active[d] \in {active[d], None}
  BY <1>1, <1>2, CloseMaps
<1>4. active'[c] = None /\ Head(teardowns'[c]).owner = k
  BY <1>2, <1>3, MapsShape DEF ClosesMap
<1>5. /\ su' \in [Starters -> Calls] /\ \A j \in Starters \ {k} : su'[j] = su[j]
      /\ su'[k].phase = "replacing" /\ su'[k].chat = su[k].chat /\ su'[k].stale = su[k].stale
      /\ su'[k].state = su[k].state /\ su'[k].sess = su[k].sess
  BY <1>1, <1>2, PhaseShape
<1>6. Moves(k)
  BY <1>1, <1>4, <1>5 DEF Moves
<1>7. \A j \in Starters : Moves(j) /\ (su'[j].phase = "free" <=> su[j].phase = "free")
  BY <1>1, <1>5, <1>6, SameStartup
<1>8. \A j \in Starters : su'[j].phase \in Counted => su[j].phase \in Counted
  BY <1>5 DEF Counted, Opening
<1>9. \A d \in Chats : KeptEntry(d)
  BY <1>3 DEF KeptEntry
<1>10. cleaned' \subseteq Transcripts /\ \A t \in cleaned' : t \in cleaned
  BY <1>1 DEF Typed
<1>11. closing' \in {closing, "tearing"} /\ (closing' = "tearing" => closing # "no" /\ Opened \subseteq {c})
  BY <1>1 DEF ClosedForGood, ActiveSet, Opened
<1> QED
  BY <1>1, <1>2, <1>3, <1>5, <1>7, <1>8, <1>9, <1>10, <1>11, CloseStep

(* /clean drops the chat's entry and session and supersedes its startups.  *)
LEMMA CleanStep ==
    ASSUME SessInv, Running, NEW c \in Chats, Clean(c)
    PROVE  SessInv' /\ NoticeKept
<1> USE DEF SessInv
<1> DEFINE w == [Maps EXCEPT !.store[c] = NoEntry]
<1>1. /\ su' = Superseding({c}) /\ Close({c}, "user", FALSE, w)
      /\ cleaned' = (cleaned \cup {store[c].id}) \ {None}
      /\ UNCHANGED <<accepting, startups, notifying, closing, notified>>
  BY DEF Clean
<1>2. /\ w.store = [store EXCEPT ![c] = NoEntry] /\ w.active = active /\ w.gauge = gauge /\ w.sess = sess
  BY DEF Maps
<1> HIDE DEF w
<1>3. {c} \in SUBSET Chats /\ w.store \in [Chats -> Bindings]
  BY <1>2, Blanks DEF Typed
<1>4. ClosesMap({c}, "user", w)
  BY <1>1, <1>2, <1>3, ClosePlaces DEF Typed
<1>5. store'[c] = NoEntry /\ active'[c] = None /\ \A d \in Chats \ {c} : store'[d] = store[d]
  BY <1>2, <1>4 DEF ClosesMap, Typed
<1>6. /\ su' \in [Starters -> Calls]
      /\ \A k \in Starters :
            /\ su'[k].phase = su[k].phase /\ su'[k].chat = su[k].chat
            /\ su'[k].state = su[k].state /\ su'[k].sess = su[k].sess
            /\ su'[k].stale = (su[k].stale \/ su[k].chat \in {c})
  BY <1>1, SupersedingShape
<1>7. ASSUME NEW k \in Starters
      PROVE  Moves(k)
  <2>1. su[k].phase = "free" => su'[k] = su[k]
    <3>1. su[k].phase = "free" => su[k].chat \notin {c}
      BY Blanks, NoneIsNone DEF Coherent, StartupShape, Childless
    <3> QED
      BY <1>1, <3>1 DEF Superseding
  <2> QED
    BY <1>5, <1>6, <2>1 DEF Moves
<1>8. \A d \in Chats : KeptEntry(d)
  BY <1>5, <1>6 DEF KeptEntry
<1>9. /\ cleaned' \subseteq Transcripts
      /\ \A t \in cleaned' : t \in cleaned \/ (t = store[c].id /\ t # None)
  BY <1>1 DEF Typed, Bindings
<1>10. ASSUME NEW t \in cleaned', t \notin cleaned
       PROVE  t \in StoreIds \ StoreIds'
  <2>1. t = store[c].id /\ t # None
    BY <1>9, <1>10
  <2>2. \A d \in Chats : store'[d].id # t
    BY <1>5, <2>1, Blanks DEF Coherent, Ledger, DistinctIds
  <2> QED
    BY <2>1, <2>2 DEF StoreIds
<1>11. closing' \in {closing, "tearing"} /\ (closing' = "tearing" => closing # "no" /\ Opened \subseteq {c})
  BY <1>1 DEF ClosedForGood, ActiveSet, Opened
<1>12. w.gauge = Cardinality({d \in Chats : w.active[d] # None}) /\ \A d \in Chats : w.active[d] \in {active[d], None}
  BY <1>2 DEF Gauged, Opened
<1>13. \A k \in Starters : /\ su'[k].phase = "free" <=> su[k].phase = "free"
                           /\ su'[k].phase \in Counted => su[k].phase \in Counted
  BY <1>6 DEF Counted, Opening
<1> QED
  BY <1>1, <1>3, <1>4, <1>6, <1>7, <1>8, <1>9, <1>10, <1>11, <1>12, <1>13, CloseStep

(* The chained closeSession calls find no session to close: none entered   *)
(* the map while the teardown ran.                                         *)
LEMMA TeardownEndsStep ==
    ASSUME SessInv, Running, NEW c \in Chats, TeardownEnds(c)
    PROVE  SessInv' /\ NoticeKept
<1> USE DEF SessInv
<1>1. teardowns[c] # <<>> /\ sess[Head(teardowns[c]).sess].child \in {"dead", "kill"}
  BY DEF TeardownEnds
<1>2. active[c] = None
  BY <1>1 DEF Coherent, ActiveShape, Mapped
<1>3. /\ teardowns' = [teardowns EXCEPT ![c] = <<>>]
      /\ restarts' = [restarts EXCEPT ![c] = IF Tail(teardowns[c]) = <<>> THEN @ ELSE 0]
      /\ UNCHANGED <<accepting, startups, su, active, gauge, sess, store, notifying, closing,
                     cleaned, notified>>
  BY <1>2 DEF TeardownEnds
<1>4. /\ teardowns' \in [Chats -> Seq(Closings)] /\ teardowns'[c] = <<>>
      /\ \A d \in Chats \ {c} : teardowns'[d] = teardowns[d]
  BY <1>3 DEF Typed
<1>5. restarts' \in [Chats -> Nat] /\ \A d \in Chats : restarts'[d] = restarts[d] \/ restarts'[d] = 0
  BY <1>3 DEF Typed
<1>6. Typed'
  BY <1>3, <1>4, <1>5 DEF Typed
<1>7. \A d \in Chats : KeptPlace(d) /\ KeptBarrier(d) /\ KeptEntry(d)
  BY <1>1, <1>3, <1>4 DEF KeptPlace, KeptBarrier, KeptEntry
<1>8. Quiet
  BY <1>3, <1>7, SameStartup, SameSession DEF Quiet, Running, stored
<1>9. Coherent' /\ Registered'
  BY <1>3, <1>6, <1>8, QuietCoherent, StayRegistered
<1>10. Bounded'
  BY <1>3, <1>5, StayBounded DEF Coherent, Live
<1> QED
  BY <1>3, <1>6, <1>9, <1>10, StayCounted DEF NoticeKept

(* closeAll supersedes the startups and closes what is in the map.         *)
LEMMA ShutdownSteps ==
    ASSUME SessInv, Running, Shutdown
    PROVE  SessInv' /\ NoticeKept
<1> USE DEF SessInv
<1>1. CASE CloseActiveSessions
  BY <1>1, CloseSteps
<1>2. CASE CloseAll
  <2> DEFINE C == {c \in Chats : startups[c] # None}
  <2>1. /\ closing = "no" /\ closing' = "waiting" /\ accepting' = FALSE /\ su' = Superseding(C)
        /\ UNCHANGED <<startups, active, gauge, sess, teardowns, store, restarts, notifying,
                       cleaned, notified>>
    BY <1>2 DEF CloseAll
  <2>2. /\ su' \in [Starters -> Calls]
        /\ \A k \in Starters :
              /\ su'[k].phase = su[k].phase /\ su'[k].chat = su[k].chat
              /\ su'[k].state = su[k].state /\ su'[k].sess = su[k].sess
              /\ su'[k].stale = (su[k].stale \/ su[k].chat \in C)
    BY <2>1, SupersedingShape
  <2>3. ASSUME NEW k \in Starters
        PROVE  Moves(k) /\ ~Live(k)'
    <3>1. su[k].phase = "free" => su'[k] = su[k]
      <4>1. su[k].phase = "free" => su[k].chat \notin C
        BY Blanks, NoneIsNone DEF Coherent, StartupShape, Childless
      <4> QED
        BY <2>1, <4>1 DEF Superseding
    <3>2. Live(k) => su[k].chat \in C
      BY NoneIsNone DEF Registered, Live, Coherent, StartupShape, Childless
    <3> QED
      BY <2>1, <2>2, <3>1, <3>2 DEF Moves, Live
  <2>4. Typed'
    BY <2>1, <2>2 DEF Typed
  <2>5. Quiet
    BY <2>1, <2>3, SamePlaces, SameSession DEF Quiet, Running, stored
  <2>6. Coherent'
    BY <2>4, <2>5, QuietCoherent
  <2>7. \A c \in Chats : startups'[c] # None => su'[startups'[c]].phase # "free" /\ su'[startups'[c]].chat = c
    <3>1. \A c \in Chats : startups[c] # None => startups[c] \in Starters
      BY DEF Typed
    <3> QED
      BY <2>1, <2>2, <3>1 DEF Registered
  <2>8. Registered'
    BY <2>1, <2>3, <2>7 DEF Registered
  <2>9. Bounded'
    BY <2>1, <2>3 DEF Bounded
  <2>10. Gauged' /\ ClosedForGood'
    BY <2>1 DEF Gauged, Opened, ClosedForGood
  <2> QED
    BY <2>1, <2>4, <2>6, <2>8, <2>9, <2>10 DEF NoticeKept
<1>3. CASE CloseAllEnds
  <2>1. /\ closing = "tearing" /\ closing' = "done"
        /\ UNCHANGED <<accepting, startups, su, active, gauge, sess, teardowns, store, restarts,
                       notifying, cleaned, notified>>
    BY <1>3 DEF CloseAllEnds
  <2>2. Typed'
    BY <2>1 DEF Typed
  <2>3. Quiet
    BY <2>1, SameStartup, SamePlaces, SameSession DEF Quiet, Running, stored
  <2>4. Coherent'
    BY <2>2, <2>3, QuietCoherent
  <2>5. Registered'
    BY <2>1 DEF Registered, Live
  <2>6. Bounded'
    BY <2>1 DEF Bounded, Live
  <2>7. Gauged' /\ ClosedForGood'
    BY <2>1 DEF Gauged, Opened, ClosedForGood, ActiveSet
  <2> QED
    BY <2>1, <2>2, <2>4, <2>5, <2>6, <2>7 DEF NoticeKept
<1> QED
  BY <1>1, <1>2, <1>3 DEF Shutdown

(* A startup takes its place: a dying session of its chat is dropped, and  *)
(* at the limit the session of another chat is closed.                     *)
Dropped(c, n) == [Maps EXCEPT !.active[c] = None, !.gauge = @ - 1, !.sess[n] = Killed(@)]

(* The map without a chat's dying session.                                 *)
LEMMA DroppedShape ==
    ASSUME SessInv, NEW c \in Chats, NEW n \in Sessions, n = active[c]
    PROVE  /\ Dropped(c, n).store = store /\ Dropped(c, n).active = [active EXCEPT ![c] = None]
           /\ Dropped(c, n).gauge = gauge - 1
           /\ Dropped(c, n).sess = [sess EXCEPT ![n] = Killed(sess[n])]
BY DEF Maps, SessInv, Typed, Dropped

(* A dying session is dropped and the limit made room for.                 *)
LEMMA AdmitStep ==
    ASSUME SessInv, Running, NEW k \in Starters, Admit(k)
    PROVE  SessInv' /\ NoticeKept
<1> USE DEF SessInv
<1> DEFINE c == su[k].chat
           n == active[c]
           w == IF n = None THEN Maps
                ELSE [Maps EXCEPT !.active[c] = None, !.gauge = @ - 1, !.sess[n] = Killed(@)]
           open == {d \in Chats : w.active[d] # None}
<1>1. /\ su[k].phase \in {"barrier", "replacing"} /\ Resumes(k) /\ ~su[k].stale
      /\ su' = [su EXCEPT ![k].phase = "evicting"]
      /\ UNCHANGED <<accepting, startups, notifying, closing, cleaned, notified>>
  BY DEF Admit, Superseded
<1>2. Close({}, k, TRUE, w) \/ \E v \in open : Close({v}, k, TRUE, w)
  BY DEF Admit
<1>3. c \in Chats /\ Live(k) /\ "evicting" \in Phases
  BY <1>1 DEF Coherent, StartupShape, Childless, Live, Phases
<1>4. /\ active \in [Chats -> Sessions \union {None}] /\ sess \in [Sessions -> Objects]
      /\ store \in [Chats -> Bindings] /\ gauge \in Int
  BY DEF Typed
<1>5. /\ w.store = store /\ w.active \in [Chats -> Sessions \union {None}]
      /\ \A d \in Chats : w.active[d] = IF d = c THEN None ELSE active[d]
      /\ w.gauge = IF n = None THEN gauge ELSE gauge - 1
      /\ w.sess \in [Sessions -> Objects]
      /\ \A m \in Sessions : w.sess[m] = IF m = n THEN Killed(sess[m]) ELSE sess[m]
  <2>1. CASE n = None
    BY <1>4, <2>1, MapsShape, NoneIsNone
  <2>2. CASE n # None
    <3>0. n \in Sessions /\ w = Dropped(c, n)
      BY <1>3, <1>4, <2>2 DEF Dropped
    <3>1. /\ n \in Sessions /\ w.store = store /\ w.active = [active EXCEPT ![c] = None]
          /\ w.gauge = gauge - 1 /\ w.sess = [sess EXCEPT ![n] = Killed(sess[n])]
      <4> HIDE DEF w
      <4> QED
        BY <1>3, <3>0, DroppedShape
    <3>2. Killed(sess[n]) \in Objects
      BY <1>4, <3>1, SignalShape
    <3> HIDE DEF w
    <3> QED
      BY <1>3, <1>4, <2>2, <3>1, <3>2
  <2> QED
    BY <2>1, <2>2
<1>6. w.gauge \in Int /\ w.gauge = Cardinality(open)
  <2>1. CASE n = None
    <3>1. open = Opened
      BY <1>3, <1>5, <2>1 DEF Opened
    <3> HIDE DEF w, open
    <3> QED
      BY <1>4, <1>5, <2>1, <3>1 DEF Gauged
  <2>2. CASE n # None
    <3>1. open = Opened \ {c} /\ c \in Opened
      BY <1>3, <1>5, <2>2 DEF Opened
    <3> HIDE DEF w, open
    <3>2. Cardinality(open) = Cardinality(Opened) - 1
      BY <3>1, OpenedFinite, FS_RemoveElement
    <3> QED
      BY <1>4, <1>5, <2>2, <3>2 DEF Gauged
  <2> QED
    BY <2>1, <2>2
<1>7. teardowns[c] = <<>>
  <2>1. CASE su[k].phase = "barrier"
    BY <1>1, <2>1 DEF Resumes
  <2>2. CASE su[k].phase = "replacing"
    <3>1. teardowns[c] = <<>> \/ Head(teardowns[c]).owner = k
      BY <1>3, <2>2 DEF Coherent, StartupHolds, Holding
    <3>2. ~TeardownPending(k)
      BY <1>1, <2>2 DEF Resumes
    <3>3. ASSUME teardowns[c] # <<>>
          PROVE  FALSE
      <4>1. Head(teardowns[c]) \in ElementsOf(teardowns[c])
        BY <1>3, <3>3, HeadElement
      <4> QED
        BY <1>3, <3>1, <3>2, <3>3, <4>1 DEF TeardownPending
    <3> QED
      BY <3>3
  <2> QED
    BY <1>1, <2>1, <2>2
<1> HIDE DEF w, open
<1>8. ASSUME NEW C \in SUBSET Chats, Close(C, k, TRUE, w), c \notin C
      PROVE  SessInv' /\ NoticeKept
  <2>1. ClosesMap(C, k, w)
    <3>1. \A d \in Chats : w.active[d] # active[d] =>
             w.active[d] = None /\ w.sess[active[d]] = Killed(sess[active[d]])
      BY <1>4, <1>5
    <3>2. \A m \in Sessions : w.sess[m] \in {sess[m], Killed(sess[m])}
      BY <1>5
    <3> QED
      BY <1>4, <1>5, <1>6, <1>8, <3>1, <3>2, ClosePlaces
  <2>2. store' = store /\ active'[c] = None /\ teardowns'[c] = <<>>
    BY <1>3, <1>5, <1>7, <1>8, <2>1 DEF ClosesMap
  <2>3. /\ su' \in [Starters -> Calls] /\ \A j \in Starters \ {k} : su'[j] = su[j]
        /\ su'[k].phase = "evicting" /\ su'[k].chat = su[k].chat /\ su'[k].stale = su[k].stale
        /\ su'[k].state = su[k].state /\ su'[k].sess = su[k].sess
    BY <1>1, <1>3, PhaseShape
  <2>4. Moves(k)
    BY <1>1, <2>2, <2>3 DEF Moves
  <2>5. \A j \in Starters : Moves(j) /\ (su'[j].phase = "free" <=> su[j].phase = "free")
    BY <1>1, <2>3, <2>4, SameStartup
  <2>6. \A j \in Starters : su'[j].phase \in Counted => su[j].phase \in Counted
    BY <2>3 DEF Counted, Opening
  <2>7. \A d \in Chats : KeptEntry(d)
    BY <2>2 DEF KeptEntry
  <2>8. cleaned' \subseteq Transcripts /\ \A t \in cleaned' : t \in cleaned
    BY <1>1 DEF Typed
  <2>9. closing' \in {closing, "tearing"} /\ (closing' = "tearing" => closing # "no" /\ Opened \subseteq C)
    BY <1>1 DEF ClosedForGood, ActiveSet, Opened
  <2>10. /\ w.store \in [Chats -> Bindings] /\ w.gauge = Cardinality({d \in Chats : w.active[d] # None})
         /\ \A d \in Chats : w.active[d] \in {active[d], None}
    BY <1>4, <1>5, <1>6 DEF open
  <2> QED
    BY <1>1, <2>1, <2>3, <2>5, <2>6, <2>7, <2>8, <2>9, <2>10, CloseStep
<1>9. CASE Close({}, k, TRUE, w)
  <2>1. {} \in SUBSET Chats /\ c \notin {}
    OBVIOUS
  <2> QED
    BY <1>8, <1>9, <2>1
<1>10. ASSUME NEW v \in open, Close({v}, k, TRUE, w)
       PROVE  SessInv' /\ NoticeKept
  <2>1. {v} \in SUBSET Chats /\ c \notin {v}
    BY <1>5 DEF open
  <2> QED
    BY <1>8, <1>10, <2>1
<1> QED
  BY <1>2, <1>9, <1>10

(* A notice is sent. *)
LEMMA SendNoticeStep ==
    ASSUME SessInv, Running, NEW c \in Chats, SendNotice(c)
    PROVE  SessInv' /\ NoticeKept
<1>1. /\ store[c].id # None /\ notifying' = [notifying EXCEPT ![c] = store[c].id]
      /\ UNCHANGED <<accepting, startups, su, active, gauge, sess, teardowns, store, restarts,
                     closing, cleaned, notified>>
  BY DEF SendNotice
<1>2. store[c] \in Bindings /\ notifying \in [Chats -> Transcripts \union {None}]
  BY DEF SessInv, Typed
<1>3. notifying' \in [Chats -> Transcripts \union {None}]
  BY <1>1, <1>2 DEF Bindings
<1> QED
  BY <1>1, <1>3, SameSession, SessionOnly DEF SessInv, Typed

-----------------------------------------------------------------------------
(* Spawning. *)

(* A free session object is nobody's. *)
LEMMA FreeShape ==
    ASSUME Typed, NEW n \in FreeSessions
    PROVE  /\ n \in Sessions /\ \A c \in Chats : active[c] # n
           /\ \A k \in Starters : su[k].sess # n
           /\ sess[n].child \notin {"up", "term", "kill"} /\ sess[n].task = "none"
           /\ \A c \in Chats : teardowns[c] # <<>> => Head(teardowns[c]).sess # n
<1>1. n \in Sessions /\ n \notin UsedSessions
  BY DEF FreeSessions
<1>2. ASSUME NEW c \in Chats, teardowns[c] # <<>>
      PROVE  Head(teardowns[c]).sess # n
  <2>1. Head(teardowns[c]).sess \in {e.sess : e \in ElementsOf(teardowns[c])}
    BY <1>2, HeadElement
  <2> QED
    BY <1>1, <2>1 DEF UsedSessions
<1>3. \A c \in Chats : active[c] # n
  <2>1. n \notin ActiveSet
    BY <1>1 DEF UsedSessions
  <2> QED
    BY <1>1, <2>1, NoneIsNone DEF ActiveSet
<1>4. /\ \A k \in Starters : su[k].sess # n
      /\ sess[n].child \notin {"up", "term", "kill"} /\ sess[n].task = "none"
  BY <1>1 DEF UsedSessions
<1> QED
  BY <1>1, <1>2, <1>3, <1>4

(* A startup that may spawn is alone on its chat. *)
LEMMA SpawnerShape ==
    ASSUME SessInv, NEW k \in Starters, Live(k), su[k].phase \in {"evicting", "backoff", "failing"}
    PROVE  /\ su[k].chat \in Chats /\ accepting
           /\ active[su[k].chat] = None /\ teardowns[su[k].chat] = <<>>
           /\ \A j \in Starters \ {k} : su[j].chat = su[k].chat => ~Live(j)
           /\ su[k].phase \notin Opening
BY DEF SessInv, Coherent, Registered, StartupShape, Childless, StartupHolds, Holding, Live, Admitted,
       Bearing, Opening

(* A live startup spawns its child on a transcript nobody uses.            *)
LEMMA SpawnStep ==
    ASSUME SessInv, Running, NEW k \in Starters, NEW state \in Bindings, NEW r \in BOOLEAN,
           Live(k), su[k].phase \in {"evicting", "backoff", "failing"}, SpawnOn(k, state, r),
           state.id \in Transcripts, restarts[su[k].chat] < MaxCrashRestarts,
           store' = [store EXCEPT ![su[k].chat] = state], store[su[k].chat].notice => state.notice,
           \A d \in Chats \ {su[k].chat} : store[d].id # state.id,
           \A m \in Sessions : sess[m].child \in {"up", "term"} => sess[m].id # state.id,
           \A j \in Starters \ {k} : su[j].phase \in Bearing /\ ~Live(j) => su[j].state.id # state.id,
           cleaned' \subseteq cleaned, state.id \notin cleaned',
           notified' \subseteq notified, state.notice => state.id \notin notified',
           UNCHANGED <<accepting, startups, active, gauge, teardowns, restarts, notifying, closing>>
    PROVE  SessInv' /\ NoticeKept
<1> USE DEF SessInv
<1> DEFINE c == su[k].chat
<1>1. /\ c \in Chats /\ accepting /\ active[c] = None /\ teardowns[c] = <<>>
      /\ \A j \in Starters \ {k} : su[j].chat = c => ~Live(j)
      /\ su[k].phase \notin Opening
  BY SpawnerShape
<1>2. /\ su' \in [Starters -> Calls] /\ sess' \in [Sessions -> Objects]
      /\ \A j \in Starters \ {k} : su'[j] = su[j]
      /\ su'[k].phase = "spawning" /\ su'[k].chat = c /\ su'[k].stale = su[k].stale
      /\ su'[k].state = state
  <2>1. Spawned(k, state)
    BY <1>1, SpawnShape
  <2> QED
    BY <2>1 DEF Spawned
<1>3. PICK n \in FreeSessions :
         /\ su'[k].sess = n
         /\ sess'[n] = [chat |-> c, id |-> state.id, notice |-> state.notice,
                        child |-> "up", task |-> "none"]
         /\ \A m \in Sessions \ {n} : sess'[m] = sess[m]
  <2>1. Spawned(k, state)
    BY <1>1, SpawnShape
  <2> QED
    BY <2>1 DEF Spawned
<1>4. /\ n \in Sessions /\ \A d \in Chats : active[d] # n
      /\ \A j \in Starters : su[j].sess # n
      /\ sess[n].child \notin {"up", "term", "kill"} /\ sess[n].task = "none"
      /\ \A d \in Chats : teardowns[d] # <<>> => Head(teardowns[d]).sess # n
  BY FreeShape
<1>5. /\ sess'[n].chat = c /\ sess'[n].id = state.id /\ sess'[n].notice = state.notice
      /\ sess'[n].child = "up" /\ sess'[n].task = "none"
  BY <1>3
<1>6. /\ store' \in [Chats -> Bindings] /\ store'[c] = state
      /\ \A d \in Chats \ {c} : store'[d] = store[d]
  BY <1>1 DEF Typed
<1>7. Typed'
  BY <1>2, <1>6 DEF Typed
<1>8. \A t \in StoreIds' : t \in StoreIds \/ t = state.id
  BY <1>6 DEF StoreIds
<1>9. StartupShape'
  <2>1. Childless(k)'
    BY <1>1, <1>2, Blanks DEF Childless, Bearing, Opening
  <2>2. Carrying(k)'
    BY <1>1, <1>2, <1>3, <1>4, <1>5 DEF Carrying, Bearing, Opening
  <2>3. ASSUME NEW j \in Starters \ {k}
        PROVE  Childless(j)' /\ Carrying(j)'
    <3>1. su'[j] = su[j] /\ Childless(j) /\ Carrying(j) /\ su[j].sess # n
      BY <1>2, <1>4 DEF Coherent, StartupShape
    <3>2. su[j].phase \in Bearing => sess'[su[j].sess] = sess[su[j].sess]
      BY <1>3, <3>1 DEF Carrying
    <3> QED
      BY <3>1, <3>2 DEF Childless, Carrying, Bearing, Opening
  <2>4. \A i, j \in Starters : su'[i].sess = su'[j].sess => i = j \/ su'[j].sess = None
    BY <1>2, <1>3, <1>4 DEF Coherent, StartupShape
  <2> QED
    BY <2>1, <2>2, <2>3, <2>4 DEF StartupShape
<1>10. StartupHolds'
  <2>1. Holding(k)'
    BY <1>1, <1>2, <1>6 DEF Holding, Live, Bearing, Opening
  <2>2. ASSUME NEW j \in Starters \ {k}
        PROVE  Holding(j)'
    <3>1. su'[j] = su[j] /\ Holding(j) /\ (Live(j)' <=> Live(j)) /\ Childless(j)
      BY <1>2 DEF Coherent, StartupHolds, StartupShape, Live
    <3>2. ASSUME Live(j)
          PROVE  su[j].chat \in Chats \ {c} /\ store'[su[j].chat] = store[su[j].chat]
      BY <1>1, <1>6, <3>1, <3>2 DEF Live, Childless
    <3>3. ASSUME ~Live(j), su[j].phase \in Bearing, accepting
          PROVE  su[j].state.id \notin StoreIds'
      BY <1>8, <3>1, <3>3 DEF Holding
    <3> QED
      BY <3>1, <3>2, <3>3 DEF Holding, Bearing, Opening, Admitted
  <2> QED
    BY <2>1, <2>2 DEF StartupHolds
<1>11. ActiveShape'
  <2>1. ASSUME NEW d \in Chats, active[d] # None
        PROVE  Mapped(d)'
    <3>1. d # c /\ store'[d] = store[d] /\ sess'[active[d]] = sess[active[d]] /\ Mapped(d)
      BY <1>1, <1>3, <1>4, <1>6, <2>1 DEF Typed, Coherent, ActiveShape
    <3> QED
      BY <2>1, <3>1 DEF Mapped, StateOf
  <2> QED
    BY <2>1 DEF ActiveShape, Mapped
<1>12. TeardownShape'
  <2>1. ASSUME NEW d \in Chats, teardowns[d] # <<>>
        PROVE  TornDown(d)'
    <3>1. /\ Head(teardowns[d]).sess \in Sessions \ {n} /\ TornDown(d)
      BY <1>4, <2>1 DEF Coherent, TeardownShape, TornDown
    <3> QED
      BY <1>2, <1>3, <2>1, <3>1 DEF TornDown
  <2> QED
    BY <2>1 DEF TeardownShape, TornDown
<1>13. ChildShape'
  <2>1. Watched(n)'
    BY <1>1, <1>2, <1>3, <1>5, <1>6 DEF Watched, Opening
  <2>2. ASSUME NEW m \in Sessions \ {n}
        PROVE  Watched(m)'
    <3>1. sess'[m] = sess[m] /\ Watched(m)
      BY <1>3 DEF Coherent, ChildShape
    <3>2. ASSUME sess[m].child \in {"up", "term"}
          PROVE  sess[m].id = store'[sess[m].chat].id \/ sess[m].id \notin StoreIds'
      <4>1. sess[m].chat \in Chats /\ sess[m].id # state.id
        BY <3>1, <3>2 DEF Watched
      <4>2. CASE sess[m].id \notin StoreIds
        BY <1>8, <4>1, <4>2
      <4>3. CASE sess[m].id = store[sess[m].chat].id /\ sess[m].chat # c
        BY <1>6, <4>1, <4>3
      <4>4. CASE sess[m].id = store[c].id
        <5>1. \A d \in Chats : store'[d].id # sess[m].id \/ sess[m].id = None
          BY <1>1, <1>6, <4>1, <4>4 DEF Coherent, Ledger, DistinctIds
        <5> QED
          BY <5>1 DEF StoreIds
      <4> QED
        BY <3>1, <3>2, <4>2, <4>3, <4>4 DEF Watched
    <3>3. ASSUME NEW j \in Starters, su[j].sess = m, su[j].phase \in Opening
          PROVE  su'[j].sess = m /\ su'[j].phase \in Opening
      BY <1>1, <1>2, <3>3
    <3> QED
      BY <3>1, <3>2, <3>3 DEF Watched, Opening
  <2> QED
    BY <2>1, <2>2 DEF ChildShape
<1>14. Ledger'
  <2>1. DistinctIds(store')
    BY <1>1, <1>6 DEF Coherent, Ledger, DistinctIds
  <2>2. None \notin cleaned' /\ \A d \in Chats : store'[d].id \notin cleaned'
    BY <1>6 DEF Coherent, Ledger
  <2>3. NoticeOnce'
    BY <1>6 DEF Coherent, Ledger, NoticeOnce
  <2> QED
    BY <2>1, <2>2, <2>3 DEF Ledger
<1>15. Fresh'
  BY DEF Running, stored, Fresh, Coherent
<1>16. OneWriterPerTranscript'
  BY <1>3, <1>5 DEF Coherent, OneWriterPerTranscript
<1>17. Coherent'
  BY <1>9, <1>10, <1>11, <1>12, <1>13, <1>14, <1>15, <1>16 DEF Coherent
<1>18. Registered'
  <2>1. \A j \in Starters : /\ su'[j].phase = "free" <=> su[j].phase = "free"
                            /\ su'[j].chat = su[j].chat /\ (su[j].stale => su'[j].stale)
    BY <1>2
  <2> QED
    BY <2>1, StayRegistered
<1>19. Bounded'
  <2>1. ASSUME NEW j \in Starters, Live(j)', su'[j].phase \in Counted
        PROVE  restarts'[su'[j].chat] < MaxCrashRestarts
    <3>1. CASE j = k
      BY <1>2, <3>1
    <3>2. CASE j # k
      BY <1>2, <2>1, <3>2 DEF Bounded, Live
    <3> QED
      BY <3>1, <3>2
  <2> QED
    BY <2>1 DEF Bounded
<1>20. NoticeKept
  BY <1>6 DEF NoticeKept
<1> QED
  BY <1>7, <1>17, <1>18, <1>19, <1>20, StayCounted

(* A fresh transcript is in no entry, startup or running child.            *)
LEMMA FreshShape ==
    ASSUME NEW t \in FreshTranscripts
    PROVE  /\ t \in Transcripts /\ \A d \in Chats : store[d].id # t
           /\ \A j \in Starters : su[j].state.id # t
           /\ \A m \in Sessions : sess[m].child \in {"up", "term"} => sess[m].id # t
<1>1. t \in Transcripts /\ t \notin UsedTranscripts
  BY DEF FreshTranscripts
<1>2. \A m \in Sessions : sess[m].child \in {"up", "term"} => m \in UsedSessions \ {None}
  BY NoneIsNone DEF UsedSessions
<1> QED
  BY <1>1, <1>2 DEF UsedTranscripts

(* The child's transcript is a new one.                                    *)
LEMMA PreseedStep ==
    ASSUME SessInv, Running, NEW k \in Starters, NEW t \in FreshTranscripts, NEW notice \in BOOLEAN,
           NEW r \in BOOLEAN, Live(k), su[k].phase \in {"evicting", "backoff", "failing"},
           Preseed(su[k].chat, [id |-> t, notice |-> notice]),
           SpawnOn(k, [id |-> t, notice |-> notice], r), store[su[k].chat].notice => notice,
           restarts[su[k].chat] < MaxCrashRestarts,
           UNCHANGED <<accepting, startups, active, gauge, teardowns, restarts, notifying, closing>>
    PROVE  SessInv' /\ NoticeKept
<1> DEFINE state == [id |-> t, notice |-> notice]
<1>1. /\ t \in Transcripts /\ \A d \in Chats : store[d].id # t
      /\ \A j \in Starters : su[j].state.id # t
      /\ \A m \in Sessions : sess[m].child \in {"up", "term"} => sess[m].id # t
  BY FreshShape
<1>2. state \in Bindings /\ state.id = t /\ state.notice = notice
  BY <1>1 DEF Bindings
<1> HIDE DEF state
<1>3. /\ store' = [store EXCEPT ![su[k].chat] = state]
      /\ cleaned' \subseteq cleaned /\ state.id \notin cleaned'
      /\ notified' \subseteq notified /\ state.id \notin notified'
  BY <1>2 DEF Preseed, SetSession, state
<1>4. SpawnOn(k, state, r)
  BY DEF state
<1> QED
  BY <1>1, <1>2, <1>3, <1>4, SpawnStep

(* No child but the startup's own runs on the transcript the store names.  *)
LEMMA StoredAlone ==
    ASSUME SessInv, NEW k \in Starters, Live(k), su[k].phase \in {"evicting", "backoff", "failing"},
           store[su[k].chat].id # None
    PROVE  /\ \A m \in Sessions : sess[m].child \in {"up", "term"} => sess[m].id # store[su[k].chat].id
           /\ \A j \in Starters \ {k} : su[j].phase \in Bearing /\ ~Live(j) =>
                 su[j].state.id # store[su[k].chat].id
<1> USE DEF SessInv
<1> DEFINE c == su[k].chat
<1>1. /\ c \in Chats /\ accepting /\ active[c] = None /\ teardowns[c] = <<>>
      /\ \A j \in Starters \ {k} : su[j].chat = c => ~Live(j)
      /\ su[k].phase \notin Opening
  BY SpawnerShape
<1>2. store[c].id \in StoreIds
  BY <1>1 DEF StoreIds
<1>3. ASSUME NEW j \in Starters, su[j].phase \in Bearing, ~Live(j)
      PROVE  su[j].state.id # store[c].id
  BY <1>1, <1>2, <1>3 DEF Coherent, StartupHolds, Holding
<1>4. ASSUME NEW m \in Sessions, sess[m].child \in {"up", "term"}, sess[m].id = store[c].id
      PROVE  FALSE
  <2>1. Watched(m)
    BY DEF Coherent, ChildShape
  <2>2. sess[m].chat \in Chats /\ sess[m].id = store[sess[m].chat].id
    BY <1>2, <1>4, <2>1 DEF Watched
  <2>3. sess[m].chat = c
    BY <1>1, <1>4, <2>2 DEF Coherent, Ledger, DistinctIds
  <2>4. active[c] # m
    BY <1>1, NoneIsNone
  <2>5. PICK j \in Starters : su[j].sess = m /\ su[j].phase \in Opening
    BY <1>1, <1>4, <2>1, <2>3, <2>4 DEF Watched
  <2>6. su[j].chat = c /\ su[j].state.id = store[c].id /\ su[j].phase \in Bearing
    BY <1>4, <2>3, <2>5 DEF Coherent, StartupShape, Carrying, Bearing
  <2>7. j # k
    BY <1>1, <2>5
  <2> QED
    BY <1>1, <1>3, <2>6, <2>7
<1> QED
  BY <1>3, <1>4

(* The three ways to a child.                                              *)
LEMMA SpawnSteps ==
    ASSUME SessInv, Running, NEW k \in Starters,
           SpawnStored(k) \/ SpawnPreseeded(k) \/ RotateAndRetry(k)
    PROVE  SessInv' /\ NoticeKept
<1> USE DEF SessInv
<1> DEFINE c == su[k].chat
<1>1. ASSUME MaySpawn(k)
      PROVE  Live(k) /\ su[k].phase \in {"evicting", "backoff"} /\ restarts[c] < MaxCrashRestarts
  <2>1. Live(k) /\ su[k].phase \in {"evicting", "backoff"} /\ c \in Chats
    BY <1>1 DEF MaySpawn, Live, Superseded, Coherent, StartupShape, Childless
  <2>2. CASE su[k].phase = "evicting"
    <3>1. ~(restarts[c] > 0) /\ restarts[c] \in Nat /\ MaxCrashRestarts \in Nat \ {0}
      BY <1>1, <2>1, <2>2, SessionManagerAssumption DEF MaySpawn, BackoffDue, Typed
    <3> QED
      BY <2>1, <3>1
  <2>3. CASE su[k].phase = "backoff"
    BY <2>1, <2>3 DEF Bounded, Counted
  <2> QED
    BY <2>1, <2>2, <2>3
<1>2. CASE SpawnStored(k)
  <2>1. /\ MaySpawn(k) /\ store[c].id # None /\ SpawnOn(k, store[c], ~store[c].notice)
        /\ UNCHANGED <<accepting, startups, active, gauge, teardowns, store, restarts, notifying,
                       closing, cleaned, notified>>
    BY <1>2 DEF SpawnStored
  <2>2. Live(k) /\ su[k].phase \in {"evicting", "backoff"} /\ restarts[c] < MaxCrashRestarts
    BY <1>1, <2>1
  <2>3. c \in Chats
    BY <2>2, SpawnerShape
  <2>4. /\ store[c] \in Bindings /\ (~store[c].notice) \in BOOLEAN /\ store[c].id \in Transcripts
        /\ store' = [store EXCEPT ![c] = store[c]]
    BY <2>1, <2>3 DEF Typed, Bindings
  <2>5. \A d \in Chats \ {c} : store[d].id # store[c].id
    BY <2>1, <2>3 DEF Coherent, Ledger, DistinctIds
  <2>6. store[c].id \notin cleaned' /\ (store[c].notice => store[c].id \notin notified')
    BY <2>1, <2>3 DEF Coherent, Ledger, NoticeOnce
  <2> QED
    BY <2>1, <2>2, <2>4, <2>5, <2>6, StoredAlone, SpawnStep
<1>3. CASE SpawnPreseeded(k)
  <2>1. PICK t \in FreshTranscripts, notice \in NoticeFor(store[c]) :
          /\ Preseed(c, [id |-> t, notice |-> notice])
          /\ SpawnOn(k, [id |-> t, notice |-> notice], ~notice)
    BY <1>3 DEF SpawnPreseeded
  <2>2. Live(k) /\ su[k].phase \in {"evicting", "backoff"} /\ restarts[c] < MaxCrashRestarts
    BY <1>1, <1>3 DEF SpawnPreseeded
  <2>3. notice \in BOOLEAN /\ (~notice) \in BOOLEAN /\ (store[c].notice => notice)
    BY DEF NoticeFor
  <2>4. UNCHANGED <<accepting, startups, active, gauge, teardowns, restarts, notifying, closing>>
    BY <1>3 DEF SpawnPreseeded
  <2> QED
    BY <2>1, <2>2, <2>3, <2>4, PreseedStep
<1>4. CASE RotateAndRetry(k)
  <2>1. PICK t \in FreshTranscripts :
          /\ Preseed(c, [id |-> t, notice |-> TRUE])
          /\ SpawnOn(k, [id |-> t, notice |-> TRUE], FALSE)
    BY <1>4 DEF RotateAndRetry
  <2>2. /\ su[k].phase = "failing" /\ Live(k)
        /\ UNCHANGED <<accepting, startups, active, gauge, teardowns, restarts, notifying, closing>>
    BY <1>4 DEF RotateAndRetry, Superseded, Live
  <2>3. restarts[c] < MaxCrashRestarts
    BY <2>2 DEF Bounded, Counted
  <2> QED
    BY <2>1, <2>2, <2>3, PreseedStep
<1> QED
  BY <1>2, <1>3, <1>4

(* The session enters the map: its transcript is what the store says.      *)
LEMMA ActivateStep ==
    ASSUME SessInv, Running, NEW k \in Starters, Activate(k)
    PROVE  SessInv' /\ NoticeKept
<1> USE DEF SessInv
<1>0. PICK c, n : c = su[k].chat /\ n = su[k].sess
  OBVIOUS
<1>1. /\ su[k].phase = "identifying" /\ sess[n].child = "up" /\ ~su[k].stale
      /\ store[c] = su[k].state /\ active' = [active EXCEPT ![c] = n] /\ gauge' = gauge + 1
      /\ Finish(k)
      /\ UNCHANGED <<accepting, sess, teardowns, store, restarts, notifying, closing, cleaned, notified>>
  BY <1>0 DEF Activate, Alive, Superseded, Confirmed
<1>2. Live(k) /\ su[k].phase \in Bearing /\ su[k].phase \in Admitted /\ su[k].phase \in Counted
      /\ su[k].phase \in Opening
  BY <1>1 DEF Live, Bearing, Admitted, Counted, Opening
<1>3. /\ c \in Chats /\ n \in Sessions /\ su[k].state.id \in Transcripts
      /\ sess[n].chat = c /\ sess[n].id = su[k].state.id /\ sess[n].notice = su[k].state.notice
      /\ sess[n].task = "none" /\ n # None
  BY <1>0, <1>2, NoneIsNone DEF Coherent, StartupShape, Childless, Carrying, Live
<1>4. active[c] = None /\ teardowns[c] = <<>> /\ startups[c] = k /\ accepting /\ restarts[c] < MaxCrashRestarts
  BY <1>0, <1>2 DEF Coherent, StartupHolds, Holding, Registered, Bounded
<1>5. \A j \in Starters \ {k} : su[j].sess # n
  BY <1>0, <1>3 DEF Coherent, StartupShape
<1>6. /\ su' \in [Starters -> Calls] /\ startups' \in [Chats -> Starters \union {None}]
      /\ su'[k] = NoStartup /\ \A j \in Starters \ {k} : su'[j] = su[j]
  BY <1>1, FinishShape
<1>7. /\ active' \in [Chats -> Sessions \union {None}] /\ active'[c] = n
      /\ \A d \in Chats \ {c} : active'[d] = active[d]
  BY <1>1, <1>3 DEF Typed
<1>8. Typed'
  BY <1>1, <1>6, <1>7 DEF Typed
<1>9. StartupShape'
  <2>1. Childless(k)' /\ Carrying(k)'
    BY <1>6, Blanks DEF Childless, Carrying, Bearing, Opening
  <2>2. ASSUME NEW j \in Starters \ {k}
        PROVE  Childless(j)' /\ Carrying(j)'
    <3>1. su'[j] = su[j] /\ Childless(j) /\ Carrying(j) /\ su[j].sess # n
      BY <1>5, <1>6 DEF Coherent, StartupShape
    <3>2. su[j].phase \in Bearing => active'[su[j].chat] # su[j].sess
      <4>1. su[j].phase \in Bearing => su[j].chat \in Chats
        BY <3>1 DEF Childless, Bearing, Opening
      <4> QED
        BY <1>7, <3>1, <4>1 DEF Carrying
    <3> QED
      BY <1>1, <3>1, <3>2 DEF Childless, Carrying, Bearing, Opening
  <2>3. \A i, j \in Starters : su'[i].sess = su'[j].sess => i = j \/ su'[j].sess = None
    BY <1>6, Blanks DEF Coherent, StartupShape
  <2> QED
    BY <2>1, <2>2, <2>3 DEF StartupShape
<1>10. StartupHolds'
  <2>1. Holding(k)'
    BY <1>6, Blanks DEF Holding, Live, Bearing, Opening
  <2>2. ASSUME NEW j \in Starters \ {k}
        PROVE  Holding(j)'
    <3>1. su'[j] = su[j] /\ Holding(j) /\ (Live(j)' <=> Live(j))
      BY <1>6 DEF Coherent, StartupHolds, Live
    <3>2. Live(j) => su[j].chat \in Chats \ {c}
      BY <1>0, <1>2, <1>4 DEF Registered, Live, Coherent, StartupShape, Childless
    <3>3. Live(j) => active'[su[j].chat] = active[su[j].chat]
      BY <1>7, <3>2
    <3>4. StoreIds' = StoreIds
      BY <1>1 DEF StoreIds
    <3> QED
      BY <1>1, <3>1, <3>3, <3>4 DEF Holding, Bearing, Opening, Admitted
  <2> QED
    BY <2>1, <2>2 DEF StartupHolds
<1>11. ActiveShape'
  <2>1. Mapped(c)'
    <3>1. store[c] = [id |-> sess[n].id, notice |-> sess[n].notice]
      BY <1>1, <1>3 DEF Typed, Bindings
    <3>2. store'[c] = StateOf(active[c])'
      BY <1>1, <1>7, <3>1 DEF StateOf
    <3> QED
      BY <1>1, <1>3, <1>4, <1>7, <3>2 DEF Mapped
  <2>2. ASSUME NEW d \in Chats \ {c}
        PROVE  Mapped(d)'
    BY <1>1, <1>7 DEF Coherent, ActiveShape, Mapped, StateOf
  <2> QED
    BY <2>1, <2>2 DEF ActiveShape
<1>12. TeardownShape'
  <2>1. \A j \in Starters : su'[j].sess \in {su[j].sess, None}
    BY <1>6, Blanks
  <2>2. ASSUME NEW d \in Chats, teardowns[d] # <<>>
        PROVE  TornDown(d)'
    BY <1>1, <2>1, <2>2, NoneIsNone DEF Coherent, TeardownShape, TornDown
  <2> QED
    BY <1>1, <2>2 DEF TeardownShape, TornDown
<1>13. ChildShape'
  <2>1. Watched(n)'
    BY <1>1, <1>3, <1>7 DEF Coherent, ChildShape, Watched, StoreIds
  <2>2. ASSUME NEW m \in Sessions \ {n}
        PROVE  Watched(m)'
    <3>1. Watched(m) /\ sess'[m] = sess[m] /\ StoreIds' = StoreIds
      BY <1>1 DEF Coherent, ChildShape, StoreIds
    <3>2. sess[m].chat \in Chats /\ active[sess[m].chat] = m => active'[sess[m].chat] = m
      BY <1>4, <1>7, NoneIsNone
    <3>3. ASSUME NEW j \in Starters, su[j].sess = m
          PROVE  su'[j] = su[j]
      BY <1>0, <1>6, <3>3
    <3> QED
      BY <1>1, <3>1, <3>2, <3>3 DEF Watched, Opening
  <2> QED
    BY <2>1, <2>2 DEF ChildShape
<1>14. Ledger' /\ Fresh' /\ OneWriterPerTranscript'
  BY <1>1 DEF Running, stored, Fresh, Coherent, Ledger, NoticeOnce, OneWriterPerTranscript
<1>15. Coherent'
  BY <1>9, <1>10, <1>11, <1>12, <1>13, <1>14 DEF Coherent
<1>16. Registered'
  BY <1>1, FinishRegistered DEF Coherent
<1>17. Gauged'
  <2>1. Opened' = Opened \union {c} /\ c \notin Opened
    BY <1>3, <1>4, <1>7 DEF Opened
  <2>2. Cardinality(Opened \union {c}) = Cardinality(Opened) + 1
    BY <2>1, OpenedFinite, FS_AddElement
  <2> QED
    BY <1>1, <2>1, <2>2 DEF Gauged
<1>18. ClosedForGood'
  BY <1>1, <1>4 DEF Registered, ClosedForGood
<1>19. Bounded'
  <2>1. \A d \in Chats : /\ restarts'[d] <= MaxCrashRestarts
                         /\ active'[d] # None => restarts'[d] < MaxCrashRestarts
    BY <1>1, <1>4, <1>7 DEF Bounded
  <2>2. ASSUME NEW j \in Starters, Live(j)', su'[j].phase \in Counted
        PROVE  restarts'[su'[j].chat] < MaxCrashRestarts
    <3>1. j # k
      BY <1>6, <2>2, Blanks DEF Live
    <3> QED
      BY <1>1, <1>6, <2>2, <3>1 DEF Bounded, Live
  <2> QED
    BY <2>1, <2>2 DEF Bounded
<1> QED
  BY <1>1, <1>8, <1>15, <1>16, <1>17, <1>18, <1>19 DEF NoticeKept

(* An acknowledged notice is forgotten in the store and in the session.    *)
LEMMA NoticeSettlesStep ==
    ASSUME SessInv, Running, NEW c \in Chats, NoticeSettles(c)
    PROVE  SessInv' /\ NoticeKept
<1> USE DEF SessInv
<1>1. PICK t : t = notifying[c]
  OBVIOUS
<1>2. /\ t # None /\ notifying' = [notifying EXCEPT ![c] = None]
      /\ UNCHANGED <<accepting, startups, su, active, gauge, teardowns, restarts, closing, cleaned>>
  BY <1>1 DEF NoticeSettles
<1>3. t \in Transcripts /\ notifying' \in [Chats -> Transcripts \union {None}]
  BY <1>1, <1>2 DEF Typed
<1>4. CASE UNCHANGED <<store, sess, notified>>
  BY <1>2, <1>3, <1>4, SameSession, SessionOnly DEF Typed
<1>5. CASE /\ Acknowledge(c, t) /\ sess' = SessionsTold(c, t) /\ notified' = notified \cup {t}
  <2>1. /\ store[c] = [id |-> t, notice |-> TRUE]
        /\ store' = [store EXCEPT ![c] = [id |-> t, notice |-> FALSE]]
    BY <1>5 DEF Acknowledge, CompareAndSet, SetSession
  <2>2. [id |-> t, notice |-> FALSE] \in Bindings
    BY <1>3 DEF Bindings
  <2>3. /\ store' \in [Chats -> Bindings] /\ store[c].id = t
        /\ store'[c] = [id |-> t, notice |-> FALSE]
        /\ \A d \in Chats \ {c} : store'[d] = store[d]
    BY <2>1, <2>2 DEF Typed
  <2>4. (\A d \in Chats : store'[d].id = store[d].id) /\ StoreIds' = StoreIds
    BY <2>3 DEF StoreIds
  <2>5. ASSUME NEW n \in Sessions
        PROVE  /\ sess'[n] \in Objects
               /\ sess'[n].chat = sess[n].chat /\ sess'[n].id = sess[n].id
               /\ sess'[n].child = sess[n].child /\ sess'[n].task = sess[n].task
               /\ active[c] # n => sess'[n] = sess[n]
               /\ active[c] = n /\ sess[n].id = t => sess'[n].notice = FALSE
    <3>1. sess[n] \in Objects
      BY DEF Typed
    <3>2. CASE active[c] = n /\ sess[n].id = t
      <4>1. sess'[n] = [sess[n] EXCEPT !.notice = FALSE]
        BY <1>5, <3>2 DEF SessionsTold
      <4> QED
        BY <3>1, <3>2, <4>1 DEF Objects
    <3>3. CASE ~(active[c] = n /\ sess[n].id = t)
      <4>1. sess'[n] = sess[n]
        BY <1>5, <3>3 DEF SessionsTold
      <4> QED
        BY <3>1, <3>3, <4>1
    <3> QED
      BY <3>2, <3>3
  <2>6. sess' \in [Sessions -> Objects]
    <3>1. sess' = [n \in Sessions |-> sess'[n]]
      BY <1>5 DEF SessionsTold
    <3> QED
      BY <2>5, <3>1
  <2>7. Typed'
    BY <1>2, <1>3, <1>5, <2>3, <2>6 DEF Typed
  <2>8. StartupShape'
    <3>1. ASSUME NEW k \in Starters
          PROVE  Childless(k)' /\ Carrying(k)'
      <4>1. Childless(k) /\ Carrying(k)
        BY DEF Coherent, StartupShape
      <4>2. su[k].phase \in Bearing => active[c] # su[k].sess
        <5>1. ASSUME su[k].phase \in Bearing, active[c] = su[k].sess
              PROVE  FALSE
          <6>1. su[k].sess \in Sessions /\ sess[su[k].sess].chat = su[k].chat /\ active[su[k].chat] # su[k].sess
            BY <4>1, <5>1 DEF Carrying
          <6>2. sess[active[c]].chat = c
            BY <5>1, <6>1, NoneIsNone DEF Coherent, ActiveShape, Mapped
          <6> QED
            BY <5>1, <6>1, <6>2
        <5> QED
          BY <5>1
      <4>3. su[k].phase \in Bearing => sess'[su[k].sess] = sess[su[k].sess]
        BY <2>5, <4>1, <4>2 DEF Carrying
      <4> QED
        BY <1>2, <4>1, <4>3 DEF Childless, Carrying, Bearing, Opening
    <3> QED
      BY <1>2, <3>1 DEF Coherent, StartupShape
  <2>9. StartupHolds'
    <3>1. ASSUME NEW k \in Starters
          PROVE  Holding(k)'
      <4>1. Holding(k) /\ (Live(k)' <=> Live(k)) /\ (Live(k) => su[k].chat \in Chats)
        BY <1>2 DEF Coherent, StartupHolds, Live, StartupShape, Childless
      <4>2. Live(k) => store'[su[k].chat].id = store[su[k].chat].id
        BY <2>4, <4>1
      <4> QED
        BY <1>2, <2>4, <4>1, <4>2 DEF Holding, Bearing, Opening, Admitted
    <3> QED
      BY <3>1 DEF StartupHolds
  <2>10. ActiveShape'
    <3>1. ASSUME NEW d \in Chats, active[d] # None
          PROVE  Mapped(d)'
      <4>1. active[d] \in Sessions /\ Mapped(d) /\ active'[d] = active[d]
        BY <1>2, <3>1 DEF Typed, Coherent, ActiveShape
      <4>2. sess[active[d]].chat = d /\ store[d] = StateOf(active[d])
        BY <3>1, <4>1 DEF Mapped
      <4>3. store'[d] = StateOf(active[d])'
        <5>1. CASE d = c
          <6>1. sess[active[c]].id = t
            BY <2>3, <4>2, <5>1 DEF StateOf
          <6>2. sess'[active[c]].id = t /\ sess'[active[c]].notice = FALSE
            BY <2>5, <4>1, <5>1, <6>1
          <6> QED
            BY <1>2, <2>3, <5>1, <6>2 DEF StateOf
        <5>2. CASE d # c
          <6>1. active[c] # active[d]
            BY <3>1, <4>2, <5>2 DEF Coherent, ActiveShape, Mapped
          <6>2. sess'[active[d]] = sess[active[d]]
            BY <2>5, <4>1, <6>1
          <6> QED
            BY <2>3, <4>1, <4>2, <5>2, <6>2 DEF StateOf
        <5> QED
          BY <5>1, <5>2
      <4> QED
        BY <1>2, <2>4, <2>5, <3>1, <4>1, <4>3 DEF Mapped
    <3> QED
      BY <1>2, <3>1 DEF ActiveShape, Mapped
  <2>11. TeardownShape'
    <3>1. ASSUME NEW d \in Chats, teardowns[d] # <<>>
          PROVE  TornDown(d)'
      BY <1>2, <2>5, <3>1 DEF Coherent, TeardownShape, TornDown
    <3> QED
      BY <1>2, <3>1 DEF TeardownShape, TornDown
  <2>12. ChildShape'
    <3>1. ASSUME NEW n \in Sessions
          PROVE  Watched(n)'
      <4>1. Watched(n)
        BY DEF Coherent, ChildShape
      <4>2. sess'[n].chat = sess[n].chat /\ sess'[n].id = sess[n].id
            /\ sess'[n].child = sess[n].child /\ sess'[n].task = sess[n].task
        BY <2>5
      <4>3. sess[n].chat \in Chats => store'[sess[n].chat].id = store[sess[n].chat].id
        BY <2>4
      <4> QED
        BY <1>2, <2>4, <4>1, <4>2, <4>3 DEF Watched, Opening
    <3> QED
      BY <3>1 DEF ChildShape
  <2>13. Ledger'
    <3>1. DistinctIds(store) /\ \A d \in Chats \ {c} : store[d].id # t
      BY <1>3, <2>3, NoneIsNone DEF Coherent, Ledger, DistinctIds
    <3>2. DistinctIds(store')
      BY <2>4, <3>1 DEF DistinctIds
    <3>3. NoticeOnce'
      BY <1>5, <2>3, <3>1 DEF Coherent, Ledger, NoticeOnce
    <3> QED
      BY <1>2, <2>4, <3>2, <3>3 DEF Coherent, Ledger
  <2>14. Fresh' /\ OneWriterPerTranscript'
    <3>1. Fresh'
      BY DEF Running, stored, Fresh, Coherent
    <3>2. \A n \in Sessions : sess'[n].child = sess[n].child /\ sess'[n].id = sess[n].id
      BY <2>5
    <3> QED
      BY <3>1, <3>2 DEF Coherent, OneWriterPerTranscript
  <2>15. Coherent'
    BY <2>8, <2>9, <2>10, <2>11, <2>12, <2>13, <2>14 DEF Coherent
  <2>16. Registered' /\ Bounded'
    BY <1>2 DEF Registered, Live, Bounded
  <2>17. NoticeKept
    BY <1>5, <2>3 DEF NoticeKept
  <2> QED
    BY <1>2, <2>7, <2>15, <2>16, <2>17, StayCounted
<1> QED
  BY <1>1, <1>4, <1>5 DEF NoticeSettles

-----------------------------------------------------------------------------
(* Before the store is in use nothing refers to anything, and the cutover  *)
(* of an old store replaces it only after an exact copy.                   *)

KnownFile == file \in {"absent", "legacy", "current"}

(* Every entry a start of the process can find or make is well-formed.     *)
LEMMA BootShape ==
    ASSUME Typed, Fresh, KnownFile, Boot
    PROVE  /\ boot # "up" /\ boot' \in {"off", "migrating", "backing", "replacing", "up"}
           /\ boot' # "up" => store' = store
           /\ KnownFile' /\ store' \in [Chats -> Bindings] /\ DistinctIds(store)'
           /\ boot' = "replacing" => backup' = "exact"
           /\ boot' = "backing" => backup' # "exact"
           /\ OldStoreKept
<1>1. ASSUME boot # "up"
      PROVE  \A c \in Chats : store[c].id = None
  BY <1>1, Blanks DEF Fresh
<1>2. {NoEntry, Unresolved} \subseteq Bindings
      /\ \A t \in Transcripts, b \in BOOLEAN : Bound(t, b) \in Bindings
  BY Blanks DEF Unresolved, Bound, Bindings
<1>3. ASSUME UNCHANGED store, boot # "up"
      PROVE  store' \in [Chats -> Bindings] /\ DistinctIds(store)'
  BY <1>1, <1>3 DEF Typed, DistinctIds
<1>4. CASE KeepBackup \/ RefuseBackup \/ StartBackup \/ FinishBackup \/ BackupFails \/ BootCrash
  <2>1. /\ boot \in {"migrating", "backing", "replacing"} /\ UNCHANGED <<file, store>>
        /\ boot' \in {"off", "backing", "replacing"}
        /\ boot' = "replacing" => backup' = "exact"
        /\ boot' = "backing" => backup' # "exact"
        /\ backup = "exact" => boot # "backing"
        /\ boot # "backing" /\ backup = "exact" => backup' = "exact"
    BY <1>4 DEF KeepBackup, RefuseBackup, StartBackup, FinishBackup, BackupFails, BootCrash, Fresh,
           BackupMatches
  <2> QED
    BY <1>3, <2>1 DEF OldStoreKept, Fresh, KnownFile
<1>5. CASE ReplaceFails
  <2>1. boot = "replacing" /\ boot' = "off" /\ UNCHANGED <<backup, store>>
    BY <1>5 DEF ReplaceFails
  <2> QED
    BY <1>3, <1>5, <2>1 DEF OldStoreKept, Fresh, ReplaceFails, KnownFile
<1>6. CASE Load
  <2>1. boot = "off" /\ UNCHANGED <<file, backup>>
    BY <1>6 DEF Load
  <2>2. CASE file # "current"
    <3>1. boot' \in {"up", "migrating"} /\ UNCHANGED store
      <4>1. CASE file = "absent"
        BY <1>6, <4>1 DEF Load
      <4>2. CASE file = "legacy"
        BY <1>6, <4>2 DEF Load
      <4> QED
        BY <2>2, <4>1, <4>2 DEF KnownFile
    <3> QED
      BY <1>3, <2>1, <2>2, <3>1 DEF OldStoreKept, KnownFile
  <2>3. CASE file = "current"
    <3>1. /\ boot' = "up" /\ DistinctIds(store')
          /\ store' \in [Chats -> {NoEntry, Unresolved}
                                     \union {Bound(t, n) : t \in Transcripts, n \in BOOLEAN}]
      BY <1>6, <2>3 DEF Load
    <3>2. {NoEntry, Unresolved} \union {Bound(t, n) : t \in Transcripts, n \in BOOLEAN} \subseteq Bindings
      BY <1>2
    <3>3. store' \in [Chats -> Bindings]
      BY <3>1, <3>2
    <3> QED
      BY <2>1, <2>3, <3>1, <3>3 DEF OldStoreKept, DistinctIds, KnownFile
  <2> QED
    BY <2>2, <2>3 DEF KnownFile
<1>7. CASE Replace
  <2>1. /\ boot = "replacing" /\ boot' = "up" /\ UNCHANGED backup /\ DistinctIds(store')
        /\ store' \in [Chats -> {NoEntry} \union (IF Results # {"bound"} THEN {Unresolved} ELSE {})
                                 \union {Bound(t, FALSE) : t \in IF "bound" \in Results
                                                                   THEN Transcripts ELSE {}}]
    BY <1>7 DEF Replace
  <2>2. {NoEntry} \union (IF Results # {"bound"} THEN {Unresolved} ELSE {})
           \union {Bound(t, FALSE) : t \in IF "bound" \in Results THEN Transcripts ELSE {}}
         \subseteq Bindings
    BY <1>2
  <2>3. store' \in [Chats -> Bindings]
    BY <2>1, <2>2
  <2> QED
    BY <1>7, <2>1, <2>3 DEF DistinctIds, OldStoreKept, Fresh, Replace, KnownFile
<1> QED
  BY <1>4, <1>5, <1>6, <1>7 DEF Boot

(* What is empty is coherent.                                              *)
Empty ==
    /\ DistinctIds(store) /\ cleaned = {} /\ notified = {}
    /\ \A c \in Chats : active[c] = None /\ teardowns[c] = <<>>
    /\ \A k \in Starters : su[k] = NoStartup
    /\ \A n \in Sessions : sess[n] = NoSession

LEMMA EmptyCoherent ==
    Typed /\ Empty /\ Fresh => Coherent
<1> SUFFICES ASSUME Typed, Empty, Fresh
             PROVE  Coherent
  OBVIOUS
<1> USE DEF Empty
<1>1. StartupShape /\ StartupHolds
  BY Blanks DEF StartupShape, StartupHolds, Childless, Carrying, Holding, Bearing, Opening, Admitted, Live
<1>2. ActiveShape /\ TeardownShape
  BY DEF ActiveShape, TeardownShape, Mapped, TornDown
<1>3. ChildShape /\ OneWriterPerTranscript
  BY Blanks DEF ChildShape, Watched, OneWriterPerTranscript
<1>4. Ledger
  BY DEF Ledger, NoticeOnce
<1> QED
  BY <1>1, <1>2, <1>3, <1>4 DEF Coherent

(* Starting the process, in as many attempts as it takes.                  *)
LEMMA BootStep ==
    ASSUME SessInv, KnownFile, Boot, UNCHANGED lives
    PROVE  SessInv' /\ NoticeKept
<1> USE DEF SessInv
<1>1. /\ boot # "up" /\ boot' \in {"off", "migrating", "backing", "replacing", "up"}
      /\ boot' # "up" => store' = store
      /\ KnownFile' /\ store' \in [Chats -> Bindings] /\ DistinctIds(store)'
      /\ boot' = "replacing" => backup' = "exact"
      /\ boot' = "backing" => backup' # "exact"
  BY BootShape DEF Coherent
<1>2. /\ \A c \in Chats : store[c] = NoEntry /\ active[c] = None /\ teardowns[c] = <<>>
      /\ \A k \in Starters : su[k] = NoStartup
      /\ \A n \in Sessions : sess[n] = NoSession
      /\ cleaned = {} /\ notified = {}
  BY <1>1 DEF Coherent, Fresh
<1>3. Typed'
  BY <1>1 DEF Typed, lives
<1>4. Fresh'
  BY <1>1, <1>2 DEF Fresh, lives
<1>5. Coherent'
  <2>1. Empty'
    BY <1>1, <1>2 DEF lives, Empty, DistinctIds
  <2> QED
    BY <1>3, <1>4, <2>1, EmptyCoherent, PTL
<1>6. Registered' /\ Gauged' /\ Bounded' /\ ClosedForGood'
  BY DEF Registered, Gauged, Bounded, ClosedForGood, lives, Live, Opened, ActiveSet
<1>7. NoticeKept
  BY <1>2, Blanks DEF NoticeKept
<1> QED
  BY <1>1, <1>3, <1>5, <1>6, <1>7

-----------------------------------------------------------------------------
(* The invariant holds at the start and through every step. *)

(* A process that has not read its store yet.                              *)
LEMMA SessInit ==
    Init => SessInv
<1> SUFFICES ASSUME Init
             PROVE  SessInv
  OBVIOUS
<1>1. /\ \A c \in Chats : active[c] = None /\ teardowns[c] = <<>> /\ store[c] = NoEntry
                          /\ startups[c] = None /\ restarts[c] = 0
      /\ \A k \in Starters : su[k] = NoStartup
      /\ \A n \in Sessions : sess[n] = NoSession
      /\ cleaned = {} /\ notified = {} /\ boot = "off" /\ gauge = 0 /\ accepting /\ closing = "no"
  BY DEF Init, InitStore
<1>2. Typed
  <2>1. <<>> \in Seq(Closings) /\ NoEntry \in Bindings /\ NoStartup \in Calls /\ NoSession \in Objects
    BY Blanks
  <2> QED
    BY <2>1 DEF Init, InitStore, Typed
<1>3. DistinctIds(store)
  BY <1>1, Blanks DEF DistinctIds
<1>4. Coherent
  <2>1. Fresh
    BY <1>1 DEF Fresh, Init, InitStore
  <2> QED
    BY <1>1, <1>2, <1>3, <2>1, EmptyCoherent DEF Empty
<1>5. Registered /\ ClosedForGood
  BY <1>1, Blanks DEF Registered, Live, ClosedForGood
<1>6. Gauged
  <2>1. Opened = {}
    BY <1>1 DEF Opened
  <2> QED
    BY <1>1, <2>1, FS_EmptySet DEF Gauged
<1>7. Bounded
  BY <1>1, Blanks, SessionManagerAssumption DEF Bounded, Live
<1> QED
  BY <1>2, <1>4, <1>5, <1>6, <1>7 DEF SessInv

(* What every step keeps.                                                  *)
LEMMA SessNext ==
    ASSUME SessInv, KnownFile, [Next]_vars
    PROVE  SessInv' /\ NoticeKept
<1>1. CASE UNCHANGED vars
  <2>1. UNCHANGED <<accepting, startups, su, active, gauge, sess, teardowns, restarts, notifying, closing,
                    cleaned, notified, store, boot, backup>>
    BY <1>1 DEF vars, lives, stored
  <2> USE <2>1 DEF SessInv
  <2>2. Typed'
    BY DEF Typed
  <2>3. Registered' /\ Bounded'
    BY DEF Registered, Bounded, Live
  <2>4. Gauged' /\ ClosedForGood'
    BY DEF Gauged, ClosedForGood, Opened, ActiveSet
  <2>5. StartupShape' /\ StartupHolds'
    BY DEF Coherent, StartupShape, StartupHolds, Childless, Carrying, Holding, Live, StoreIds
  <2>6. ActiveShape' /\ TeardownShape'
    BY DEF Coherent, ActiveShape, TeardownShape, Mapped, TornDown, StateOf
  <2>7. ChildShape' /\ OneWriterPerTranscript'
    BY DEF Coherent, ChildShape, Watched, OneWriterPerTranscript, StoreIds
  <2>8. Ledger' /\ Fresh' /\ NoticeKept
    BY DEF Coherent, Ledger, DistinctIds, NoticeOnce, Fresh, NoticeKept
  <2> QED
    BY <2>2, <2>3, <2>4, <2>5, <2>6, <2>7, <2>8 DEF Coherent
<1>2. CASE Boot /\ UNCHANGED lives
  BY <1>2, BootStep
<1>3. ASSUME NEW k \in Starters, Running, StartupStep(k)
      PROVE  SessInv' /\ NoticeKept
  <2>1. CASE SupersededStops(k) \/ ReuseSession(k) \/ StartupRefused(k) \/ ReplacementUnusable(k)
             \/ AbortEnds(k)
    BY <1>3, <2>1, EndSteps
  <2>2. CASE CrashBackoff(k) \/ ChildSpawned(k) \/ AbortSuperseded(k) \/ SpawnFails(k)
             \/ ActivationRefused(k)
    BY <1>3, <2>2, MoveSteps
  <2>3. CASE SpawnStored(k) \/ SpawnPreseeded(k) \/ RotateAndRetry(k)
    BY <1>3, <2>3, SpawnSteps
  <2>4. CASE ReplaceSession(k)
    BY <1>3, <2>4, ReplaceStep
  <2>5. CASE Admit(k)
    BY <1>3, <2>5, AdmitStep
  <2>6. CASE StartupFails(k)
    BY <1>3, <2>6, StartupFailsStep
  <2>7. CASE Activate(k)
    BY <1>3, <2>7, ActivateStep
  <2> QED
    BY <1>3, <2>1, <2>2, <2>3, <2>4, <2>5, <2>6, <2>7 DEF StartupStep
<1>4. ASSUME NEW n \in Sessions, Running, SessionStep(n)
      PROVE  SessInv' /\ NoticeKept
  BY <1>4, TaskSteps, ChildExitsStep DEF SessionStep
<1>5. ASSUME NEW c \in Chats, Running, ChatStep(c)
      PROVE  SessInv' /\ NoticeKept
  <2>1. CASE GetOrCreate(c)
    BY <1>5, <2>1, GetOrCreateStep
  <2>2. CASE IdleTimeout(c) \/ Reconnect(c)
    BY <1>5, <2>2, CloseSteps
  <2>3. CASE Clean(c)
    BY <1>5, <2>3, CleanStep
  <2>4. CASE TeardownEnds(c)
    BY <1>5, <2>4, TeardownEndsStep
  <2>5. CASE SendNotice(c)
    BY <1>5, <2>5, SendNoticeStep
  <2>6. CASE NoticeSettles(c)
    BY <1>5, <2>6, NoticeSettlesStep
  <2> QED
    BY <1>5, <2>1, <2>2, <2>3, <2>4, <2>5, <2>6 DEF ChatStep
<1>6. CASE Running /\ Shutdown
  BY <1>6, ShutdownSteps
<1> QED
  BY <1>1, <1>2, <1>3, <1>4, <1>5, <1>6 DEF Next

(* The store file is one of those that a start can find, and the sessions  *)
(* of an old one can be had back.                                          *)
LEMMA StoreFileNext ==
    ASSUME SessInv, KnownFile, [Next]_vars
    PROVE  KnownFile' /\ OldStoreKept
<1>1. CASE UNCHANGED stored
  BY <1>1 DEF stored, KnownFile, OldStoreKept
<1>2. CASE Boot
  BY <1>2, BootShape DEF SessInv, Coherent
<1> QED
  BY <1>1, <1>2 DEF Next, Running, vars

(* The inductive invariant of the session manager. *)
THEOREM SessionsCohere == Spec => [](SessInv /\ KnownFile)
<1>1. Init => SessInv /\ KnownFile
  BY SessInit DEF Init, InitStore, KnownFile
<1>2. SessInv /\ KnownFile /\ [Next]_vars => SessInv' /\ KnownFile'
  BY SessNext, StoreFileNext
<1> QED
  BY <1>1, <1>2, PTL DEF Spec

(* Every variable of the session manager keeps its type: among the rest a  *)
(* chat's crash count never passes its limit.                              *)
THEOREM SessionTypeCorrect == Spec => []TypeOK
<1>1. SessInv => TypeOK
  <2> SUFFICES ASSUME SessInv
               PROVE  TypeOK
    OBVIOUS
  <2>1. ASSUME NEW k \in Starters
        PROVE  /\ su[k].phase \in Phases
               /\ su[k].phase = "free" <=> su[k] = NoStartup
               /\ su[k].sess \in Sessions \union {None}
    BY DEF SessInv, Typed, Calls, Coherent, StartupShape, Childless
  <2>2. ASSUME NEW n \in Sessions
        PROVE  /\ sess[n].child \in {"none", "up", "term", "kill", "dead"}
               /\ sess[n].task \in {"none", "queued", "running"}
    BY DEF SessInv, Typed, Objects
  <2>3. ASSUME NEW c \in Chats
        PROVE  store[c].id \in Transcripts \union {None} /\ restarts[c] \in 0..MaxCrashRestarts
    BY SessionManagerAssumption DEF SessInv, Typed, Bindings, Bounded
  <2>4. /\ accepting \in BOOLEAN /\ startups \in [Chats -> Starters \cup {None}]
        /\ active \in [Chats -> Sessions \cup {None}] /\ closing \in {"no", "waiting", "tearing", "done"}
    BY DEF SessInv, Typed
  <2> QED
    BY <2>1, <2>2, <2>3, <2>4 DEF TypeOK, Phases
<1> QED
  BY <1>1, SessionsCohere, PTL

(* A transcript file has one writer: a startup spawns a child only on a    *)
(* transcript that no running child has, though earlier children of the    *)
(* chat are still being told to stop.                                      *)
THEOREM TranscriptsHaveOneWriter == Spec => []OneWriterPerTranscript
BY SessionsCohere, PTL DEF SessInv, Coherent

(* /clean is final: what it forgot no startup, turn or closing session     *)
(* brings back, neither into the store nor into the session map.           *)
THEOREM CleanStaysClean == Spec => []CleanIsFinal
<1>1. SessInv => CleanIsFinal
  <2> SUFFICES ASSUME SessInv, NEW c \in Chats
               PROVE  store[c].id \notin cleaned /\ (active[c] # None => sess[active[c]].id \notin cleaned)
    BY DEF CleanIsFinal
  <2>1. store[c].id \notin cleaned
    BY DEF SessInv, Coherent, Ledger
  <2>2. active[c] # None => sess[active[c]].id = store[c].id
    BY StateShape DEF SessInv, Typed, Coherent, ActiveShape, Mapped
  <2> QED
    BY <2>1, <2>2
<1> QED
  BY <1>1, SessionsCohere, PTL

(* Sessions are in the map under one chat each, so that the gauge counts   *)
(* them by their chats.                                                    *)
LEMMA GaugeCounts ==
    SessInv => GaugeExact
<1> SUFFICES ASSUME SessInv
             PROVE  GaugeExact
  OBVIOUS
<1> DEFINE f == [c \in Opened |-> active[c]]
<1>1. f \in [Opened -> ActiveSet]
  BY DEF Opened, ActiveSet
<1>2. \A c, d \in Opened : f[c] = f[d] => c = d
  BY DEF Opened, SessInv, Coherent, ActiveShape, Mapped
<1>3. \A n \in ActiveSet : \E c \in Opened : f[c] = n
  BY DEF Opened, ActiveSet
<1>4. f \in Bijection(Opened, ActiveSet)
  BY <1>1, <1>2, <1>3, Fun_IsBij
<1>5. IsFiniteSet(Opened)
  BY OpenedFinite
<1>6. Cardinality(ActiveSet) = Cardinality(Opened)
  BY <1>4, <1>5, FS_Bijection DEF ExistsBijection
<1> QED
  BY <1>6 DEF GaugeExact, SessInv, Gauged

(* Between any two steps the store, the session map, the startups and      *)
(* teardowns, the processes, the notices and the gauge tell one story.     *)
THEOREM TheMapsAgree == Spec => []MapsAgree
<1>1. SessInv => MapsAgree
  <2> SUFFICES ASSUME SessInv
               PROVE  MapsAgree
    OBVIOUS
  <2>1. StoreNamesActive
    BY DEF StoreNamesActive, SessInv, Coherent, ActiveShape, Mapped
  <2>2. ASSUME NEW n \in Sessions
        PROVE  /\ sess[n].child = "up" => \/ n \in ActiveSet
                                         \/ \E k \in Starters : su[k].sess = n
               /\ sess[n].child = "term" =>
                     \/ n \in ActiveSet
                     \/ \E c \in Chats : \E e \in ElementsOf(teardowns[c]) : e.sess = n
    <3>1. Watched(n)
      BY DEF SessInv, Coherent, ChildShape
    <3>2. sess[n].child # "none" /\ active[sess[n].chat] = n => n \in ActiveSet
      BY <3>1, NoneIsNone DEF Watched, ActiveSet
    <3>3. ASSUME sess[n].child = "term", active[sess[n].chat] # n
          PROVE  \E c \in Chats : \E e \in ElementsOf(teardowns[c]) : e.sess = n
      BY <3>1, <3>3, HeadElement DEF Watched, SessInv
    <3> QED
      BY <3>1, <3>2, <3>3 DEF Watched
  <2>3. NoOrphanChild
    BY <2>2 DEF NoOrphanChild
  <2> QED
    BY <2>1, <2>3, GaugeCounts DEF MapsAgree, SessInv, Coherent, Ledger
<1> QED
  BY <1>1, SessionsCohere, PTL

(* No step loses the notice of a replaced transcript before the user has   *)
(* it, nor the store of an earlier version before an exact copy of it.     *)
THEOREM NoStepForgets == Spec => NothingForgotten
<1>1. SessInv /\ KnownFile /\ [Next]_vars => NoticeKept /\ OldStoreKept
  BY SessNext, StoreFileNext
<1> QED
  BY <1>1, SessionsCohere, PTL DEF Spec, NothingForgotten

-----------------------------------------------------------------------------
(* Whose transcript a chat talks on. *)

(* A candidate is valid only as a private file in a private directory that *)
(* names the session meant.                                                *)
LEMMA ValidShape ==
    ASSUME NEW d \in Dirs, NEW f \in Files, NEW expected
    PROVE  Inspect(d, f, expected) = "valid" <=>
              DirVerdict(d, FALSE) = "private" /\ Private(f) /\ Names(f, expected)
<1>1. DirVerdict(d, FALSE) \in {"private", "missing", "unsafe", "unreadable"}
  BY DEF DirVerdict, Dirs
<1>2. CASE DirVerdict(d, FALSE) # "private"
  BY <1>1, <1>2 DEF Inspect
<1>3. CASE DirVerdict(d, FALSE) = "private" /\ f.kind = "absent"
  BY <1>3 DEF Inspect, Private
<1>4. CASE DirVerdict(d, FALSE) = "private" /\ f.kind # "absent" /\ ~Private(f)
  BY <1>4 DEF Inspect
<1>5. CASE DirVerdict(d, FALSE) = "private" /\ Private(f)
  <2>1. f.kind # "absent"
    BY <1>5 DEF Private
  <2>2. Inspect(d, f, expected) = IF Names(f, expected) THEN "valid" ELSE "invalid"
    BY <1>5, <2>1 DEF Inspect
  <2> QED
    BY <1>5, <2>2
<1> QED
  BY <1>2, <1>3, <1>4, <1>5

(* No startup opens a file that another could have put there.              *)
LEMMA OpensNothingForeign ==
    OpensForeign = {}
<1> SUFFICES ASSUME NEW f \in Usable
             PROVE  f \notin Foreign
  BY DEF OpensForeign
<1>1. PICK d \in Dirs : Inspect(d, f, "this") = "valid"
  BY DEF Usable, Openable, Locations
<1>2. f \in Files /\ Private(f) /\ Names(f, "this")
  BY <1>1, ValidShape DEF Usable
<1> QED
  BY <1>2 DEF Foreign, Private, Names, Nobody

(* Pi is believed only after the answer that names this very transcript.   *)
LEMMA BelievesProof ==
    BelievesUnproven = {}
<1> SUFFICES ASSUME NEW o \in Identifying
             PROVE  o \notin Unproven
  BY DEF BelievesUnproven
<1> QED
  BY DEF Identifying, Identified, Answers, Unproven

(* What may be written can be read again.                                  *)
LEMMA WritesReadable ==
    Unreadable = {}
<1> SUFFICES ASSUME NEW f \in Stores, MayWrite(f)
             PROVE  LoadedAs(Written(f)) = "current"
  BY DEF Unreadable
<1>1. PICK g : g = Written(f)
  OBVIOUS
<1>2. /\ g.path.kind = "file" /\ g.path.mine /\ g.path.mode = "0600" /\ ~g.big /\ g.text = "json"
      /\ g.shape = "versioned" /\ g.version /\ FALSE \notin g.parse
      /\ g.dir.kind = "dir" /\ g.dir.mine /\ g.dir.mode = "0700"
  BY <1>1 DEF Written, MayWrite
<1>3. DirVerdict(g.dir, FALSE) = "private"
  BY <1>2 DEF DirVerdict
<1>4. PrivateFile(g.path) /\ PrivateDir(g.dir, FALSE) /\ g.path.kind # "absent"
  BY <1>2, <1>3 DEF PrivateFile, PrivateDir
<1>5. LoadedAs(g) = "current"
  BY <1>2, <1>4 DEF LoadedAs
<1> QED
  BY <1>1, <1>5

(* A session of an old store is bound only to the one file it can mean.    *)
LEMMA BindsTheOne ==
    Misbound = {}
<1> SUFFICES ASSUME NEW E \in Evidence, Cutover("known", E) = "bound"
             PROVE  /\ Cardinality({e \in E : Claims(e)}) = 1
                    /\ \A e \in E : e.name = "this" /\ e.file.id # "other" => e.file \notin Foreign
  BY DEF Misbound
<1>1. IsFiniteSet(E) /\ E \subseteq Entries
  <2>1. CASE E = {}
    BY <2>1, FS_EmptySet
  <2>2. CASE E # {}
    <3>1. PICK p \in Entries \X Entries : E = {p[1], p[2]}
      BY <2>2 DEF Evidence
    <3>2. IsFiniteSet({p[1]})
      BY FS_Singleton
    <3>3. IsFiniteSet({p[1]} \union {p[2]})
      BY <3>2, FS_AddElement
    <3>4. E = {p[1]} \union {p[2]}
      BY <3>1
    <3> QED
      BY <3>1, <3>3, <3>4
  <2> QED
    BY <2>1, <2>2
<1>2. /\ IsFiniteSet(Matches(E)) /\ Cardinality(Matches(E)) \in Nat
      /\ Cardinality(Matches(E)) = 0 <=> Matches(E) = {}
  <2>1. Matches(E) \subseteq E
    BY DEF Matches
  <2>2. IsFiniteSet(Matches(E))
    BY <1>1, <2>1, FS_Subset
  <2> QED
    BY <2>2, FS_CardinalityType, FS_EmptySet
<1>3. Cardinality(Matches(E)) = 1 /\ Conflicts(E) = {}
  <2> DEFINE m == Cardinality(Matches(E))
  <2>1. CASE m > 1
    <3>1. Matches(E) # {} /\ m # 1
      BY <1>2, <2>1
    <3>2. Cutover("known", E) = "ambiguous"
      BY <2>1, <3>1 DEF Cutover
    <3> QED
      BY <3>2
  <2>2. CASE m = 1
    <3>1. Matches(E) # {} /\ ~(m > 1)
      BY <1>2, <2>2
    <3>2. Cutover("known", E) = IF Conflicts(E) = {} THEN "bound" ELSE "conflicting"
      BY <2>2, <3>1 DEF Cutover
    <3> QED
      BY <2>2, <3>2
  <2>3. CASE m = 0
    <3>1. Matches(E) = {} /\ ~(m > 1) /\ m # 1
      BY <1>2, <2>3
    <3>2. Cutover("known", E) = IF Conflicts(E) = {} THEN "missing" ELSE "conflicting"
      BY <3>1 DEF Cutover
    <3> QED
      BY <3>2
  <2>4. m > 1 \/ m = 1 \/ m = 0
    BY <1>2
  <2> QED
    BY <2>1, <2>2, <2>3, <2>4
<1> DEFINE d == [kind |-> "dir", mine |-> TRUE, mode |-> "0700"]
<1>4. d \in Dirs /\ DirVerdict(d, FALSE) = "private"
  BY DEF Dirs, DirVerdict
<1>5. ASSUME NEW e \in E
      PROVE  /\ e.file \in Files /\ e.file.kind # "absent" /\ e.file.mode = "0600"
             /\ e.file.place = "direct" /\ e.file.suffix
             /\ Valid(e) <=> Private(e.file) /\ Names(e.file, Nobody)
  <2>1. /\ e.file \in Files /\ e.file.kind # "absent" /\ e.file.mode = "0600"
        /\ e.file.place = "direct" /\ e.file.suffix
    BY <1>1 DEF Entries
  <2>2. Valid(e) <=> Private(e.file) /\ Names(e.file, Nobody)
    BY <1>4, <2>1, ValidShape DEF Valid
  <2> QED
    BY <2>1, <2>2
<1>6. ASSUME NEW e \in E, Claims(e)
      PROVE  Valid(e)
  <2>1. Private(e.file)
    BY <1>5, <1>6 DEF Claims, Private
  <2>2. ~Valid(e) => Inspect(d, e.file, Nobody) = "invalid"
    BY <1>4, <1>5, <2>1 DEF Inspect
  <2>3. ~Valid(e) => Shown(e) = "this"
    BY <1>6, <2>2 DEF Shown, Observed, Claims
  <2> QED
    BY <1>3, <2>3 DEF Conflicts
<1>7. {e \in E : Claims(e)} = Matches(E)
  BY <1>5, <1>6 DEF Matches, Claims, Private, Names
<1>8. ASSUME NEW e \in E, e.name = "this", e.file.id # "other"
      PROVE  e.file \notin Foreign
  <2>1. Valid(e)
    BY <1>3, <1>8 DEF Conflicts
  <2>2. e.file \in Files /\ Private(e.file) /\ Names(e.file, Nobody)
    BY <1>5, <2>1
  <2>3. e.file.id \in Ids
    BY <2>2 DEF Files
  <2> QED
    BY <1>8, <2>2, <2>3 DEF Foreign, Private, Names, Ids
<1> QED
  BY <1>3, <1>7, <1>8

(* A chat talks on a file of its own, of which Pi has said that it is the  *)
(* one; an old session is bound to the one file it can mean, and the store *)
(* that says so can be read again.                                         *)
THEOREM SessionsOpenOnlyOwn == Spec => []OpensOnlyOwn
<1>1. OpensOnlyOwn
  BY OpensNothingForeign, BelievesProof, WritesReadable, BindsTheOne DEF OpensOnlyOwn
<1> QED
  BY <1>1, PTL
=============================================================================
