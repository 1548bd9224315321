-------------------------- MODULE ConversationProofs --------------------------
(***************************************************************************)
(* Proofs about Conversation, for every number of messages, of requests in *)
(* flight and of faults, and every even cap of the history.                *)
(***************************************************************************)
EXTENDS Conversation, FiniteSetTheorems, SequenceTheorems, TLAPS

USE DEF FaultKinds

BusyRequest ==
  [at: Places \ {"idle"}, msg: Messages, history: Seq(Entries), summary: SUBSET Entries,
   due: SUBSET Contents, out: Seq(Pieces)]

(* A request is about a message that was posted.                           *)
PostedOK == \A r \in Requests : req[r].at # "idle" => kind[req[r].msg] # "none"

TypeInv == TypeOK /\ PostedOK

(* The steps of a turn before its reply is sent.                           *)
Works(r) ==
  \/ LoadSession(r) \/ LoadHistory(r) \/ Summarize(r) \/ AppendUser(r)
  \/ AppendAssistant(r) \/ ClearHistory(r) \/ CloseSession(r)

-----------------------------------------------------------------------------
(* What the steps do to requests *)

LEMMA FaultType ==
  ASSUME TypeOK, NEW k \in FaultKinds, Fault(k)
  PROVE  /\ faults' \in [FaultKinds -> Nat]
         /\ faults'[k] = faults[k] + 1
         /\ \A x \in FaultKinds \ {k} : faults'[x] = faults[x]
<1>1. faults' = [faults EXCEPT ![k] = @ + 1] /\ faults \in [FaultKinds -> Nat]
  BY DEF Fault, TypeOK
<1>2. QED
  BY <1>1

LEMMA BusyType ==
  ASSUME TypeOK, NEW r \in Requests, req[r].at # "idle"
  PROVE  /\ req[r] \in BusyRequest /\ req[r].msg \in Messages
         /\ req[r].history \in Seq(Entries) /\ req[r].summary \subseteq Entries
         /\ req[r].due \subseteq Contents /\ req[r].out \in Seq(Pieces)
<1>1. req[r] # Idle
  BY DEF Idle
<1>2. req[r] \in Request
  BY DEF TypeOK
<1>3. req[r] \in BusyRequest
  BY <1>1, <1>2 DEF Request, BusyRequest
<1>4. QED
  BY <1>3 DEF BusyRequest

(* One request moves, the others stay.                                     *)
LEMMA MoveType ==
  ASSUME TypeOK, NEW r \in Requests, NEW x \in Request, req' = [req EXCEPT ![r] = x]
  PROVE  /\ req' \in [Requests -> Request] /\ req'[r] = x
         /\ \A q \in Requests \ {r} : req'[q] = req[q]
BY DEF TypeOK

LEMMA WordsOf ==
  ASSUME NEW s \in Seq(Pieces)
  PROVE  /\ \A w : w \in Words(s) <=> \E i \in 1..Len(s) : w \in s[i].words
         /\ Words(s) \subseteq Contents
<1>1. \A i \in 1..Len(s) : s[i] \in Pieces
  BY ElementOfSeq
<1>2. \A w : w \in Words(s) <=> \E i \in 1..Len(s) : w \in s[i].words
  BY DEF Words, ToSet
<1>3. \A p \in Pieces : p.words \subseteq Contents
  BY DEF Pieces
<1>4. QED
  BY <1>1, <1>2, <1>3

LEMMA PieceType ==
  /\ \A w \in SUBSET Contents : /\ Text(w) \in Pieces /\ Link(w) \in Pieces
                                /\ Card(w) \in Pieces /\ Menu(w) \in Pieces
  /\ AllWords \cap Offers = {} /\ AllWords \cup Offers = Contents
  /\ \A w \in {{1}, {1, 3}, {2, 4}, {2}, AllWords, AllWords \cup MenuItems} : w \subseteq Contents
<1>1. \A w \in SUBSET Contents : /\ Text(w) \in Pieces /\ Link(w) \in Pieces
                                 /\ Card(w) \in Pieces /\ Menu(w) \in Pieces
  BY DEF Pieces, Forms, Text, Link, Card, Menu
<1>2. AllWords \cap Offers = {} /\ AllWords \cup Offers = Contents
  BY DEF AllWords, Offers, MenuItems, Contents
<1>3. \A w \in {{1}, {1, 3}, {2, 4}, {2}, AllWords, AllWords \cup MenuItems} : w \subseteq Contents
  BY DEF AllWords, Offers, MenuItems, Contents
<1>4. QED
  BY <1>1, <1>2, <1>3

LEMMA PlanType ==
  /\ \A out \in Plans : out \in Seq(Pieces) /\ Words(out) \subseteq Contents
  /\ Nudge \in Seq(Pieces) /\ Words(Nudge) = AllWords
  /\ Bubbles \in Seq(Pieces) /\ Words(Bubbles) = AllWords /\ Len(Bubbles) = 2
  /\ <<>> \in Seq(Pieces) /\ <<>> \in Seq(Entries)
<1>1. <<>> \in Seq(Pieces) /\ <<>> \in Seq(Entries)
  BY EmptySeq
<1>2. \A p, q \in Pieces : <<p>> \in Seq(Pieces) /\ <<p, q>> \in Seq(Pieces)
  OBVIOUS
<1>3. Bubbles \in Seq(Pieces) /\ Nudge \in Seq(Pieces)
  BY <1>2, PieceType DEF Bubbles, Nudge
<1>4. ASSUME NEW out \in Plans PROVE out \in Seq(Pieces)
  <2>1. <<Card({1, 3}), Card({2, 4})>> \in Seq(Pieces)
    BY <1>2, PieceType
  <2>2. <<Link({1}), Card({2, 4})>> \in Seq(Pieces)
    BY <1>2, PieceType
  <2>3. <<Menu(AllWords)>> \in Seq(Pieces) /\ <<Menu(AllWords \cup MenuItems)>> \in Seq(Pieces)
    BY <1>2, PieceType
  <2>4. QED
    BY <1>3, <1>4, <2>1, <2>2, <2>3 DEF Plans
<1>5. Words(Bubbles) = AllWords /\ Words(Nudge) = AllWords /\ Len(Bubbles) = 2
  BY DEF Bubbles, Nudge, Text, AllWords, Words, ToSet
<1>6. QED
  BY <1>1, <1>3, <1>4, <1>5, WordsOf

LEMMA WebhookEffect ==
  ASSUME TypeOK, NEW r \in Requests, NEW m \in Messages, Webhook(r, m)
  PROVE  /\ req' \in [Requests -> Request]
         /\ req'[r].at = "mark" /\ req'[r].msg = m
         /\ ~Inside(r) /\ ~Inside(r)'
         /\ \A q \in Requests \ {r} : req'[q] = req[q]
<1> DEFINE x == [at |-> "mark", msg |-> m, history |-> <<>>, summary |-> {},
              due |-> {}, out |-> <<>>]
<1>1. x \in Request
  BY PlanType DEF Request, Places
<1>2. req' = [req EXCEPT ![r] = x]
  BY DEF Webhook
<1>3. req[r].at = "idle"
  BY DEF Webhook, At
<1>4. QED
  BY <1>1, <1>2, <1>3, MoveType DEF Inside

LEMMA BeginEffect ==
  ASSUME TypeInv, NEW r \in Requests, At(r, "mark"), Begin(r)
  PROVE  /\ req' \in [Requests -> Request]
         /\ req[r].msg \in Messages
         /\ ~Inside(r) /\ req'[r].at \in {"session", "post", "idle"}
         /\ IF kind[req[r].msg] = "voice"
            THEN req'[r].at = "idle" /\ acked' = acked \cup {req[r].msg}
            ELSE req'[r].at # "idle" /\ req'[r].msg = req[r].msg /\ acked' = acked
         /\ req'[r].at = "session" <=> kind[req[r].msg] \in {"talk", "short", "bye"}
         /\ req'[r].at = "post" => req'[r].due \subseteq Words(req'[r].out)
         /\ \A q \in Requests \ {r} : req'[q] = req[q]
<1> DEFINE m == req[r].msg
           s == [req[r] EXCEPT !.at = "session"]
           p == [req[r] EXCEPT !.at = "post", !.out = Nudge, !.due = AllWords]
<1>0. req[r].at = "mark"
  BY DEF At
<1>1. m \in Messages /\ req[r] \in BusyRequest
  BY <1>0, BusyType DEF TypeInv
<1>2. kind[m] \in Kinds
  BY <1>0, <1>1 DEF TypeInv, TypeOK, PostedOK
<1>3. s \in BusyRequest /\ s.at = "session" /\ s.msg = m
  BY <1>1 DEF BusyRequest, Places
<1>4. p \in BusyRequest /\ p.at = "post" /\ p.msg = m /\ p.out = Nudge /\ p.due = AllWords
  BY <1>1, PlanType, PieceType DEF BusyRequest, Places
<1>5. CASE kind[m] \in {"talk", "short", "bye"}
  <2>1. req' = [req EXCEPT ![r] = s] /\ acked' = acked
    BY <1>5 DEF Begin
  <2>2. s \in Request
    BY <1>3 DEF Request, BusyRequest
  <2>3. QED
    BY <1>0, <1>1, <1>3, <1>5, <2>1, <2>2, MoveType DEF TypeInv, Inside
<1>6. CASE kind[m] = "image"
  <2>1. req' = [req EXCEPT ![r] = p] /\ acked' = acked
    BY <1>6 DEF Begin
  <2>2. p \in Request
    BY <1>4 DEF Request, BusyRequest
  <2>3. QED
    BY <1>0, <1>1, <1>4, <1>6, <2>1, <2>2, MoveType, PlanType DEF TypeInv, Inside
<1>7. CASE kind[m] = "voice"
  <2>1. req' = [req EXCEPT ![r] = Idle] /\ acked' = acked \cup {m}
    BY <1>7 DEF Begin
  <2>2. Idle \in Request /\ Idle.at = "idle"
    BY DEF Request, Idle
  <2>3. QED
    BY <1>0, <1>1, <1>7, <2>1, <2>2, MoveType DEF TypeInv, Inside
<1>8. QED
  BY <1>2, <1>5, <1>6, <1>7 DEF Kinds

LEMMA FinishEffect ==
  ASSUME TypeOK, NEW r \in Requests, Finish(r)
  PROVE  /\ req' \in [Requests -> Request]
         /\ req'[r].at = "idle" /\ ~Inside(r)'
         /\ \A q \in Requests \ {r} : req'[q] = req[q]
<1>1. Idle \in Request /\ Idle.at = "idle"
  BY DEF Request, Idle
<1>2. QED
  BY <1>1, MoveType DEF Finish, Inside

LEMMA WorksEffect ==
  ASSUME TypeOK, NEW r \in Requests, Works(r)
  PROVE  /\ req' \in [Requests -> Request]
         /\ Inside(r) /\ Inside(r)' /\ req[r].at # "post"
         /\ req[r].msg \in Messages /\ req'[r].msg = req[r].msg
         /\ req'[r].at = "post" => req'[r].due \subseteq Words(req'[r].out)
         /\ \A q \in Requests \ {r} : req'[q] = req[q]
         /\ UNCHANGED <<webhook, faults>>
<1>1. /\ req[r].at \in {"session", "history", "summarize", "user", "assistant", "clear", "close"}
      /\ UNCHANGED <<webhook, faults>>
  BY DEF Works, LoadSession, LoadHistory, Summarize, AppendUser, AppendAssistant,
         ClearHistory, CloseSession, At, webhook
<1>2. req[r] \in BusyRequest /\ req[r].msg \in Messages
  BY <1>1, BusyType
<1>3. \E x \in BusyRequest : /\ req' = [req EXCEPT ![r] = x]
                             /\ x.msg = req[r].msg /\ x.at \notin {"idle", "mark"}
                             /\ x.at = "post" => x.due \subseteq Words(x.out)
  <2> DEFINE Becomes(x) == /\ req' = [req EXCEPT ![r] = x] /\ x \in BusyRequest
                           /\ x.msg = req[r].msg /\ x.at \notin {"idle", "mark"}
                           /\ x.at = "post" => x.due \subseteq Words(x.out)
  <2>1. CASE LoadSession(r)
    <3>1. Becomes([req[r] EXCEPT !.at = "history", !.summary = summary])
      BY <1>2, <2>1 DEF LoadSession, BusyRequest, Places, TypeOK
    <3>2. QED
      BY <3>1
  <2>2. ASSUME Loaded(r) PROVE \E x : Becomes(x)
    <3>1. Becomes([req[r] EXCEPT !.at = "user", !.history = <<>>, !.summary = {}])
      BY <1>2, <2>2, PlanType DEF Loaded, BusyRequest, Places
    <3>2. QED
      BY <3>1
  <2>3. CASE LoadHistory(r)
    <3>1. CASE req' = [req EXCEPT ![r].history = history, ![r].at = "summarize"]
      <4>1. Becomes([req[r] EXCEPT !.history = history, !.at = "summarize"])
        BY <1>2, <3>1 DEF BusyRequest, Places, TypeOK
      <4>2. QED
        BY <4>1
    <3>2. QED
      BY <2>2, <2>3, <3>1 DEF LoadHistory
  <2>4. CASE Summarize(r)
    BY <2>2, <2>4 DEF Summarize
  <2>5. ASSUME Deliver(r) PROVE \E x : Becomes(x)
    <3>1. PICK out \in Plans :
            req' = [req EXCEPT ![r].at = "post", ![r].due = Words(out), ![r].out = out]
      BY <2>5 DEF Deliver
    <3>2. out \in Seq(Pieces) /\ Words(out) \subseteq Contents
      BY PlanType
    <3>3. Becomes([req[r] EXCEPT !.at = "post", !.due = Words(out), !.out = out])
      BY <1>2, <3>1, <3>2 DEF BusyRequest, Places
    <3>4. QED
      BY <3>3
  <2>6. ASSUME NEW p \in {"assistant", "clear", "close"}, Goto(r, p) PROVE \E x : Becomes(x)
    <3>1. Becomes([req[r] EXCEPT !.at = p])
      BY <1>2, <2>6 DEF Goto, BusyRequest, Places
    <3>2. QED
      BY <3>1
  <2>7. CASE AppendUser(r) \/ AppendAssistant(r) \/ ClearHistory(r) \/ CloseSession(r)
    BY <2>5, <2>6, <2>7 DEF AppendUser, AppendAssistant, ClearHistory, CloseSession
  <2>8. QED
    BY <2>1, <2>3, <2>4, <2>7 DEF Works
<1>4. PICK x \in BusyRequest : /\ req' = [req EXCEPT ![r] = x]
                               /\ x.msg = req[r].msg /\ x.at \notin {"idle", "mark"}
                               /\ x.at = "post" => x.due \subseteq Words(x.out)
  BY <1>3
<1>5. x \in Request
  BY DEF Request, BusyRequest
<1>6. QED
  BY <1>1, <1>2, <1>4, <1>5, MoveType DEF Inside

-----------------------------------------------------------------------------
(* What is sent, and what is kept *)

LEMMA InsteadType ==
  ASSUME NEW p \in Pieces
  PROVE  /\ Instead(p) \in Seq(Pieces)
         /\ p.words \subseteq Words(Instead(p)) \cup Cost(p)
         /\ Cost(p) \subseteq Contents
<1>1. p.words \subseteq Contents /\ p.form \in Forms
  BY DEF Pieces
<1>2. Cost(p) \subseteq Contents
  BY <1>1 DEF Cost
<1>3. ASSUME NEW v \in SUBSET Contents
      PROVE  <<Text(v)>> \in Seq(Pieces) /\ v \subseteq Words(<<Text(v)>>)
  <2>1. Text(v) \in Pieces /\ Text(v).words = v
    BY PieceType DEF Text
  <2>2. /\ <<Text(v)>> \in Seq(Pieces) /\ Len(<<Text(v)>>) = 1 /\ <<Text(v)>>[1] = Text(v)
    BY <2>1
  <2>3. \A x \in v : x \in Words(<<Text(v)>>)
    <3>1. 1 \in 1..Len(<<Text(v)>>)
      BY <2>2
    <3>2. QED
      BY <2>1, <2>2, <3>1, WordsOf
  <2>4. QED
    BY <2>2, <2>3
<1>4. CASE p.form = "text"
  BY <1>1, <1>2, <1>4, PlanType DEF Instead, Cost
<1>5. CASE p.form = "link"
  BY <1>1, <1>2, <1>3, <1>5 DEF Instead
<1>6. CASE p.form = "card"
  <2>1. p.words \ Offers \subseteq Contents
    BY <1>1
  <2>2. Instead(p) = <<Text(p.words \ Offers)>> /\ Cost(p) = p.words \cap Offers
    BY <1>6 DEF Instead, Cost
  <2>3. QED
    BY <1>2, <1>3, <2>1, <2>2
<1>7. CASE p.form = "menu"
  <2>1. Instead(p) = Bubbles /\ Cost(p) = p.words \cap Offers
    BY <1>7 DEF Instead, Cost
  <2>2. QED
    BY <1>1, <1>2, <2>1, PlanType, PieceType
<1>8. QED
  BY <1>1, <1>4, <1>5, <1>6, <1>7 DEF Forms

(* The n-th piece refused: nothing is lost but its cost.                   *)
LEMMA RestType ==
  ASSUME NEW out \in Seq(Pieces), NEW n \in DOMAIN out,
         NEW rest, rest = Instead(out[n]) \o SubSeq(out, n + 1, Len(out))
  PROVE  /\ rest \in Seq(Pieces)
         /\ SubSeq(out, 1, n - 1) \in Seq(Pieces)
         /\ Words(out) \subseteq Words(SubSeq(out, 1, n - 1)) \cup Words(rest) \cup Cost(out[n])
         /\ Cost(out[n]) \subseteq Contents
<1> DEFINE a == SubSeq(out, 1, n - 1)
           b == SubSeq(out, n + 1, Len(out))
           p == Instead(out[n])
<1>1. Len(out) \in Nat /\ n \in 1..Len(out)
  BY EmptySeq
<1>2. out[n] \in Pieces
  BY <1>1, ElementOfSeq
<1>3. a \in Seq(Pieces) /\ Len(a) = n - 1 /\ \A i \in 1..(n - 1) : a[i] = out[i]
  BY <1>1
<1>4. /\ b \in Seq(Pieces) /\ Len(b) = Len(out) - n
      /\ \A i \in 1..(Len(out) - n) : b[i] = out[n + i]
  BY SMTT(30), <1>1
<1>5. p \in Seq(Pieces) /\ Len(p) \in Nat
  BY <1>2, InsteadType, EmptySeq
<1>6. /\ rest \in Seq(Pieces) /\ Len(rest) = Len(p) + Len(b)
      /\ \A i \in 1..Len(p) : rest[i] = p[i]
      /\ \A i \in 1..Len(b) : rest[Len(p) + i] = b[i]
  BY SMTT(30), <1>4, <1>5
<1>7. ASSUME NEW w, w \in Words(out) PROVE w \in Words(a) \cup Words(rest) \cup Cost(out[n])
  <2>1. PICK i \in 1..Len(out) : w \in out[i].words
    BY <1>7, WordsOf
  <2>2. CASE i < n
    <3>1. i \in 1..Len(a) /\ a[i] = out[i]
      BY SMTT(30), <1>1, <1>3, <2>2
    <3>2. QED
      BY <1>3, <2>1, <3>1, WordsOf
  <2>3. CASE i = n
    <3>1. w \in Words(p) \/ w \in Cost(out[n])
      BY <1>2, <2>1, <2>3, InsteadType
    <3> SUFFICES ASSUME w \in Words(p) PROVE w \in Words(rest)
      BY <3>1
    <3>2. PICK k \in 1..Len(p) : w \in p[k].words
      BY <1>5, WordsOf
    <3>3. k \in 1..Len(rest) /\ rest[k] = p[k]
      BY SMTT(30), <1>1, <1>4, <1>5, <1>6
    <3>4. QED
      BY <1>6, <3>2, <3>3, WordsOf
  <2>4. CASE i > n
    <3> HIDE DEF b, p
    <3>1. PICK k \in 1..(Len(out) - n) : n + k = i
      <4>1. i - n \in 1..(Len(out) - n) /\ n + (i - n) = i
        BY <1>1, <2>4
      <4>2. QED
        BY <4>1
    <3>2. b[k] = out[i] /\ k \in 1..Len(b)
      BY <1>4, <3>1
    <3>3. Len(p) + k \in 1..Len(rest)
      <4>1. Len(b) \in Nat /\ Len(p) \in Nat /\ Len(rest) = Len(p) + Len(b) /\ k \in 1..Len(b)
        BY <1>1, <1>4, <1>5, <1>6, <3>2
      <4>2. QED
        BY <4>1
    <3>4. rest[Len(p) + k] = out[i]
      BY <1>6, <3>2
    <3>5. QED
      BY <1>6, <2>1, <3>3, <3>4, WordsOf
  <2>5. QED
    BY <1>1, <2>2, <2>3, <2>4
<1>8. QED
  BY <1>2, <1>3, <1>6, <1>7, InsteadType

LEMMA NewestType ==
  ASSUME NEW s \in Seq(Entries), NEW e \in Entries, Len(s) <= Cap,
         NEW h, h = Newest(Append(s, e))
  PROVE  /\ h \in Seq(Entries)
         /\ Len(h) = IF Len(s) < Cap THEN Len(s) + 1 ELSE Cap
         /\ ToSet(h) \subseteq ToSet(s) \cup {e}
         /\ e \in ToSet(h)
         /\ Len(s) < Cap => ToSet(s) \subseteq ToSet(h)
         /\ Len(s) = Cap => ToSet(s) \subseteq ToSet(h) \cup {s[1]}
         /\ Len(s) = Cap /\ Cap > 1 => h[1] \in ToSet(s)
<1> DEFINE t == Append(s, e)
<1>1. Len(s) \in Nat /\ Cap \in Nat \ {0}
  BY CapAssumption, EmptySeq
<1>2. /\ t \in Seq(Entries) /\ Len(t) = Len(s) + 1
      /\ \A i \in 1..Len(s) : t[i] = s[i]
      /\ t[Len(s) + 1] = e
  BY <1>1
<1>3. \A q \in Seq(Entries) : \A x : x \in ToSet(q) <=> \E i \in 1..Len(q) : q[i] = x
  BY DEF ToSet
<1>4. CASE Len(s) < Cap
  <2>1. h = SubSeq(t, 1, Len(t))
    <3>1. ~(Len(t) > Cap)
      BY <1>1, <1>2, <1>4
    <3>2. QED
      BY <3>1 DEF Newest
  <2>2. h \in Seq(Entries) /\ Len(h) = Len(t) /\ \A i \in 1..Len(t) : h[i] = t[i]
    BY <1>1, <1>2, <2>1
  <2>3. \A i \in 1..(Len(s) + 1) : i \in 1..Len(s) \/ i = Len(s) + 1
    BY <1>1
  <2>4. ToSet(h) \subseteq ToSet(s) \cup {e}
    BY <1>2, <1>3, <2>2, <2>3
  <2>5. ToSet(s) \subseteq ToSet(h)
    <3>1. \A i \in 1..Len(s) : i \in 1..Len(h) /\ h[i] = s[i]
      BY <1>1, <1>2, <2>2
    <3>2. QED
      BY <1>3, <2>2, <3>1
  <2>6. e \in ToSet(h)
    <3>1. Len(s) + 1 \in 1..Len(h) /\ h[Len(s) + 1] = e
      BY <1>1, <1>2, <2>2
    <3>2. QED
      BY <1>3, <2>2, <3>1
  <2>7. QED
    BY <1>1, <1>2, <1>4, <2>2, <2>4, <2>5, <2>6
<1>5. CASE Len(s) = Cap
  <2>1. h = SubSeq(t, 2, Cap + 1)
    BY <1>1, <1>2, <1>5 DEF Newest
  <2>2. h \in Seq(Entries) /\ Len(h) = Cap /\ \A i \in 1..Cap : h[i] = t[i + 1]
    BY <1>1, <1>2, <1>5, <2>1
  <2>3. ToSet(h) \subseteq ToSet(s) \cup {e}
    <3>1. \A i \in 1..Cap : i + 1 \in 1..Len(s) \/ i + 1 = Len(s) + 1
      BY <1>1, <1>5
    <3>2. QED
      BY <1>2, <1>3, <2>2, <3>1
  <2>4. ToSet(s) \subseteq ToSet(h) \cup {s[1]}
    <3> SUFFICES ASSUME NEW i \in 1..Len(s), i # 1 PROVE s[i] \in ToSet(h)
      BY <1>3
    <3>1. i - 1 \in 1..Cap /\ i - 1 + 1 = i
      BY <1>1, <1>5
    <3>2. h[i - 1] = s[i]
      BY <1>2, <2>2, <3>1
    <3>3. QED
      BY <1>3, <2>2, <3>1, <3>2
  <2>5. e \in ToSet(h)
    <3>1. Cap \in 1..Len(h) /\ h[Cap] = e
      BY <1>1, <1>2, <1>5, <2>2
    <3>2. QED
      BY <1>3, <2>2, <3>1
  <2>6. Cap > 1 => h[1] \in ToSet(s)
    <3> SUFFICES ASSUME Cap > 1 PROVE h[1] \in ToSet(s)
      OBVIOUS
    <3>1. 1 \in 1..Cap /\ 1 + 1 = 2 /\ 2 \in 1..Len(s)
      BY <1>1, <1>5
    <3>2. h[1] = s[2]
      BY <1>2, <2>2, <3>1
    <3>3. QED
      BY <1>3, <3>1, <3>2
  <2>7. QED
    BY <1>5, <2>2, <2>3, <2>4, <2>5, <2>6
<1>6. QED
  BY <1>1, <1>4, <1>5

-----------------------------------------------------------------------------
(* Types *)

LEMMA TypeInit == Init => TypeInv
<1> SUFFICES ASSUME Init PROVE TypeInv
  OBVIOUS
<1>1. <<>> \in Seq(Entries) /\ Len(<<>>) = 0
  BY EmptySeq
<1>2. Idle \in Request /\ Idle.at = "idle"
  BY DEF Request, Idle
<1>3. TypeOK
  <2>1. history \in Seq(Entries) /\ Len(history) <= Cap
    BY <1>1, CapAssumption DEF Init
  <2>2. req \in [Requests -> Request]
    BY <1>2 DEF Init
  <2>3. QED
    BY <2>1, <2>2 DEF Init, TypeOK
<1>4. PostedOK
  BY <1>2 DEF Init, PostedOK
<1>5. QED
  BY <1>3, <1>4 DEF TypeInv

(* What a request that is refused a piece does with the rest.              *)
LEMMA RefusedEffect ==
  ASSUME TypeOK, NEW r \in Requests, PostRefused(r)
  PROVE  /\ req[r].at = "post" /\ req[r].msg \in Messages
         /\ Fault("meta")
         /\ req' \in [Requests -> Request]
         /\ \A q \in Requests \ {r} : req'[q] = req[q]
         /\ \E left, c \in SUBSET Contents, rest \in Seq(Pieces) :
              /\ cost' = [cost EXCEPT ![req[r].msg] = @ \cup c]
              /\ req[r].due \subseteq Words(req[r].out) \cup cost[req[r].msg] =>
                   left \subseteq Words(rest) \cup c \cup cost[req[r].msg]
              /\ \/ Ack(r, left) /\ rest = <<>>
                 \/ /\ req'[r].at = "post" /\ req'[r].msg = req[r].msg
                    /\ req'[r].out = rest /\ req'[r].due = left
                    /\ UNCHANGED <<replies, lost, acked>>
<1> DEFINE out == req[r].out
           gone(n) == SubSeq(out, 1, n - 1)
           left(n) == req[r].due \ Words(gone(n))
           rest(n) == Instead(out[n]) \o SubSeq(out, n + 1, Len(out))
<1>1. req[r].at = "post" /\ Fault("meta")
  BY DEF PostRefused, At
<1>2. /\ req[r] \in BusyRequest /\ req[r].msg \in Messages /\ out \in Seq(Pieces)
      /\ req[r].due \subseteq Contents
  BY <1>1, BusyType
<1>3. PICK n \in DOMAIN out :
        /\ cost' = [cost EXCEPT ![req[r].msg] = @ \cup Cost(out[n])]
        /\ IF rest(n) = <<>>
           THEN Ack(r, left(n))
           ELSE /\ req' = [req EXCEPT ![r].out = rest(n), ![r].due = left(n)]
                /\ UNCHANGED <<replies, lost, acked>>
  BY DEF PostRefused
<1>4. /\ rest(n) \in Seq(Pieces)
      /\ Words(out) \subseteq Words(gone(n)) \cup Words(rest(n)) \cup Cost(out[n])
      /\ Cost(out[n]) \in SUBSET Contents
  BY <1>2, RestType
<1>5. left(n) \in SUBSET Contents
  BY <1>2
<1>6. req[r].due \subseteq Words(out) \cup cost[req[r].msg] =>
        left(n) \subseteq Words(rest(n)) \cup Cost(out[n]) \cup cost[req[r].msg]
  BY <1>4
<1> HIDE DEF left, rest, gone
<1>7. CASE rest(n) = <<>>
  <2>1. Ack(r, left(n))
    BY <1>3, <1>7
  <2>2. /\ req' \in [Requests -> Request]
        /\ \A q \in Requests \ {r} : req'[q] = req[q]
    BY <2>1, FinishEffect DEF Ack
  <2>3. QED
    BY <1>1, <1>2, <1>3, <1>4, <1>5, <1>6, <1>7, <2>1, <2>2
<1>8. CASE rest(n) # <<>>
  <2> DEFINE x == [req[r] EXCEPT !.out = rest(n), !.due = left(n)]
  <2>1. req' = [req EXCEPT ![r] = x] /\ UNCHANGED <<replies, lost, acked>>
    BY <1>3, <1>8
  <2>2. /\ x \in BusyRequest /\ x.at = "post" /\ x.msg = req[r].msg
        /\ x.out = rest(n) /\ x.due = left(n)
    BY <1>1, <1>2, <1>4, <1>5 DEF BusyRequest
  <2>3. x \in Request
    BY <2>2 DEF Request, BusyRequest
  <2>4. /\ req' \in [Requests -> Request] /\ req'[r] = x
        /\ \A q \in Requests \ {r} : req'[q] = req[q]
    BY <2>1, <2>3, MoveType
  <2>5. /\ req'[r].at = "post" /\ req'[r].msg = req[r].msg
        /\ req'[r].out = rest(n) /\ req'[r].due = left(n)
    BY <2>2, <2>4
  <2> HIDE DEF x
  <2>6. QED
    BY <1>1, <1>2, <1>3, <1>4, <1>5, <1>6, <2>1, <2>4, <2>5
<1>9. QED
  BY <1>7, <1>8

LEMMA AckType ==
  ASSUME TypeOK, NEW r \in Requests, req[r].at = "post",
         NEW left \in SUBSET Contents, Ack(r, left)
  PROVE  /\ req' \in [Requests -> Request] /\ req'[r].at = "idle"
         /\ \A q \in Requests \ {r} : req'[q] = req[q]
         /\ req[r].msg \in Messages
         /\ replies' \in [Messages -> Nat] /\ acked' \subseteq Messages
         /\ lost' \in [Messages -> SUBSET Contents]
<1>1. req[r].msg \in Messages
  BY BusyType
<1>2. replies' = [replies EXCEPT ![req[r].msg] = @ + 1] /\ replies \in [Messages -> Nat]
  BY DEF Ack, TypeOK
<1>3. replies' \in [Messages -> Nat]
  BY <1>1, <1>2
<1>4. acked' \subseteq Messages
  BY <1>1 DEF Ack, TypeOK
<1>5. lost' \in [Messages -> SUBSET Contents]
  BY <1>1 DEF Ack, TypeOK
<1>6. QED
  BY <1>1, <1>3, <1>4, <1>5, FinishEffect DEF Ack

LEMMA TypeStep ==
  ASSUME TypeInv, [Next]_vars
  PROVE  TypeInv'
<1> USE DEF TypeInv
<1>1. ASSUME NEW r \in Requests, NEW m \in Messages, Receive(r, m) \/ Retry(r, m) PROVE TypeInv'
  <2>1. /\ Webhook(r, m)
        /\ \/ UNCHANGED kind /\ kind[m] # "none"
           \/ \E k \in Kinds : kind' = [kind EXCEPT ![m] = k]
    BY <1>1 DEF Receive, Retry
  <2>2. kind' \in [Messages -> Kinds \cup {"none"}]
    BY <2>1 DEF TypeOK
  <2>3. kind'[m] # "none" /\ \A x \in Messages : kind[x] # "none" => kind'[x] # "none"
    BY <2>1 DEF TypeOK, Kinds
  <2>4. /\ req' \in [Requests -> Request] /\ req'[r].msg = m
        /\ \A q \in Requests \ {r} : req'[q] = req[q]
    BY <2>1, WebhookEffect
  <2>5. TypeOK'
    BY <2>1, <2>2, <2>4 DEF Webhook, TypeOK, memory, ghosts
  <2>6. PostedOK'
    BY <2>3, <2>4, BusyType DEF PostedOK
  <2>7. QED
    BY <2>5, <2>6
<1>2. ASSUME NEW r \in Requests, Mark(r) \/ MarkFails(r) PROVE TypeInv'
  <2>1. /\ At(r, "mark") /\ Begin(r)
        /\ \/ seen' = seen \cup {req[r].msg} /\ UNCHANGED faults
           \/ Fault("redis") /\ UNCHANGED seen
    BY <1>2 DEF Mark, MarkFails
  <2>2. /\ req' \in [Requests -> Request] /\ req[r].msg \in Messages
        /\ acked' \subseteq Messages
        /\ req'[r].at # "idle" => req'[r].msg = req[r].msg
        /\ \A q \in Requests \ {r} : req'[q] = req[q]
    BY <2>1, BeginEffect DEF TypeOK
  <2>3. faults' \in [FaultKinds -> Nat]
    BY <2>1, FaultType DEF TypeOK
  <2>4. overlapped' \in BOOLEAN
    BY <2>1 DEF Begin, TypeOK
  <2>5. TypeOK'
    BY <2>1, <2>2, <2>3, <2>4 DEF Begin, TypeOK, memory
  <2>6. PostedOK'
    BY <2>1, <2>2 DEF Begin, PostedOK, At
  <2>7. QED
    BY <2>5, <2>6
<1>3. ASSUME NEW r \in Requests, Duplicate(r) PROVE TypeInv'
  <2>1. Finish(r) /\ req[r].at = "mark" /\ acked' = acked \cup {req[r].msg}
    BY <1>3 DEF Duplicate, At
  <2>2. req[r].msg \in Messages
    BY <2>1, BusyType
  <2>3. /\ req' \in [Requests -> Request] /\ req'[r].at = "idle"
        /\ \A q \in Requests \ {r} : req'[q] = req[q]
    BY <2>1, FinishEffect
  <2>4. QED
    BY <1>3, <2>1, <2>2, <2>3 DEF Duplicate, TypeOK, PostedOK, memory, ghosts
<1>4. ASSUME NEW r \in Requests, Works(r) PROVE TypeInv'
  <2>1. /\ req' \in [Requests -> Request] /\ Inside(r)
        /\ req[r].msg \in Messages /\ req'[r].msg = req[r].msg
        /\ \A q \in Requests \ {r} : req'[q] = req[q]
        /\ UNCHANGED <<webhook, faults>>
    BY <1>4, WorksEffect
  <2>2. req[r].history \in Seq(Entries) /\ req[r].summary \subseteq Entries
    BY <2>1, BusyType DEF Inside
  <2>3. PostedOK'
    BY <2>1 DEF PostedOK, webhook, Inside
  <2>4. /\ history' \in Seq(Entries) /\ Len(history') <= Cap
        /\ said' \subseteq Entries /\ lapsed' \subseteq Entries
    <3>1. CASE AppendUser(r) \/ AppendAssistant(r)
      <4>1. PICK e \in Entries : Add(e)
        BY <2>1, <3>1 DEF AppendUser, AppendAssistant, Entries
      <4>2. Len(history) \in Nat /\ Cap \in Nat
        BY CapAssumption, EmptySeq DEF TypeOK
      <4>3. QED
        BY <4>1, <4>2, NewestType DEF Add, TypeOK
    <3>2. CASE ClearHistory(r)
      BY <3>2, EmptySeq, CapAssumption DEF ClearHistory
    <3>3. QED
      BY <1>4, <3>1, <3>2 DEF Works, LoadSession, LoadHistory, Summarize, CloseSession,
                              memory, TypeOK
  <2>5. summary' \subseteq Entries
    <3>1. CASE Summarize(r)
      <4>1. ToSet(req[r].history) \subseteq Entries
        BY <2>2, ElementOfSeq DEF ToSet
      <4>2. QED
        BY <2>2, <3>1, <4>1 DEF Summarize
    <3>2. QED
      BY <1>4, <3>1 DEF Works, LoadSession, LoadHistory, AppendUser, AppendAssistant,
                        ClearHistory, CloseSession, memory, TypeOK
  <2>6. torn' \in BOOLEAN /\ overlapped' \in BOOLEAN /\ crowded' \in BOOLEAN
    BY <1>4 DEF Works, LoadSession, LoadHistory, Summarize, AppendUser, AppendAssistant,
                ClearHistory, CloseSession, ghosts, TypeOK
  <2>7. TypeOK'
    BY <2>1, <2>4, <2>5, <2>6 DEF TypeOK, webhook
  <2>8. QED
    BY <2>3, <2>7
<1>5. ASSUME NEW r \in Requests, Post(r) PROVE TypeInv'
  <2>1. req[r].at = "post" /\ Ack(r, req[r].due \ Words(req[r].out))
    BY <1>5 DEF Post, At
  <2>2. req[r].due \ Words(req[r].out) \subseteq Contents
    BY <2>1, BusyType
  <2>3. /\ req' \in [Requests -> Request] /\ req'[r].at = "idle"
        /\ \A q \in Requests \ {r} : req'[q] = req[q]
        /\ replies' \in [Messages -> Nat] /\ acked' \subseteq Messages
        /\ lost' \in [Messages -> SUBSET Contents]
    BY <2>1, <2>2, AckType
  <2>4. TypeOK'
    BY <1>5, <2>3 DEF Post, TypeOK, memory, ghosts
  <2>5. PostedOK'
    BY <1>5, <2>3 DEF Post, PostedOK
  <2>6. QED
    BY <2>4, <2>5
<1>6. ASSUME NEW r \in Requests, PostRefused(r) PROVE TypeInv'
  <2>1. /\ req[r].at = "post" /\ req[r].msg \in Messages /\ Fault("meta")
        /\ req' \in [Requests -> Request]
        /\ \A q \in Requests \ {r} : req'[q] = req[q]
    BY <1>6, RefusedEffect
  <2>2. PICK left, c \in SUBSET Contents :
          /\ cost' = [cost EXCEPT ![req[r].msg] = @ \cup c]
          /\ \/ Ack(r, left)
             \/ /\ req'[r].at = "post" /\ req'[r].msg = req[r].msg
                /\ UNCHANGED <<replies, lost, acked>>
    BY <1>6, RefusedEffect
  <2>3. cost' \in [Messages -> SUBSET Contents]
    BY <2>1, <2>2 DEF TypeOK
  <2>4. /\ replies' \in [Messages -> Nat] /\ acked' \subseteq Messages
        /\ lost' \in [Messages -> SUBSET Contents]
    <3>1. CASE Ack(r, left)
      BY <2>1, <3>1, AckType
    <3>2. CASE UNCHANGED <<replies, lost, acked>>
      BY <3>2 DEF TypeOK
    <3>3. QED
      BY <2>2, <3>1, <3>2
  <2>5. faults' \in [FaultKinds -> Nat]
    BY <2>1, FaultType
  <2>6. TypeOK'
    BY <1>6, <2>1, <2>3, <2>4, <2>5 DEF PostRefused, TypeOK, memory, ghosts
  <2>7. req'[r].at # "idle" => req'[r].msg = req[r].msg
    BY <2>2, FinishEffect DEF Ack
  <2>8. PostedOK'
    BY <1>6, <2>1, <2>7 DEF PostRefused, PostedOK
  <2>9. QED
    BY <2>6, <2>8
<1>7. ASSUME NEW r \in Requests, Fail(r) PROVE TypeInv'
  <2>1. /\ req' \in [Requests -> Request] /\ req'[r].at = "idle"
        /\ \A q \in Requests \ {r} : req'[q] = req[q]
    BY <1>7, FinishEffect DEF Fail
  <2>2. faults' \in [FaultKinds -> Nat]
    BY <1>7, FaultType DEF Fail
  <2>3. QED
    BY <1>7, <2>1, <2>2 DEF Fail, TypeOK, PostedOK, webhook, memory, ghosts
<1>8. ASSUME NEW m \in Messages, ExpireSeen(m) PROVE TypeInv'
  <2>1. faults' \in [FaultKinds -> Nat]
    BY <1>8, FaultType DEF ExpireSeen
  <2>2. QED
    BY <1>8, <2>1 DEF ExpireSeen, TypeOK, PostedOK, memory, ghosts
<1>9. CASE LapseHistory
  <2>1. faults' \in [FaultKinds -> Nat]
    BY <1>9, FaultType DEF LapseHistory
  <2>2. history' \in Seq(Entries) /\ Len(history') <= Cap
    BY <1>9, EmptySeq, CapAssumption DEF LapseHistory
  <2>3. lapsed' \subseteq Entries
    <3>1. ToSet(history) \subseteq Entries
      BY ElementOfSeq DEF ToSet, TypeOK
    <3>2. QED
      BY <1>9, <3>1 DEF LapseHistory, TypeOK
  <2>4. torn' \in BOOLEAN
    BY <1>9 DEF LapseHistory, TypeOK
  <2>5. QED
    BY <1>9, <2>1, <2>2, <2>3, <2>4 DEF LapseHistory, TypeOK, PostedOK, webhook
<1>10. CASE UNCHANGED vars
  BY <1>10 DEF vars, webhook, memory, ghosts, TypeOK, PostedOK
<1>11. QED
  BY <1>1, <1>2, <1>3, <1>4, <1>5, <1>6, <1>7, <1>8, <1>9, <1>10 DEF Next, Step, Works

LEMMA TypeInvariant == Spec => []TypeInv
BY TypeInit, TypeStep, PTL DEF Spec

(* Requests, keys and counters keep their types, and the history its cap,  *)
(* whatever the turns of a conversation do side by side                    *)
(* (ConversationGateway.append).                                           *)
THEOREM TypeCorrect == Spec => []TypeOK
<1>1. TypeInv => TypeOK
  BY DEF TypeInv
<1>2. QED
  BY <1>1, TypeInvariant, PTL

-----------------------------------------------------------------------------
(* Answered once, and whole *)

(* The requests that work on an answer to the message.                     *)
Turns(m) == {r \in Requests : Inside(r) /\ req[r].msg = m}

Lapses == faults["redis"] + faults["expiry"]

(* What a message may still be answered: each of its turns may, and the    *)
(* next post of it, unless its key is there; a lost key allows one more.   *)
Potential(m) ==
  /\ IsFiniteSet(Turns(m))
  /\ replies[m] + Cardinality(Turns(m)) + (IF m \in seen THEN 0 ELSE 1) <= 1 + Lapses

PotentialInv == \A m \in Messages : Potential(m)

(* The messages no request will answer any more: a retry is a duplicate.   *)
Dropped == {m \in seen \cup acked : replies[m] = 0 /\ kind[m] # "voice" /\ Turns(m) = {}}

DroppedInv == IsFiniteSet(Dropped) /\ Cardinality(Dropped) <= faults["turn"]

(* What is lost of an answer, or is due and not to be sent any more, is    *)
(* what refusals may cost.                                                 *)
CostInv ==
  /\ \A m \in Messages : lost[m] \subseteq cost[m]
  /\ \A r \in Requests :
       req[r].at = "post" => req[r].due \subseteq Words(req[r].out) \cup cost[req[r].msg]

LEMMA TurnsSame ==
  ASSUME NEW r \in Requests, \A q \in Requests \ {r} : req'[q] = req[q],
         Inside(r) <=> Inside(r)', Inside(r) => req'[r].msg = req[r].msg
  PROVE  \A m : Turns(m)' = Turns(m)
BY DEF Turns, Inside

LEMMA TurnsEnter ==
  ASSUME NEW r \in Requests, \A q \in Requests \ {r} : req'[q] = req[q],
         ~Inside(r), Inside(r)', req'[r].msg = req[r].msg
  PROVE  \A m : IF m = req[r].msg
               THEN r \notin Turns(m) /\ Turns(m)' = Turns(m) \cup {r}
               ELSE Turns(m)' = Turns(m)
BY DEF Turns, Inside

LEMMA TurnsLeave ==
  ASSUME NEW r \in Requests, \A q \in Requests \ {r} : req'[q] = req[q],
         Inside(r), ~Inside(r)'
  PROVE  \A m : IF m = req[r].msg
               THEN r \in Turns(m) /\ Turns(m)' = Turns(m) \ {r}
               ELSE Turns(m)' = Turns(m)
BY DEF Turns, Inside

LEMMA LapsesStep ==
  ASSUME TypeOK, NEW k \in FaultKinds, Fault(k)
  PROVE  /\ Lapses \in Nat /\ Lapses' \in Nat
         /\ Lapses' = IF k \in {"redis", "expiry"} THEN Lapses + 1 ELSE Lapses
<1>1. /\ faults["redis"] \in Nat /\ faults["expiry"] \in Nat
      /\ faults'["redis"] = IF k = "redis" THEN faults["redis"] + 1 ELSE faults["redis"]
      /\ faults'["expiry"] = IF k = "expiry" THEN faults["expiry"] + 1 ELSE faults["expiry"]
  BY FaultType DEF TypeOK
<1>2. QED
  BY <1>1 DEF Lapses

LEMMA PotentialSame ==
  ASSUME TypeInv, NEW m \in Messages, Potential(m),
         Turns(m)' = Turns(m), replies'[m] = replies[m],
         Lapses' \in Nat, Lapses <= Lapses',
         m \in seen => m \in seen' \/ Lapses' = Lapses + 1
  PROVE  Potential(m)'
<1>1. Lapses \in Nat /\ replies[m] \in Nat /\ Cardinality(Turns(m)) \in Nat
  BY FS_CardinalityType DEF TypeInv, TypeOK, Lapses, Potential
<1>2. QED
  BY <1>1 DEF Potential

LEMMA PotentialEnter ==
  ASSUME TypeInv, NEW m \in Messages, Potential(m),
         NEW r, r \notin Turns(m), Turns(m)' = Turns(m) \cup {r}, replies'[m] = replies[m],
         \/ m \notin seen /\ m \in seen' /\ Lapses' = Lapses
         \/ seen' = seen /\ Lapses' = Lapses + 1
  PROVE  Potential(m)'
<1>1. Lapses \in Nat /\ replies[m] \in Nat
  BY DEF TypeInv, TypeOK, Lapses
<1>2. IsFiniteSet(Turns(m)) /\ Cardinality(Turns(m)) \in Nat
  BY FS_CardinalityType DEF Potential
<1>3. IsFiniteSet(Turns(m)') /\ Cardinality(Turns(m)') = Cardinality(Turns(m)) + 1
  BY <1>2, FS_AddElement
<1>4. QED
  BY <1>1, <1>2, <1>3 DEF Potential

LEMMA PotentialLeave ==
  ASSUME TypeInv, NEW m \in Messages, Potential(m),
         NEW r \in Turns(m), Turns(m)' = Turns(m) \ {r},
         replies'[m] = replies[m] \/ replies'[m] = replies[m] + 1,
         seen' = seen, Lapses' = Lapses
  PROVE  Potential(m)'
<1>1. Lapses \in Nat /\ replies[m] \in Nat
  BY DEF TypeInv, TypeOK, Lapses
<1>2. IsFiniteSet(Turns(m)) /\ Cardinality(Turns(m)) \in Nat
  BY FS_CardinalityType DEF Potential
<1>3. IsFiniteSet(Turns(m)') /\ Cardinality(Turns(m)') = Cardinality(Turns(m)) - 1
  BY <1>2, FS_RemoveElement
<1>4. QED
  BY <1>1, <1>2, <1>3 DEF Potential

LEMMA PotentialStep ==
  ASSUME TypeInv, PotentialInv, [Next]_vars
  PROVE  PotentialInv'
<1> SUFFICES ASSUME NEW m \in Messages PROVE Potential(m)'
  BY DEF PotentialInv
<1>0. Potential(m) /\ Lapses \in Nat /\ TypeOK
  BY DEF PotentialInv, TypeInv, TypeOK, Lapses
<1>1. ASSUME NEW r \in Requests, NEW n \in Messages, Receive(r, n) \/ Retry(r, n)
      PROVE  Potential(m)'
  <2>1. Webhook(r, n) /\ UNCHANGED <<seen, replies, faults>>
    BY <1>1 DEF Receive, Retry, Webhook
  <2>2. Turns(m)' = Turns(m)
    BY <1>0, <2>1, WebhookEffect, TurnsSame
  <2>3. QED
    BY <1>0, <2>1, <2>2, PotentialSame DEF Lapses
<1>2. ASSUME NEW r \in Requests, Mark(r) \/ MarkFails(r) PROVE Potential(m)'
  <2>1. /\ At(r, "mark") /\ Begin(r) /\ replies' = replies
        /\ \/ /\ req[r].msg \notin seen /\ seen' = seen \cup {req[r].msg}
              /\ Lapses' = Lapses
           \/ seen' = seen /\ Lapses' = Lapses + 1
    BY <1>0, <1>2, LapsesStep DEF Mark, MarkFails, Begin, Lapses
  <2>2. /\ ~Inside(r)
        /\ IF kind[req[r].msg] = "voice"
           THEN req'[r].at = "idle"
           ELSE req'[r].at \in {"session", "post"} /\ req'[r].msg = req[r].msg
        /\ \A q \in Requests \ {r} : req'[q] = req[q]
    BY <2>1, BeginEffect
  <2>3. CASE kind[req[r].msg] = "voice"
    <3>1. Turns(m)' = Turns(m)
      BY <2>2, <2>3, TurnsSame DEF Inside
    <3>2. QED
      BY <1>0, <2>1, <3>1, PotentialSame
  <2>4. CASE kind[req[r].msg] # "voice"
    <3>1. Inside(r)'
      BY <2>2, <2>4 DEF Inside
    <3>2. IF m = req[r].msg
          THEN r \notin Turns(m) /\ Turns(m)' = Turns(m) \cup {r}
          ELSE Turns(m)' = Turns(m)
      BY <2>2, <2>4, <3>1, TurnsEnter
    <3>3. CASE m = req[r].msg
      BY <1>0, <2>1, <3>2, <3>3, PotentialEnter
    <3>4. CASE m # req[r].msg
      BY <1>0, <2>1, <3>2, <3>4, PotentialSame
    <3>5. QED
      BY <3>3, <3>4
  <2>5. QED
    BY <2>3, <2>4
<1>3. ASSUME NEW r \in Requests, Duplicate(r) PROVE Potential(m)'
  <2>1. Finish(r) /\ ~Inside(r) /\ UNCHANGED <<seen, replies, faults>>
    BY <1>3 DEF Duplicate, At, Inside
  <2>2. Turns(m)' = Turns(m)
    BY <1>0, <2>1, FinishEffect, TurnsSame
  <2>3. QED
    BY <1>0, <2>1, <2>2, PotentialSame DEF Lapses
<1>4. ASSUME NEW r \in Requests, Works(r) PROVE Potential(m)'
  <2>1. Turns(m)' = Turns(m) /\ UNCHANGED <<seen, replies, faults>>
    BY <1>0, <1>4, WorksEffect, TurnsSame DEF webhook
  <2>2. QED
    BY <1>0, <2>1, PotentialSame DEF Lapses
<1>5. ASSUME NEW r \in Requests, Inside(r), Finish(r), seen' = seen, Lapses' = Lapses,
             \/ replies' = replies
             \/ replies' = [replies EXCEPT ![req[r].msg] = @ + 1]
      PROVE  Potential(m)'
  <2>1. IF m = req[r].msg
        THEN r \in Turns(m) /\ Turns(m)' = Turns(m) \ {r}
        ELSE Turns(m)' = Turns(m)
    BY <1>0, <1>5, FinishEffect, TurnsLeave
  <2>2. replies \in [Messages -> Nat]
    BY <1>0 DEF TypeOK
  <2>3. CASE m = req[r].msg
    <3>1. replies'[m] = replies[m] \/ replies'[m] = replies[m] + 1
      BY <1>5, <2>2, <2>3
    <3>2. QED
      BY <1>0, <1>5, <2>1, <2>3, <3>1, PotentialLeave
  <2>4. CASE m # req[r].msg
    <3>1. replies'[m] = replies[m]
      BY <1>5, <2>2, <2>4
    <3>2. QED
      BY <1>0, <1>5, <2>1, <2>4, <3>1, PotentialSame
  <2>5. QED
    BY <2>3, <2>4
<1>6. ASSUME NEW r \in Requests, Post(r) PROVE Potential(m)'
  BY <1>5, <1>6 DEF Post, Ack, At, Inside, Lapses
<1>7. ASSUME NEW r \in Requests, PostRefused(r) PROVE Potential(m)'
  <2>1. /\ req[r].at = "post" /\ Inside(r) /\ seen' = seen
        /\ Lapses' = Lapses
        /\ \A q \in Requests \ {r} : req'[q] = req[q]
    BY <1>0, <1>7, RefusedEffect, LapsesStep DEF PostRefused, Inside
  <2>2. ASSUME NEW left, Ack(r, left) PROVE Potential(m)'
    BY <1>5, <2>1, <2>2 DEF Ack
  <2>3. CASE req'[r].at = "post" /\ req'[r].msg = req[r].msg /\ replies' = replies
    <3>1. Turns(m)' = Turns(m)
      BY <2>1, <2>3, TurnsSame DEF Inside
    <3>2. QED
      BY <1>0, <2>1, <2>3, <3>1, PotentialSame
  <2>4. QED
    BY <1>0, <1>7, <2>2, <2>3, RefusedEffect
<1>8. ASSUME NEW r \in Requests, Fail(r) PROVE Potential(m)'
  <2>1. Lapses' = Lapses
    BY <1>0, <1>8, LapsesStep DEF Fail
  <2>2. QED
    BY <1>5, <1>8, <2>1 DEF Fail, webhook
<1>9. ASSUME NEW n \in Messages, ExpireSeen(n) PROVE Potential(m)'
  <2>1. Lapses' = Lapses + 1 /\ UNCHANGED <<replies, req>>
    BY <1>0, <1>9, LapsesStep DEF ExpireSeen
  <2>2. Turns(m)' = Turns(m)
    BY <2>1 DEF Turns, Inside
  <2>3. QED
    BY <1>0, <2>1, <2>2, PotentialSame
<1>10. CASE LapseHistory
  <2>1. Lapses' = Lapses /\ UNCHANGED <<seen, replies, req>>
    BY <1>0, <1>10, LapsesStep DEF LapseHistory, webhook
  <2>2. Turns(m)' = Turns(m)
    BY <2>1 DEF Turns, Inside
  <2>3. QED
    BY <1>0, <2>1, <2>2, PotentialSame
<1>11. CASE UNCHANGED vars
  BY <1>0, <1>11 DEF vars, webhook, Potential, Turns, Inside, Lapses
<1>12. QED
  BY <1>1, <1>2, <1>3, <1>4, <1>6, <1>7, <1>8, <1>9, <1>10, <1>11 DEF Next, Step, Works

(* A message is answered once, whatever Meta retries, plus once for every  *)
(* failed SET NX and every expired key (receive_webhook).                  *)
THEOREM AnsweredAtMostOnce == Spec => []AnsweredOnce
<1>1. Init => PotentialInv
  <2> SUFFICES ASSUME Init, NEW m \in Messages PROVE Potential(m)
    BY DEF PotentialInv
  <2>1. Turns(m) = {}
    BY DEF Init, Turns, Inside, Idle
  <2>2. QED
    BY <2>1, FS_EmptySet DEF Init, Potential, Lapses
<1>2. TypeInv /\ PotentialInv /\ [Next]_vars => PotentialInv'
  BY PotentialStep
<1>3. TypeInv /\ PotentialInv => AnsweredOnce
  <2> SUFFICES ASSUME TypeInv, PotentialInv, NEW m \in Messages
               PROVE  replies[m] <= 1 + faults["redis"] + faults["expiry"]
    BY DEF AnsweredOnce
  <2>1. Potential(m) /\ Cardinality(Turns(m)) \in Nat
    BY FS_CardinalityType DEF PotentialInv, Potential
  <2>2. replies[m] \in Nat /\ faults["redis"] \in Nat /\ faults["expiry"] \in Nat
    BY DEF TypeInv, TypeOK
  <2>3. QED
    BY <2>1, <2>2 DEF Potential, Lapses
<1>4. QED
  BY <1>1, <1>2, <1>3, TypeInvariant, PTL DEF Spec

LEMMA TurnFaults ==
  ASSUME TypeOK, NEW k \in FaultKinds, Fault(k)
  PROVE  faults'["turn"] = IF k = "turn" THEN faults["turn"] + 1 ELSE faults["turn"]
BY FaultType

LEMMA DroppedShrinks ==
  ASSUME DroppedInv, Dropped' \subseteq Dropped, faults'["turn"] = faults["turn"], TypeOK
  PROVE  DroppedInv'
<1>1. IsFiniteSet(Dropped') /\ Cardinality(Dropped') <= Cardinality(Dropped)
  BY FS_Subset DEF DroppedInv
<1>2. Cardinality(Dropped) \in Nat /\ Cardinality(Dropped') \in Nat /\ faults["turn"] \in Nat
  BY <1>1, FS_CardinalityType DEF DroppedInv, TypeOK
<1>3. QED
  BY <1>1, <1>2 DEF DroppedInv

LEMMA DroppedGrows ==
  ASSUME DroppedInv, NEW m, Dropped' \subseteq Dropped \cup {m}, faults'["turn"] = faults["turn"] + 1, TypeOK
  PROVE  DroppedInv'
<1>1. IsFiniteSet(Dropped) /\ Cardinality(Dropped) \in Nat /\ faults["turn"] \in Nat
  BY FS_CardinalityType DEF DroppedInv, TypeOK
<1>2. IsFiniteSet(Dropped \cup {m}) /\ Cardinality(Dropped \cup {m}) <= Cardinality(Dropped) + 1
  <2>1. /\ IsFiniteSet(Dropped \cup {m})
        /\ Cardinality(Dropped \cup {m}) = IF m \in Dropped THEN Cardinality(Dropped) ELSE Cardinality(Dropped) + 1
    BY <1>1, FS_AddElement
  <2>2. QED
    BY <1>1, <2>1
<1>3. /\ IsFiniteSet(Dropped') /\ Cardinality(Dropped') <= Cardinality(Dropped \cup {m})
      /\ Cardinality(Dropped') \in Nat /\ Cardinality(Dropped \cup {m}) \in Nat
  BY <1>2, FS_Subset, FS_CardinalityType
<1>4. QED
  BY <1>1, <1>2, <1>3 DEF DroppedInv

LEMMA DroppedStep ==
  ASSUME TypeInv, DroppedInv, [Next]_vars
  PROVE  DroppedInv'
<1>0. /\ TypeOK /\ seen \subseteq Messages /\ acked \subseteq Messages
      /\ replies \in [Messages -> Nat]
  BY DEF TypeInv, TypeOK
<1>1. ASSUME NEW r \in Requests, NEW n \in Messages, Receive(r, n) \/ Retry(r, n)
      PROVE  DroppedInv'
  <2>1. /\ Webhook(r, n) /\ UNCHANGED <<seen, acked, replies, faults>>
        /\ \/ UNCHANGED kind
           \/ kind[n] = "none" /\ \E k \in Kinds : kind' = [kind EXCEPT ![n] = k]
    BY <1>1 DEF Receive, Retry, Webhook
  <2>2. \A m : Turns(m)' = Turns(m)
    BY <1>0, <2>1, WebhookEffect, TurnsSame
  <2>3. \A m \in Messages : kind[m] = "voice" => kind'[m] = "voice"
    BY <2>1 DEF TypeInv, TypeOK
  <2>4. Dropped' \subseteq Dropped
    BY <1>0, <2>1, <2>2, <2>3 DEF Dropped
  <2>5. QED
    BY <1>0, <2>1, <2>4, DroppedShrinks
<1>2. ASSUME NEW r \in Requests, Mark(r) \/ MarkFails(r) PROVE DroppedInv'
  <2>1. /\ At(r, "mark") /\ Begin(r) /\ UNCHANGED <<replies, kind>>
        /\ seen' \subseteq seen \cup {req[r].msg}
        /\ faults'["turn"] = faults["turn"]
    BY <1>0, <1>2, TurnFaults DEF Mark, MarkFails, Begin
  <2>2. /\ ~Inside(r)
        /\ IF kind[req[r].msg] = "voice"
           THEN req'[r].at = "idle" /\ acked' = acked \cup {req[r].msg}
           ELSE /\ req'[r].at \in {"session", "post"} /\ req'[r].msg = req[r].msg
                /\ acked' = acked
        /\ \A q \in Requests \ {r} : req'[q] = req[q]
    BY <2>1, BeginEffect
  <2>3. CASE kind[req[r].msg] = "voice"
    <3>1. \A m : Turns(m)' = Turns(m)
      BY <2>2, <2>3, TurnsSame DEF Inside
    <3>2. Dropped' \subseteq Dropped
      BY <2>1, <2>2, <2>3, <3>1 DEF Dropped
    <3>3. QED
      BY <1>0, <2>1, <3>2, DroppedShrinks
  <2>4. CASE kind[req[r].msg] # "voice"
    <3>1. Inside(r)'
      BY <2>2, <2>4 DEF Inside
    <3>2. \A m : IF m = req[r].msg
                 THEN Turns(m)' = Turns(m) \cup {r}
                 ELSE Turns(m)' = Turns(m)
      BY <2>2, <2>4, <3>1, TurnsEnter
    <3>3. Dropped' \subseteq Dropped
      BY <2>1, <2>2, <2>4, <3>2 DEF Dropped
    <3>4. QED
      BY <1>0, <2>1, <3>3, DroppedShrinks
  <2>5. QED
    BY <2>3, <2>4
<1>3. ASSUME NEW r \in Requests, Duplicate(r) PROVE DroppedInv'
  <2>1. /\ Finish(r) /\ ~Inside(r) /\ UNCHANGED <<seen, replies, kind, faults>>
        /\ req[r].msg \in seen /\ acked' = acked \cup {req[r].msg}
    BY <1>3 DEF Duplicate, At, Inside
  <2>2. \A m : Turns(m)' = Turns(m)
    BY <1>0, <2>1, FinishEffect, TurnsSame
  <2>3. Dropped' \subseteq Dropped
    BY <2>1, <2>2 DEF Dropped
  <2>4. QED
    BY <1>0, <2>1, <2>3, DroppedShrinks
<1>4. ASSUME NEW r \in Requests, Works(r) PROVE DroppedInv'
  <2>1. \A m : Turns(m)' = Turns(m)
    BY <1>0, <1>4, WorksEffect, TurnsSame
  <2>2. UNCHANGED <<seen, acked, replies, kind, faults>>
    BY <1>0, <1>4, WorksEffect DEF webhook
  <2>3. Dropped' \subseteq Dropped
    BY <2>1, <2>2 DEF Dropped
  <2>4. QED
    BY <1>0, <2>2, <2>3, DroppedShrinks
<1>5. ASSUME NEW r \in Requests, NEW left, Inside(r), Ack(r, left), UNCHANGED <<seen, kind>>,
             faults'["turn"] = faults["turn"]
      PROVE  DroppedInv'
  <2>1. /\ Finish(r) /\ replies' = [replies EXCEPT ![req[r].msg] = @ + 1]
        /\ acked' = acked \cup {req[r].msg} /\ req[r].msg \in Messages
    BY <1>0, <1>5, BusyType DEF Ack, Inside
  <2>2. \A m : m # req[r].msg => Turns(m)' = Turns(m)
    BY <1>0, <1>5, <2>1, FinishEffect, TurnsLeave
  <2>3. replies'[req[r].msg] # 0
    BY <1>0, <2>1
  <2>4. ASSUME NEW m \in Dropped' PROVE m \in Dropped
    <3>1. m # req[r].msg
      BY <2>3, <2>4 DEF Dropped
    <3>2. m \in seen \cup acked /\ replies'[m] = replies[m]
      BY <1>0, <1>5, <2>1, <2>4, <3>1 DEF Dropped
    <3>3. QED
      BY <1>5, <2>2, <2>4, <3>1, <3>2 DEF Dropped
  <2>5. QED
    BY <1>0, <1>5, <2>4, DroppedShrinks
<1>6. ASSUME NEW r \in Requests, Post(r) PROVE DroppedInv'
  BY <1>5, <1>6 DEF Post, At, Inside
<1>7. ASSUME NEW r \in Requests, PostRefused(r) PROVE DroppedInv'
  <2>1. /\ req[r].at = "post" /\ Inside(r) /\ UNCHANGED <<seen, kind>>
        /\ faults'["turn"] = faults["turn"]
        /\ \A q \in Requests \ {r} : req'[q] = req[q]
    BY <1>0, <1>7, RefusedEffect, TurnFaults DEF PostRefused, Inside
  <2>2. ASSUME NEW left, Ack(r, left) PROVE DroppedInv'
    BY <1>5, <2>1, <2>2
  <2>3. CASE /\ req'[r].at = "post" /\ req'[r].msg = req[r].msg
             /\ UNCHANGED <<replies, acked>>
    <3>1. \A m : Turns(m)' = Turns(m)
      BY <2>1, <2>3, TurnsSame DEF Inside
    <3>2. Dropped' \subseteq Dropped
      BY <2>1, <2>3, <3>1 DEF Dropped
    <3>3. QED
      BY <1>0, <2>1, <3>2, DroppedShrinks
  <2>4. QED
    BY <1>0, <1>7, <2>2, <2>3, RefusedEffect
<1>8. ASSUME NEW r \in Requests, Fail(r) PROVE DroppedInv'
  <2>1. /\ Inside(r) /\ Finish(r) /\ faults'["turn"] = faults["turn"] + 1
        /\ UNCHANGED <<seen, acked, replies, kind>>
    BY <1>0, <1>8, TurnFaults DEF Fail, webhook
  <2>2. \A m : m # req[r].msg => Turns(m)' = Turns(m)
    BY <1>0, <2>1, FinishEffect, TurnsLeave
  <2>3. PICK m : m = req[r].msg
    OBVIOUS
  <2>4. Dropped' \subseteq Dropped \cup {m}
    BY <2>1, <2>2, <2>3 DEF Dropped
  <2>5. QED
    BY <1>0, <2>1, <2>4, DroppedGrows
<1>9. ASSUME NEW n \in Messages, ExpireSeen(n) PROVE DroppedInv'
  <2>1. /\ UNCHANGED <<replies, req, kind, acked>> /\ seen' \subseteq seen
        /\ faults'["turn"] = faults["turn"]
    BY <1>0, <1>9, TurnFaults DEF ExpireSeen
  <2>2. \A m : Turns(m)' = Turns(m)
    BY <2>1 DEF Turns, Inside
  <2>3. Dropped' \subseteq Dropped
    BY <2>1, <2>2 DEF Dropped
  <2>4. QED
    BY <1>0, <2>1, <2>3, DroppedShrinks
<1>10. CASE LapseHistory \/ UNCHANGED vars
  <2>1. \A m : Turns(m)' = Turns(m)
    BY <1>10 DEF LapseHistory, vars, Turns, Inside
  <2>2. UNCHANGED <<seen, acked, replies, kind>> /\ faults'["turn"] = faults["turn"]
    BY <1>0, <1>10, TurnFaults DEF LapseHistory, vars, webhook
  <2>3. QED
    BY <1>0, <2>1, <2>2, DroppedShrinks DEF Dropped
<1>11. QED
  BY <1>1, <1>2, <1>3, <1>4, <1>6, <1>7, <1>8, <1>9, <1>10 DEF Next, Step, Works

LEMMA CostStep ==
  ASSUME TypeInv, CostInv, [Next]_vars
  PROVE  CostInv'
<1>0. /\ TypeOK /\ lost \in [Messages -> SUBSET Contents]
      /\ cost \in [Messages -> SUBSET Contents]
  BY DEF TypeInv, TypeOK
<1>1. ASSUME NEW r \in Requests, NEW n \in Messages, Receive(r, n) \/ Retry(r, n)
      PROVE  CostInv'
  <2>1. Webhook(r, n) /\ UNCHANGED <<lost, cost>>
    BY <1>1 DEF Receive, Retry, Webhook
  <2>2. \A q \in Requests : req'[q].at = "post" => req'[q] = req[q]
    BY <1>0, <2>1, WebhookEffect
  <2>3. QED
    BY <2>1, <2>2 DEF CostInv
<1>2. ASSUME NEW r \in Requests, Mark(r) \/ MarkFails(r) PROVE CostInv'
  <2>1. At(r, "mark") /\ Begin(r) /\ UNCHANGED <<lost, cost>>
    BY <1>2 DEF Mark, MarkFails, Begin
  <2>2. \A q \in Requests : req'[q].at = "post" =>
            req'[q] = req[q] \/ req'[q].due \subseteq Words(req'[q].out)
    BY <2>1, BeginEffect
  <2>3. QED
    BY <2>1, <2>2 DEF CostInv
<1>3. ASSUME NEW r \in Requests, Duplicate(r) \/ Fail(r) PROVE CostInv'
  <2>1. Finish(r) /\ UNCHANGED <<lost, cost>>
    BY <1>3 DEF Duplicate, Fail, webhook
  <2>2. \A q \in Requests : req'[q].at = "post" => req'[q] = req[q]
    BY <1>0, <2>1, FinishEffect
  <2>3. QED
    BY <2>1, <2>2 DEF CostInv
<1>4. ASSUME NEW r \in Requests, Works(r) PROVE CostInv'
  <2>1. UNCHANGED <<lost, cost>>
    BY <1>0, <1>4, WorksEffect DEF webhook
  <2>2. \A q \in Requests : req'[q].at = "post" =>
            req'[q] = req[q] \/ req'[q].due \subseteq Words(req'[q].out)
    BY <1>0, <1>4, WorksEffect
  <2>3. QED
    BY <2>1, <2>2 DEF CostInv
<1>5. ASSUME NEW r \in Requests, NEW left \in SUBSET Contents, NEW c \in SUBSET Contents,
             req[r].at = "post", Ack(r, left),
             cost' = [cost EXCEPT ![req[r].msg] = @ \cup c],
             left \subseteq c \cup cost[req[r].msg]
      PROVE  CostInv'
  <2>1. /\ lost' = [lost EXCEPT ![req[r].msg] = @ \cup left]
        /\ req[r].msg \in Messages
        /\ req'[r].at = "idle" /\ \A q \in Requests \ {r} : req'[q] = req[q]
    BY <1>0, <1>5, AckType DEF Ack
  <2>2. \A m \in Messages : lost'[m] \subseteq cost'[m] /\ cost[m] \subseteq cost'[m]
    BY <1>0, <1>5, <2>1 DEF CostInv
  <2>3. \A q \in Requests : req'[q].at = "post" => req'[q] = req[q] /\ req[q].msg \in Messages
    BY <1>0, <2>1, BusyType
  <2>4. QED
    BY <2>2, <2>3 DEF CostInv
<1>6. ASSUME NEW r \in Requests, Post(r) PROVE CostInv'
  <2>1. /\ req[r].at = "post" /\ Ack(r, req[r].due \ Words(req[r].out))
        /\ cost' = cost /\ req[r].due \subseteq Contents /\ req[r].msg \in Messages
    BY <1>0, <1>6, BusyType DEF Post, At
  <2>2. /\ req[r].due \ Words(req[r].out) \in SUBSET Contents
        /\ req[r].due \ Words(req[r].out) \subseteq cost[req[r].msg]
    BY <2>1 DEF CostInv
  <2>3. cost' = [cost EXCEPT ![req[r].msg] = @ \cup {}]
    BY <1>0, <2>1
  <2>4. QED
    BY <1>5, <2>1, <2>2, <2>3
<1>7. ASSUME NEW r \in Requests, PostRefused(r) PROVE CostInv'
  <2>1. /\ req[r].at = "post" /\ req[r].msg \in Messages
        /\ \A q \in Requests \ {r} : req'[q] = req[q]
    BY <1>0, <1>7, RefusedEffect
  <2>2. PICK left, c \in SUBSET Contents, rest \in Seq(Pieces) :
          /\ cost' = [cost EXCEPT ![req[r].msg] = @ \cup c]
          /\ req[r].due \subseteq Words(req[r].out) \cup cost[req[r].msg] =>
               left \subseteq Words(rest) \cup c \cup cost[req[r].msg]
          /\ \/ Ack(r, left) /\ rest = <<>>
             \/ /\ req'[r].at = "post" /\ req'[r].msg = req[r].msg
                /\ req'[r].out = rest /\ req'[r].due = left
                /\ UNCHANGED <<replies, lost, acked>>
    BY <1>0, <1>7, RefusedEffect
  <2>3. left \subseteq Words(rest) \cup c \cup cost[req[r].msg]
    BY <2>1, <2>2 DEF CostInv
  <2>4. CASE Ack(r, left) /\ rest = <<>>
    <3>1. Words(<<>>) = {}
      BY DEF Words, ToSet
    <3>2. QED
      BY <1>5, <2>1, <2>2, <2>3, <2>4, <3>1
  <2>5. CASE /\ req'[r].at = "post" /\ req'[r].msg = req[r].msg
             /\ req'[r].out = rest /\ req'[r].due = left
             /\ UNCHANGED <<replies, lost, acked>>
    <3>1. \A m \in Messages : cost[m] \subseteq cost'[m]
      BY <1>0, <2>1, <2>2
    <3>2. cost'[req[r].msg] = cost[req[r].msg] \cup c
      BY <1>0, <2>1, <2>2
    <3>3. \A m \in Messages : lost'[m] \subseteq cost'[m]
      BY <2>5, <3>1 DEF CostInv
    <3>4. ASSUME NEW q \in Requests, req'[q].at = "post"
          PROVE  req'[q].due \subseteq Words(req'[q].out) \cup cost'[req'[q].msg]
      <4>1. CASE q = r
        BY <2>3, <2>5, <3>2, <4>1
      <4>2. CASE q # r
        <5>1. req'[q] = req[q] /\ req[q].at = "post"
          BY <2>1, <3>4, <4>2
        <5>2. req[q].msg \in Messages
          BY <1>0, <5>1, BusyType
        <5>3. QED
          BY <3>1, <5>1, <5>2 DEF CostInv
      <4>3. QED
        BY <4>1, <4>2
    <3>5. QED
      BY <3>3, <3>4 DEF CostInv, Words
  <2>6. QED
    BY <2>2, <2>4, <2>5
<1>8. CASE LapseHistory \/ UNCHANGED vars \/ \E n \in Messages : ExpireSeen(n)
  BY <1>8 DEF LapseHistory, ExpireSeen, vars, webhook, CostInv
<1>9. QED
  BY <1>1, <1>2, <1>3, <1>4, <1>6, <1>7, <1>8 DEF Next, Step, Works

(* What Meta believes delivered was answered, but for one message per      *)
(* failed turn; and what an answer lacks was refused as a plain text, or   *)
(* was a button or a row of a refused card or menu (receive_webhook).      *)
THEOREM DroppedAreAccounted == Spec => []DroppedAccounted
<1>1. Init => DroppedInv /\ CostInv
  <2> SUFFICES ASSUME Init PROVE DroppedInv /\ CostInv
    OBVIOUS
  <2>1. Dropped = {}
    BY DEF Init, Dropped
  <2>2. DroppedInv
    BY <2>1, FS_EmptySet DEF Init, DroppedInv
  <2>3. CostInv
    BY DEF Init, CostInv, Idle
  <2>4. QED
    BY <2>2, <2>3
<1>2. TypeInv /\ DroppedInv /\ CostInv /\ [Next]_vars => DroppedInv' /\ CostInv'
  BY DroppedStep, CostStep
<1>3. TypeInv /\ DroppedInv /\ CostInv => DroppedAccounted
  <2> SUFFICES ASSUME TypeInv, DroppedInv, CostInv PROVE DroppedAccounted
    OBVIOUS
  <2>1. Unanswered \subseteq Dropped
    BY DEF Unanswered, Dropped, Turns
  <2>2. Cardinality(Unanswered) <= Cardinality(Dropped) /\ IsFiniteSet(Unanswered)
    BY <2>1, FS_Subset DEF DroppedInv
  <2>3. /\ Cardinality(Unanswered) \in Nat /\ Cardinality(Dropped) \in Nat
        /\ faults["turn"] \in Nat
    BY <2>2, FS_CardinalityType DEF DroppedInv, TypeInv, TypeOK
  <2>4. QED
    BY <2>2, <2>3 DEF DroppedInv, CostInv, DroppedAccounted
<1>4. QED
  BY <1>1, <1>2, <1>3, TypeInvariant, PTL DEF Spec

-----------------------------------------------------------------------------
(* What the memory keeps *)

Even(n) == n % 2 = 0

Turning(r) ==
  req[r].at \in {"session", "history", "summarize", "user", "assistant", "clear", "close"}

Calm == ~overlapped /\ faults["turn"] = 0

OneTurn == ~overlapped => \A r, q \in Requests : Turning(r) /\ Turning(q) => r = q

(* What a turn has loaded is still so, or the list expired since, and it   *)
(* appends its two entries to a history of an even length.                 *)
Fresh(r) ==
  /\ req[r].at \in {"history", "summarize"} => req[r].summary = summary
  /\ req[r].at = "summarize" => /\ ToSet(history) \subseteq ToSet(req[r].history)
                                /\ ToSet(req[r].history) \subseteq said
  /\ ~torn /\ req[r].at = "assistant" => Len(history) = Cap \/ ~Even(Len(history))
  /\ req[r].at = "close" => history = <<>> /\ said = {}

FreshInv ==
  Calm => /\ \A r \in Requests : Fresh(r)
          /\ (~torn /\ \A r \in Requests : req[r].at # "assistant") => Even(Len(history))
          /\ (\A r \in Requests : req[r].at # "close") => ToSet(history) \cup summary \subseteq said

(* What is about to fall off the history is in the summary.                *)
Folded(r) ==
  Len(history) = Cap =>
    /\ req[r].at = "user" => ToSet(history) \subseteq summary
    /\ req[r].at = "assistant" => history[1] \in summary

FoldedInv ==
  Calm /\ ~crowded /\ ~torn => /\ said \ lapsed \subseteq ToSet(history) \cup summary
                               /\ \A r \in Requests : Folded(r)

MemInv == OneTurn /\ FreshInv /\ FoldedInv

LEMMA EvenStep ==
  /\ Cap > 1 /\ Even(Cap) /\ Even(0)
  /\ \A n \in Nat : Even(n) <=> ~Even(n + 1)
BY CapAssumption, EvenAssumption DEF Even

(* A step outside of the turns leaves their memory alone.                  *)
LEMMA MemSame ==
  ASSUME MemInv, UNCHANGED <<memory, ghosts>>, faults'["turn"] = faults["turn"],
         \A r \in Requests : /\ Turning(r)' <=> Turning(r)
                             /\ Turning(r) => req'[r] = req[r]
  PROVE  MemInv'
<1>1. UNCHANGED <<history, summary, said, lapsed, torn, overlapped, crowded>> /\ Calm' = Calm
  BY DEF memory, ghosts, Calm
<1>2. OneTurn'
  BY <1>1 DEF MemInv, OneTurn
<1>3. \A r \in Requests : /\ Turning(r) => req'[r] = req[r]
                          /\ ~Turning(r) => ~Turning(r)'
  OBVIOUS
<1>4. \A r \in Requests : (Fresh(r) => Fresh(r)') /\ (Folded(r) => Folded(r)')
  BY <1>1, <1>3 DEF Turning, Fresh, Folded
<1>5. \A r \in Requests : /\ req'[r].at # "assistant" => req[r].at # "assistant"
                          /\ req'[r].at # "close" => req[r].at # "close"
  BY <1>3 DEF Turning
<1>6. FreshInv'
  BY <1>1, <1>4, <1>5 DEF MemInv, FreshInv
<1>7. FoldedInv'
  BY <1>1, <1>4 DEF MemInv, FoldedInv
<1>8. QED
  BY <1>2, <1>6, <1>7 DEF MemInv

(* A step of the only turn: what it has to show.                           *)
LEMMA MemTurn ==
  ASSUME MemInv, NEW r \in Requests, Turning(r),
         \A q \in Requests \ {r} : req'[q] = req[q],
         torn' = torn, overlapped' = overlapped, faults' = faults,
         Calm => /\ Fresh(r)'
                 /\ ~torn /\ req'[r].at # "assistant" => Even(Len(history'))
                 /\ req'[r].at # "close" => ToSet(history') \cup summary' \subseteq said',
         Calm /\ ~crowded' /\ ~torn =>
           ~crowded /\ said' \ lapsed' \subseteq ToSet(history') \cup summary' /\ Folded(r)'
  PROVE  MemInv'
<1>1. Calm' = Calm
  BY DEF Calm
<1>2. OneTurn'
  BY DEF MemInv, OneTurn, Turning
<1>3. Calm => \A q \in Requests \ {r} : ~Turning(q)'
  BY DEF MemInv, OneTurn, Calm, Turning
<1>4. Calm => \A q \in Requests \ {r} : Fresh(q)' /\ Folded(q)'
  BY <1>3 DEF Fresh, Folded, Turning
<1>5. FreshInv'
  BY <1>1, <1>4 DEF FreshInv
<1>6. FoldedInv'
  BY <1>1, <1>4 DEF FoldedInv
<1>7. QED
  BY <1>2, <1>5, <1>6 DEF MemInv

LEMMA OnlyTurn ==
  ASSUME MemInv, NEW r \in Requests, Turning(r), Calm
  PROVE  /\ Fresh(r)
         /\ ~torn /\ req[r].at # "assistant" => Even(Len(history))
         /\ req[r].at # "close" => ToSet(history) \cup summary \subseteq said
         /\ ~crowded /\ ~torn => said \ lapsed \subseteq ToSet(history) \cup summary /\ Folded(r)
<1>1. \A q \in Requests \ {r} : ~Turning(q)
  BY DEF MemInv, OneTurn, Calm
<1>2. \A q \in Requests \ {r} : req[q].at # "assistant" /\ req[q].at # "close"
  BY <1>1 DEF Turning
<1>3. QED
  BY <1>2 DEF MemInv, FreshInv, FoldedInv

LEMMA WorksMem ==
  ASSUME TypeInv, MemInv, NEW r \in Requests, Works(r)
  PROVE  MemInv'
<1>0. /\ req \in [Requests -> Request] /\ history \in Seq(Entries) /\ Len(history) <= Cap
      /\ Len(history) \in Nat /\ Cap \in Nat \ {0} /\ TypeOK
  BY CapAssumption, EmptySeq DEF TypeInv, TypeOK
<1>1. /\ \A q \in Requests \ {r} : req'[q] = req[q]
      /\ faults' = faults /\ overlapped' = overlapped /\ torn' = torn
      /\ req[r].msg \in Messages
  BY <1>0, WorksEffect DEF Works, LoadSession, LoadHistory, Summarize, AppendUser,
     AppendAssistant, ClearHistory, CloseSession, ghosts
<1>2. Turning(r)
  BY DEF Works, LoadSession, LoadHistory, Summarize, AppendUser, AppendAssistant,
         ClearHistory, CloseSession, At, Turning
<1>3. req[r] \in BusyRequest
  BY <1>0, <1>2, BusyType DEF Turning
<1>4. CASE LoadSession(r)
  <2>1. /\ req[r].at = "session" /\ UNCHANGED <<history, summary, said, lapsed, crowded>>
        /\ req' = [req EXCEPT ![r] = [req[r] EXCEPT !.at = "history", !.summary = summary]]
    BY <1>4 DEF LoadSession, At, memory, ghosts
  <2>2. req'[r].at = "history" /\ req'[r].summary = summary
    BY <1>0, <1>3, <2>1 DEF BusyRequest
  <2>3. QED
    BY <1>1, <1>2, <2>1, <2>2, OnlyTurn, MemTurn DEF Fresh, Folded
<1>5. ASSUME Loaded(r), Calm =>
                /\ ~torn => Even(Len(history'))
                /\ ToSet(history') \cup summary' \subseteq said'
                /\ ~crowded' /\ ~torn =>
                     /\ ~crowded /\ said' \ lapsed' \subseteq ToSet(history') \cup summary'
                     /\ Len(history') = Cap => ToSet(history') \subseteq summary'
      PROVE  MemInv'
  <2>1. req' = [req EXCEPT ![r] = [req[r] EXCEPT !.at = "user", !.history = <<>>, !.summary = {}]]
    BY <1>5 DEF Loaded
  <2>2. req'[r].at = "user"
    BY <1>0, <1>3, <2>1 DEF BusyRequest
  <2>3. Fresh(r)'
    BY <2>2 DEF Fresh
  <2>4. QED
    BY <1>1, <1>2, <1>5, <2>2, <2>3, MemTurn DEF Folded
<1>6. CASE LoadHistory(r)
  <2> DEFINE full == Len(history) >= Cap
             talk == kind[req[r].msg] = "talk"
  <2>1. /\ req[r].at = "history" /\ UNCHANGED <<history, summary, said, lapsed>>
        /\ crowded' = (crowded \/ (full /\ ~talk))
        /\ IF talk /\ full
           THEN req' = [req EXCEPT ![r].history = history, ![r].at = "summarize"]
           ELSE Loaded(r)
    BY <1>6 DEF LoadHistory, At, memory
  <2>2. CASE talk /\ full
    <3>1. req' = [req EXCEPT ![r] = [req[r] EXCEPT !.history = history, !.at = "summarize"]]
      BY <2>1, <2>2
    <3>2. req'[r].at = "summarize" /\ req'[r].history = history /\ req'[r].summary = req[r].summary
      BY <1>0, <1>3, <3>1 DEF BusyRequest
    <3>3. Calm => req[r].summary = summary
      BY <1>2, <2>1, OnlyTurn DEF Fresh
    <3>4. QED
      BY <1>1, <1>2, <2>1, <2>2, <3>2, <3>3, OnlyTurn, MemTurn DEF Fresh, Folded
  <2>3. CASE ~(talk /\ full)
    <3>1. ~crowded' => ~crowded /\ Len(history) # Cap
      BY <1>0, <2>1, <2>3
    <3>2. QED
      BY <1>2, <1>5, <2>1, <2>3, <3>1, OnlyTurn
  <2>4. QED
    BY <2>2, <2>3
<1>7. CASE Summarize(r)
  <2>1. /\ req[r].at = "summarize" /\ UNCHANGED <<history, said, lapsed, crowded>> /\ Loaded(r)
        /\ summary' = req[r].summary \cup ToSet(req[r].history)
    BY <1>7 DEF Summarize, At, ghosts
  <2>2. Calm => /\ summary \cup ToSet(history) \subseteq summary'
                /\ summary' \subseteq said
    BY <1>2, <2>1, OnlyTurn DEF Fresh
  <2>3. QED
    BY <1>2, <1>5, <2>1, <2>2, OnlyTurn
<1>8. CASE AppendUser(r)
  <2>0. PICK e \in Entries : e = <<req[r].msg, "user">>
    BY <1>1 DEF Entries
  <2>1. /\ req[r].at = "user" /\ UNCHANGED <<summary, crowded>>
        /\ req' = [req EXCEPT ![r] = [req[r] EXCEPT !.at = "assistant"]]
        /\ history' = Newest(Append(history, e))
        /\ said' = said \cup {e} /\ lapsed' = lapsed \ {e}
    BY <1>8, <2>0 DEF AppendUser, At, Add, Goto, ghosts
  <2>2. req'[r].at = "assistant"
    BY <1>0, <1>3, <2>1 DEF BusyRequest
  <2>4. /\ Len(history') = IF Len(history) < Cap THEN Len(history) + 1 ELSE Cap
        /\ ToSet(history') \subseteq ToSet(history) \cup {e}
        /\ e \in ToSet(history')
        /\ Len(history) < Cap => ToSet(history) \subseteq ToSet(history')
        /\ Len(history) = Cap => ToSet(history) \subseteq ToSet(history') \cup {history[1]}
        /\ Len(history) = Cap /\ Cap > 1 => history'[1] \in ToSet(history)
    BY <1>0, <2>1, NewestType
  <2>5. ASSUME Calm
        PROVE  /\ Fresh(r)' /\ ToSet(history') \cup summary' \subseteq said'
    <3>1. (~torn => Even(Len(history))) /\ ToSet(history) \cup summary \subseteq said
      BY <1>2, <2>1, <2>5, OnlyTurn
    <3>2. ~torn => Len(history') = Cap \/ ~Even(Len(history'))
      BY <1>0, <2>4, <3>1, EvenStep
    <3>3. Fresh(r)'
      BY <1>1, <2>2, <3>2 DEF Fresh
    <3>4. QED
      BY <2>1, <2>4, <3>1, <3>3
  <2>6. ASSUME Calm, ~crowded, ~torn
        PROVE  said' \ lapsed' \subseteq ToSet(history') \cup summary' /\ Folded(r)'
    <3>1. /\ Even(Len(history)) /\ said \ lapsed \subseteq ToSet(history) \cup summary
          /\ Len(history) = Cap => ToSet(history) \subseteq summary
      BY <1>2, <2>1, <2>6, OnlyTurn DEF Folded
    <3>2. CASE Len(history) < Cap
      <4>1. Len(history') # Cap
        BY <1>0, <2>4, <3>1, <3>2, EvenStep
      <4>2. QED
        BY <2>1, <2>4, <3>1, <3>2, <4>1 DEF Folded
    <3>3. CASE Len(history) = Cap
      <4>1. history'[1] \in summary
        BY <2>4, <3>1, <3>3, EvenStep
      <4>2. Folded(r)'
        BY <2>1, <2>2, <4>1 DEF Folded
      <4>3. QED
        BY <2>1, <2>4, <3>1, <3>3, <4>2
    <3>4. QED
      BY <1>0, <3>2, <3>3
  <2>7. QED
    BY <1>1, <1>2, <2>1, <2>2, <2>5, <2>6, MemTurn
<1>9. CASE AppendAssistant(r)
  <2>0. PICK e \in Entries : e = <<req[r].msg, "assistant">>
    BY <1>1 DEF Entries
  <2>1. /\ req[r].at = "assistant" /\ UNCHANGED <<summary, crowded>>
        /\ history' = Newest(Append(history, e))
        /\ said' = said \cup {e} /\ lapsed' = lapsed \ {e}
        /\ \/ req' = [req EXCEPT ![r] = [req[r] EXCEPT !.at = "clear"]]
           \/ \E out \in Plans :
                req' = [req EXCEPT ![r] = [req[r] EXCEPT !.at = "post", !.due = Words(out),
                                                         !.out = out]]
    BY <1>9, <2>0 DEF AppendAssistant, At, Add, Goto, Deliver, ghosts
  <2>2. req'[r].at \in {"clear", "post"}
    <3>1. \A p \in {"clear", "post"} : [req[r] EXCEPT !.at = p].at = p
      BY <1>3 DEF BusyRequest
    <3>2. \A out \in Plans :
            [req[r] EXCEPT !.at = "post", !.due = Words(out), !.out = out].at = "post"
      BY <1>3 DEF BusyRequest
    <3>3. CASE req' = [req EXCEPT ![r] = [req[r] EXCEPT !.at = "clear"]]
      BY <1>0, <3>1, <3>3
    <3>4. CASE \E out \in Plans :
                 req' = [req EXCEPT ![r] = [req[r] EXCEPT !.at = "post", !.due = Words(out),
                                                          !.out = out]]
      BY <1>0, <3>2, <3>4
    <3>5. QED
      BY <2>1, <3>3, <3>4
  <2>4. /\ Len(history') = IF Len(history) < Cap THEN Len(history) + 1 ELSE Cap
        /\ ToSet(history') \subseteq ToSet(history) \cup {e}
        /\ e \in ToSet(history')
        /\ Len(history) < Cap => ToSet(history) \subseteq ToSet(history')
        /\ Len(history) = Cap => ToSet(history) \subseteq ToSet(history') \cup {history[1]}
    BY <1>0, <2>1, NewestType
  <2>5. Fresh(r)'
    BY <2>2 DEF Fresh
  <2>6. ASSUME Calm
        PROVE  (~torn => Even(Len(history'))) /\ ToSet(history') \cup summary' \subseteq said'
    <3>1. /\ ~torn => Len(history) = Cap \/ ~Even(Len(history))
          /\ ToSet(history) \cup summary \subseteq said
      BY <1>2, <2>1, <2>6, OnlyTurn DEF Fresh
    <3>2. ~torn => Even(Len(history'))
      <4>1. CASE Len(history) < Cap
        BY <1>0, <2>4, <3>1, <4>1, EvenStep
      <4>2. CASE Len(history) = Cap
        BY <1>0, <2>4, <4>2, EvenStep
      <4>3. QED
        BY <1>0, <4>1, <4>2
    <3>3. QED
      BY <2>1, <2>4, <3>1, <3>2
  <2>7. ASSUME Calm, ~crowded, ~torn
        PROVE  said' \ lapsed' \subseteq ToSet(history') \cup summary'
    <3>1. /\ said \ lapsed \subseteq ToSet(history) \cup summary
          /\ Len(history) = Cap => history[1] \in summary
      BY <1>2, <2>1, <2>7, OnlyTurn DEF Folded
    <3>2. CASE Len(history) < Cap
      BY <2>1, <2>4, <3>1, <3>2
    <3>3. CASE Len(history) = Cap
      BY <2>1, <2>4, <3>1, <3>3
    <3>4. QED
      BY <1>0, <3>2, <3>3
  <2>8. Folded(r)'
    BY <2>2 DEF Folded
  <2>9. QED
    BY <1>1, <1>2, <2>1, <2>5, <2>6, <2>7, <2>8, MemTurn
<1>10. ToSet(<<>>) = {}
  BY DEF ToSet
<1>11. CASE ClearHistory(r)
  <2>1. /\ history' = <<>> /\ said' = {} /\ UNCHANGED <<summary, crowded>>
        /\ req' = [req EXCEPT ![r] = [req[r] EXCEPT !.at = "close"]]
    BY <1>11 DEF ClearHistory, Goto, ghosts
  <2>2. req'[r].at = "close" /\ Len(history') = 0
    BY <1>0, <1>3, <2>1, EmptySeq DEF BusyRequest
  <2>3. Fresh(r)' /\ Folded(r)'
    BY <2>1, <2>2 DEF Fresh, Folded
  <2>4. QED
    BY <1>1, <1>2, <2>1, <2>2, <2>3, EvenStep, MemTurn
<1>12. CASE CloseSession(r)
  <2>1. /\ req[r].at = "close" /\ summary' = {} /\ UNCHANGED <<history, said, lapsed, crowded>>
        /\ \E out \in Plans :
             req' = [req EXCEPT ![r] = [req[r] EXCEPT !.at = "post", !.due = Words(out),
                                                      !.out = out]]
    BY <1>12 DEF CloseSession, At, Deliver, ghosts
  <2>2. req'[r].at = "post"
    <3>1. \A out \in Plans :
            [req[r] EXCEPT !.at = "post", !.due = Words(out), !.out = out].at = "post"
      BY <1>3 DEF BusyRequest
    <3>2. QED
      BY <1>0, <2>1, <3>1
  <2>3. Fresh(r)' /\ Folded(r)'
    BY <2>2 DEF Fresh, Folded
  <2>4. Calm => history = <<>> /\ said = {} /\ Even(Len(history))
    BY <1>2, <2>1, OnlyTurn, EmptySeq, EvenStep DEF Fresh
  <2>5. QED
    BY <1>1, <1>2, <1>10, <2>1, <2>2, <2>3, <2>4, MemTurn
<1>13. QED
  BY <1>4, <1>6, <1>7, <1>8, <1>9, <1>11, <1>12 DEF Works

LEMMA MemStep ==
  ASSUME TypeInv, MemInv, [Next]_vars
  PROVE  MemInv'
<1>0. TypeOK /\ faults["turn"] \in Nat
  BY DEF TypeInv, TypeOK
<1>1. ASSUME NEW r \in Requests, NEW n \in Messages, Receive(r, n) \/ Retry(r, n)
      PROVE  MemInv'
  <2>1. Webhook(r, n) /\ UNCHANGED <<memory, ghosts, faults>> /\ req[r].at = "idle"
    BY <1>1 DEF Receive, Retry, Webhook, At
  <2>2. \A q \in Requests : (Turning(q)' <=> Turning(q)) /\ (Turning(q) => req'[q] = req[q])
    BY <1>0, <2>1, WebhookEffect DEF Turning
  <2>3. QED
    BY <2>1, <2>2, MemSame
<1>2. ASSUME NEW r \in Requests, Mark(r) \/ MarkFails(r) PROVE MemInv'
  <2>1. /\ At(r, "mark") /\ Begin(r) /\ UNCHANGED <<memory, torn, crowded>>
        /\ faults'["turn"] = faults["turn"]
    BY <1>0, <1>2, TurnFaults DEF Mark, MarkFails, Begin
  <2>2. /\ req'[r].at \in {"session", "post", "idle"} /\ ~Turning(r)
        /\ req'[r].at = "session" <=> kind[req[r].msg] \in {"talk", "short", "bye"}
        /\ \A q \in Requests \ {r} : req'[q] = req[q]
    BY <2>1, BeginEffect DEF At, Turning
  <2>3. overlapped' = (overlapped \/ (kind[req[r].msg] \in {"talk", "short", "bye"}
                                      /\ \E q \in Requests \ {r} : Inside(q)))
    BY <2>1 DEF Begin
  <2>4. CASE req'[r].at # "session"
    <3>1. UNCHANGED ghosts
      BY <2>1, <2>2, <2>3, <2>4, <1>0 DEF ghosts, TypeOK
    <3>2. \A q \in Requests : (Turning(q)' <=> Turning(q)) /\ (Turning(q) => req'[q] = req[q])
      BY <2>2, <2>4 DEF Turning
    <3>3. QED
      BY <2>1, <3>1, <3>2, MemSame
  <2>5. CASE req'[r].at = "session"
    <3>1. ~overlapped' => ~overlapped /\ \A q \in Requests \ {r} : ~Inside(q)
      BY <2>2, <2>3, <2>5
    <3>2. ~overlapped' => \A q \in Requests \ {r} : ~Turning(q)' /\ ~Turning(q)
      BY <2>2, <3>1 DEF Turning, Inside
    <3>3. OneTurn'
      BY <3>2 DEF OneTurn
    <3>4. UNCHANGED <<history, summary, said, lapsed, torn, crowded>> /\ (Calm' => Calm)
      BY <2>1, <3>1 DEF memory, Calm
    <3>5. Calm' => \A q \in Requests : /\ Fresh(q)' /\ Folded(q)'
                                       /\ req[q].at # "assistant" /\ req[q].at # "close"
      BY <2>2, <2>5, <3>2 DEF Turning, Fresh, Folded, Calm
    <3>6. FreshInv' /\ FoldedInv'
      BY <3>4, <3>5 DEF MemInv, FreshInv, FoldedInv
    <3>7. QED
      BY <3>3, <3>6 DEF MemInv
  <2>6. QED
    BY <2>4, <2>5
<1>3. ASSUME NEW r \in Requests, Duplicate(r) \/ Post(r) PROVE MemInv'
  <2>1. /\ Finish(r) /\ UNCHANGED <<memory, ghosts, faults>> /\ ~Turning(r)
    BY <1>3 DEF Duplicate, Post, Ack, At, Turning
  <2>2. \A q \in Requests : (Turning(q)' <=> Turning(q)) /\ (Turning(q) => req'[q] = req[q])
    BY <1>0, <2>1, FinishEffect DEF Turning
  <2>3. QED
    BY <2>1, <2>2, MemSame
<1>4. ASSUME NEW r \in Requests, PostRefused(r) PROVE MemInv'
  <2>1. /\ UNCHANGED <<memory, ghosts>> /\ faults'["turn"] = faults["turn"]
        /\ req[r].at = "post"
        /\ \A q \in Requests \ {r} : req'[q] = req[q]
    BY <1>0, <1>4, RefusedEffect, TurnFaults DEF PostRefused
  <2>2. req'[r].at \in {"idle", "post"}
    BY <1>0, <1>4, RefusedEffect, FinishEffect DEF Ack
  <2>3. \A q \in Requests : (Turning(q)' <=> Turning(q)) /\ (Turning(q) => req'[q] = req[q])
    BY <2>1, <2>2 DEF Turning
  <2>4. QED
    BY <2>1, <2>3, MemSame
<1>5. ASSUME NEW r \in Requests, Fail(r) PROVE MemInv'
  <2>1. ~Calm'
    BY <1>0, <1>5, TurnFaults DEF Fail, Calm
  <2>2. \A q \in Requests : Turning(q)' => Turning(q)
    BY <1>0, <1>5, FinishEffect DEF Fail, Turning
  <2>3. OneTurn'
    BY <1>5, <2>2 DEF Fail, ghosts, MemInv, OneTurn
  <2>4. QED
    BY <2>1, <2>3 DEF MemInv, FreshInv, FoldedInv
<1>6. ASSUME NEW n \in Messages, ExpireSeen(n) PROVE MemInv'
  <2>1. UNCHANGED <<memory, ghosts, req>> /\ faults'["turn"] = faults["turn"]
    BY <1>0, <1>6, TurnFaults DEF ExpireSeen
  <2>2. QED
    BY <2>1, MemSame DEF Turning
<1>7. CASE LapseHistory
  <2>1. /\ history' = <<>> /\ UNCHANGED <<summary, said, req, overlapped, crowded>>
        /\ lapsed' = lapsed \cup (ToSet(history) \ summary)
        /\ ~torn' => ~torn /\ \A r \in Requests : req[r].at # "assistant"
        /\ faults'["turn"] = faults["turn"]
    BY <1>0, <1>7, TurnFaults DEF LapseHistory, At
  <2>2. ToSet(<<>>) = {} /\ Len(<<>>) = 0 /\ Cap # 0
    BY EmptySeq, CapAssumption DEF ToSet
  <2>3. OneTurn' /\ Calm' = Calm
    BY <2>1 DEF MemInv, OneTurn, Turning, Calm
  <2>4. \A r \in Requests : (Fresh(r) => Fresh(r)') /\ Folded(r)'
    BY <2>1, <2>2 DEF Fresh, Folded
  <2>5. FreshInv'
    BY <2>1, <2>2, <2>3, <2>4, EvenStep DEF MemInv, FreshInv
  <2>6. FoldedInv'
    BY <2>1, <2>2, <2>3, <2>4 DEF MemInv, FoldedInv
  <2>7. QED
    BY <2>3, <2>5, <2>6 DEF MemInv
<1>8. CASE UNCHANGED vars
  BY <1>8, MemSame DEF vars, Turning
<1>9. QED
  BY <1>1, <1>2, <1>3, WorksMem, <1>4, <1>5, <1>6, <1>7, <1>8 DEF Next, Step, Works

(* While turns come one at a time, none fails and none is short at a full  *)
(* history, what the trim drops was folded into the summary before, so     *)
(* that only the expiry of the whole list forgets; and a farewell leaves   *)
(* nothing of what was said before it (load, append, persist).             *)
THEOREM MemoryIsSound == Spec => []MemorySound
<1>1. Init => MemInv
  <2> SUFFICES ASSUME Init PROVE MemInv
    OBVIOUS
  <2>1. ToSet(<<>>) = {} /\ Len(<<>>) = 0
    BY EmptySeq DEF ToSet
  <2>2. \A r \in Requests : req[r].at = "idle"
    BY DEF Init, Idle
  <2>3. OneTurn
    BY <2>2 DEF OneTurn, Turning
  <2>4. FreshInv /\ FoldedInv
    BY <2>1, <2>2, EvenStep DEF Init, FreshInv, FoldedInv, Fresh, Folded
  <2>5. QED
    BY <2>3, <2>4 DEF MemInv
<1>2. TypeInv /\ MemInv /\ [Next]_vars => MemInv'
  BY MemStep
<1>3. MemInv => MemorySound
  <2> SUFFICES ASSUME MemInv PROVE MemorySound
    OBVIOUS
  <2>1. NothingForgotten
    BY DEF MemInv, FoldedInv, NothingForgotten, Calm
  <2>2. CleanStart
    BY DEF MemInv, FreshInv, CleanStart, Calm, Inside
  <2>3. QED
    BY <2>1, <2>2 DEF MemorySound
<1>4. QED
  BY <1>1, <1>2, <1>3, TypeInvariant, PTL DEF Spec
=============================================================================
