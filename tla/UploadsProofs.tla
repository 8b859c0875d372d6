--------------------------- MODULE UploadsProofs ---------------------------
(***************************************************************************)
(* Theorems about Uploads, for any uploads, handlers, chunks and limit.    *)
(***************************************************************************)
EXTENDS Uploads, SequenceTheorems, TLAPS

-----------------------------------------------------------------------------
(* What the safety properties rest on.                                     *)

At(h, places) == proc[h].at \in places
Writing == {"open", "body", "flush", "undo"}
Past == {"body", "flush", "undo"}

(* Where a handler is decides what it is about: a request for a session, a *)
(* chunk or the end, or the end only.                                      *)
PlaceInv ==
    \A h \in Handler :
        /\ ~At(h, {"idle"}) => U(h) \in Upload
        /\ At(h, Writing) => proc[h].chunk \in 1..Chunks
        /\ At(h, {"multipart", "process", "publish"}) => proc[h].chunk = Finish

(* A handler that is about u, and one that is to make its session. *)
Busy(h, u) == U(h) = u /\ ~At(h, {"idle"})
Starting(h, u) == At(h, {"sweep"}) /\ U(h) = u /\ proc[h].chunk = Start

(* Until its session is made nothing is known of an upload, and nobody but *)
(* the one request for it is about it; so a session is made once.          *)
Unused(u) ==
    /\ u \notin open /\ data[u] = <<>> /\ counted[u] = <<>> /\ claimed[u] = <<>>
    /\ \A o \in writes \cup cuts : o.upload # u
OneStarts(u) ==
    /\ client[u].next \in {Start, GivenUp}
    /\ \A h \in Handler : Busy(h, u) =>
         /\ Starting(h, u)
         /\ client[u].next = Start => client[u].waits = h
    /\ \A g, h \in Handler : Busy(g, u) /\ Busy(h, u) => g = h
FreshInv ==
    \A u \in Upload : client[u].next = Start \/ (\E h \in Handler : Starting(h, u))
        => Unused(u) /\ OneStarts(u)

(* The file of a claimed or direct upload has no session any more.         *)
ClosedInv ==
    /\ \A h \in Handler : At(h, {"multipart", "process", "publish"}) => U(h) \notin open
    /\ \A u \in Upload : claimed[u] # <<>> => u \notin open

(* An operation in flight is that of the flush or the roll-back that waits *)
(* for it, or of a handler that is gone.                                   *)
WritesInv ==
    \A w \in writes :
        /\ ~At(w.by, {"sweep", "open", "body", "undo"})
        /\ At(w.by, {"flush"}) => w.upload = U(w.by) /\ w.chunk = proc[w.by].chunk
CutsInv ==
    \A c \in cuts :
        /\ ~At(c.by, {"sweep", "open", "body", "flush"})
        /\ At(c.by, {"undo"}) => c.upload = U(c.by) /\ c.to = proc[c.by].base

(* The file s has the r chunks c, and nothing else if it is as long. *)
Covers(s, r, c) ==
    /\ Len(s) >= r
    /\ Len(s) = r => s = c
    /\ \A i \in 1..Len(c) : \E k \in 1..Len(s) : s[k] = c[i]
Holds(s, u) == Covers(s, received[u], counted[u])

(* The file that a roll-back leaves. *)
Undone(h) == SubSeq(data[U(h)], 1, proc[h].base)

(* The file of a session that is not torn holds what was counted, also     *)
(* after a roll-back; what a flush has written is in it, at the end if no  *)
(* late write came.                                                        *)
FileInv ==
    /\ \A u \in Upload : received[u] = Len(counted[u])
    /\ \A u \in open \ torn : Holds(data[u], u)
    /\ \A h \in Handler : At(h, Past) /\ U(h) \notin torn =>
         LET u == U(h) IN
         /\ proc[h].base <= Len(data[u]) /\ proc[h].base >= received[u]
         /\ Holds(Undone(h), u)
    /\ \A h \in Handler : At(h, {"flush"}) =>
         LET u == U(h) IN
         /\ proc[h].base < MaxUpload
         /\ Landed(h) /\ u \notin torn =>
              /\ Len(data[u]) > proc[h].base
              /\ Len(data[u]) = received[u] + 1 => data[u] = Append(counted[u], proc[h].chunk)
              /\ \E k \in 1..Len(data[u]) : data[u][k] = proc[h].chunk

(* The sequence s has the chunks before n, in order if it has no other. *)
Before(s, n) ==
    /\ Len(s) >= n - 1
    /\ Len(s) = n - 1 => \A i \in 1..(n - 1) : s[i] = i
    /\ \A c \in 1..(n - 1) : \E i \in 1..Len(s) : s[i] = c

(* The client asks for a chunk when those before it were counted. *)
OrderInv ==
    /\ \A u \in Upload : client[u].next \in 1..Finish => Before(counted[u], client[u].next)
    /\ \A h \in Handler : At(h, {"sweep"} \cup Writing) /\ proc[h].chunk # Start
                             => Before(counted[U(h)], proc[h].chunk)

UploadInv ==
    /\ TypeOK /\ PlaceInv /\ WriterOwnsSession /\ FreshInv /\ ClosedInv /\ WritesInv /\ CutsInv
    /\ FileInv /\ OrderInv /\ ClaimIsWhole

-----------------------------------------------------------------------------
(* Processes, clients and files.                                           *)

Places == [at : {"idle", "sweep"} \cup Writing \cup {"multipart", "process", "publish"},
           upload : Upload \cup {"none"}, chunk : 0..Finish, base : Nat, todo : SUBSET Upload]

(* The bounds that client and server count to.                             *)
LEMMA Numbers ==
    /\ Chunks \in Nat /\ Chunks >= 1 /\ MaxUpload \in Nat /\ Chunks <= MaxUpload
    /\ Start = 0 /\ Finish = Chunks + 1 /\ GivenUp = Chunks + 2
    /\ \A u \in Upload : Limit(u) \in Nat /\ Limit(u) <= MaxUpload
BY UploadAssumption DEF Start, Finish, GivenUp, Limit

(* A step of a handler moves it and nobody else (each await of upload.rs). *)
LEMMA GoesType ==
    ASSUME TypeOK, NEW h \in Handler, NEW at, Goes(h, at),
           at \in {"idle", "sweep"} \cup Writing \cup {"multipart", "process", "publish"}
    PROVE  /\ proc' \in [Process -> Places]
           /\ proc'[h] = [at |-> at, upload |-> U(h), chunk |-> proc[h].chunk,
                          base |-> proc[h].base, todo |-> proc[h].todo]
           /\ \A p \in Process : p # h => proc'[p] = proc[p]
BY DEF Goes, TypeOK, Places, U, Process, Writing

(* So does its end. *)
LEMMA EndsType ==
    ASSUME TypeOK, NEW h \in Process, Ends(h)
    PROVE  /\ proc' \in [Process -> Places]
           /\ proc'[h] = Idle
           /\ \A p \in Process : p # h => proc'[p] = proc[p]
BY Numbers DEF Ends, Idle, TypeOK, Places, Process, Writing

(* Only the client that waits for the handler hears of it.                 *)
LEMMA HearsType ==
    ASSUME TypeOK, NEW h \in Handler, NEW next \in 0..GivenUp, Hears(h, next)
    PROVE  /\ client' \in [Upload -> [next : 0..GivenUp, waits : Handler \cup {NoOne}]]
           /\ \A u \in Upload :
                \/ client'[u] = client[u]
                \/ /\ u = U(h) /\ client[u].waits = h
                   /\ client'[u].next = next /\ client'[u].waits = NoOne
           /\ U(h) \in Upload => client'[U(h)].waits # h
BY UploadAssumption DEF Hears, TypeOK

(* A chunk at the end of a file.                                           *)
LEMMA AppendFacts ==
    ASSUME NEW S, NEW s \in Seq(S), NEW e \in S
    PROVE  /\ Append(s, e) \in Seq(S) /\ Len(Append(s, e)) = Len(s) + 1
           /\ \A i \in 1..Len(s) : Append(s, e)[i] = s[i]
           /\ Append(s, e)[Len(s) + 1] = e
BY AppendProperties

(* The first n chunks of a file (set_len).                                 *)
LEMMA TakeFacts ==
    ASSUME NEW S, NEW s \in Seq(S), NEW n \in 0..Len(s)
    PROVE  /\ SubSeq(s, 1, n) \in Seq(S) /\ Len(SubSeq(s, 1, n)) = n
           /\ \A i \in 1..n : SubSeq(s, 1, n)[i] = s[i]
<1>1. \A i \in 1..n : s[i] \in S
  BY ElementOfSeq
<1> QED BY <1>1, SubSeqProperties

(* What is written behind the first n chunks leaves them as they are.      *)
LEMMA TakeOfAppend ==
    ASSUME NEW S, NEW s \in Seq(S), NEW e \in S, NEW n \in 0..Len(s)
    PROVE  SubSeq(Append(s, e), 1, n) = SubSeq(s, 1, n)
<1>1. Append(s, e) \in Seq(S) /\ n \in 0..Len(Append(s, e)) /\ Len(s) \in Nat
  BY AppendFacts
<1>2. /\ SubSeq(s, 1, n) \in Seq(S) /\ Len(SubSeq(s, 1, n)) = n
      /\ SubSeq(Append(s, e), 1, n) \in Seq(S) /\ Len(SubSeq(Append(s, e), 1, n)) = n
      /\ \A i \in 1..n : SubSeq(s, 1, n)[i] = s[i]
      /\ \A i \in 1..n : SubSeq(Append(s, e), 1, n)[i] = Append(s, e)[i]
  BY <1>1, TakeFacts
<1>3. \A i \in 1..n : SubSeq(Append(s, e), 1, n)[i] = SubSeq(s, 1, n)[i]
  BY <1>2, AppendFacts
<1> QED BY <1>2, <1>3, SeqEqual

-----------------------------------------------------------------------------
(* Type correctness.  The count needs FileInv: a chunk that is counted has *)
(* passed the limit.                                                       *)

TypeParts ==
    /\ open \subseteq Upload /\ declared \subseteq Upload /\ stale \subseteq Upload
    /\ library \subseteq Upload
    /\ received \in [Upload -> Nat] /\ \A u \in Upload \ torn : received[u] <= MaxUpload
    /\ lock \in [Upload -> Handler \cup {NoOne}]
    /\ data \in [Upload -> Seq(0..Chunks)]
    /\ place \in [Upload -> {"none", "temp", "videos", "removed"}]
    /\ writes \subseteq [upload : Upload, chunk : 1..Chunks, by : Handler]
    /\ cuts \subseteq [upload : Upload, to : Nat, by : Handler] /\ torn \subseteq Upload
    /\ counted \in [Upload -> Seq(1..Chunks)] /\ claimed \in [Upload -> Seq(0..Chunks)]

Clients == [Upload -> [next : 0..GivenUp, waits : Handler \cup {NoOne}]]

LEMMA TypeSplit ==
    /\ TypeOK <=> TypeParts /\ proc \in [Process -> Places] /\ client \in Clients
    /\ TypeOK' <=> TypeParts' /\ proc' \in [Process -> Places] /\ client' \in Clients
<1>1. TypeOK <=> TypeParts /\ proc \in [Process -> Places] /\ client \in Clients
  BY DEF TypeOK, TypeParts, Places, Writing, Clients
<1>2. TypeOK' <=> TypeParts' /\ proc' \in [Process -> Places] /\ client' \in Clients
  BY DEF TypeOK, TypeParts, Places, Writing, Clients
<1> QED BY <1>1, <1>2

(* A file that is removed or set to a length is a sequence of chunks and   *)
(* zeros.                                                                  *)
LEMMA UnlinkType ==
    ASSUME TypeOK, NEW u \in Upload, Unlink(u)
    PROVE  /\ data' \in [Upload -> Seq(0..Chunks)] /\ data'[u] = <<>>
           /\ place' \in [Upload -> {"none", "temp", "videos", "removed"}]
           /\ writes' = {w \in writes : w.upload # u}
           /\ cuts' = {c \in cuts : c.upload # u}
           /\ \A v \in Upload : v # u => data'[v] = data[v]
<1>1. <<>> \in Seq(0..Chunks)
  BY EmptySeq
<1> QED BY <1>1 DEF Unlink, Lost, TypeOK

LEMMA SetLenFacts ==
    ASSUME NEW s \in Seq(0..Chunks), NEW n \in Nat
    PROVE  /\ SetLen(s, n) \in Seq(0..Chunks)
           /\ n <= Len(s) => SetLen(s, n) = SubSeq(s, 1, n)
<1>1. Len(s) \in Nat /\ \A i \in 1..Len(s) : s[i] \in 0..Chunks
  BY LenProperties, ElementOfSeq
<1>2. SetLen(s, n) \in [1..n -> 0..Chunks]
  BY <1>1, Numbers DEF SetLen
<1>3. SetLen(s, n) \in Seq(0..Chunks)
  BY <1>2, SeqDef
<1>4. ASSUME n <= Len(s)
      PROVE  SetLen(s, n) = SubSeq(s, 1, n)
  <2>1. n \in 0..Len(s)
    BY <1>1, <1>4
  <2>2. /\ SubSeq(s, 1, n) \in Seq(0..Chunks) /\ Len(SubSeq(s, 1, n)) = n
        /\ \A i \in 1..n : SubSeq(s, 1, n)[i] = s[i]
    BY <2>1, TakeFacts
  <2>3. \A i \in 1..n : SetLen(s, n)[i] = s[i]
    BY <1>1, <1>4 DEF SetLen
  <2>4. Len(SetLen(s, n)) = n
    BY <1>2, <1>3, LenProperties
  <2> QED BY <1>3, <2>2, <2>3, <2>4, SeqEqual
<1> QED BY <1>3, <1>4

(* A roll-back touches nothing until it lands. *)
LEMMA RollBackType ==
    ASSUME TypeOK, NEW h \in Handler, U(h) \in Upload, RollBack(h)
    PROVE  /\ writes' \subseteq writes
           /\ cuts' = cuts \cup {[upload |-> U(h), to |-> proc[h].base, by |-> h]}
           /\ cuts' \subseteq [upload : Upload, to : Nat, by : Handler]
           /\ UNCHANGED <<data, place, lock, client>>
<1>1. proc[h].base \in Nat
  BY DEF TypeOK, Process
<1> QED BY <1>1 DEF RollBack, RolledBack, TypeOK

LEMMA TypeKept ==
    ASSUME UploadInv, [Next]_vars
    PROVE  TypeOK'
<1> USE Numbers, UploadAssumption DEF UploadInv
<1>0. /\ TypeParts /\ proc \in [Process -> Places] /\ client \in Clients
      /\ Handler \subseteq Process
  BY TypeSplit DEF Process
<1>1. CASE JanitorStarts \/ JanitorEnds
  <2>1. "janitor" \in Process /\ StaleIds \in SUBSET Upload
    BY <1>0 DEF Process, StaleIds, TypeParts
  <2>2. proc' \in [Process -> Places]
    BY <1>0, <1>1, <2>1, EndsType DEF JanitorStarts, JanitorEnds, Places
  <2>3. TypeParts' /\ client' = client
    BY <1>0, <1>1 DEF JanitorStarts, JanitorEnds, TypeParts, session, disk, history
  <2> QED BY <1>0, <2>2, <2>3, TypeSplit
<1>2. ASSUME NEW p \in Process, NEW u \in Upload, Sweep(p, u)
      PROVE  TypeOK'
  <2>1. proc' \in [Process -> Places]
    BY <1>0, <1>2 DEF Sweep, Done, Places
  <2>2. TypeParts' /\ client' = client
    BY <1>0, <1>2, UnlinkType DEF Sweep, TypeParts, disk, history
  <2> QED BY <1>0, <2>1, <2>2, TypeSplit
<1>3. ASSUME NEW h \in Handler, NEW u \in Upload, Ask(h, u) \/ Direct(h, u)
      PROVE  TypeOK'
  <2>1. StaleIds \in SUBSET Upload
    BY <1>0 DEF StaleIds, TypeParts
  <2>2. proc' \in [Process -> Places]
    <3>1. CASE Ask(h, u)
      <4>1. client[u].next \in 0..Finish
        BY <3>1 DEF Ask, TypeOK
      <4> QED BY <1>0, <2>1, <3>1, <4>1 DEF Ask, Places
    <3>2. CASE Direct(h, u)
      BY <1>0, <3>2 DEF Direct, Places
    <3> QED BY <1>3, <3>1, <3>2
  <2>3. client' \in Clients
    <3>1. GivenUp \in 0..GivenUp /\ client[u].next \in 0..GivenUp
      BY <1>0 DEF Clients
    <3> QED BY <1>0, <1>3, <3>1 DEF Ask, Direct, Clients
  <2>4. TypeParts'
    BY <1>0, <1>3 DEF Ask, Direct, TypeParts, session, disk, history
  <2> QED BY <2>2, <2>3, <2>4, TypeSplit
<1>4. ASSUME NEW h \in Handler, Serve(h) \/ Body(h) \/ BodyFails(h) \/ Multipart(h)
      PROVE  TypeOK'
  <2>0. proc[h].at # "idle"
    BY <1>4 DEF Serve, Body, BodyFails, Multipart, StartSession, NotFound, AppendLock,
       AppendOpen, Counted, RolledBackEnds, Claim, Move, Publish, Asks
  <2>1. /\ ~At(h, {"idle"}) /\ U(h) \in Upload /\ proc[h].chunk + 1 \in 0..GivenUp
        /\ GivenUp \in 0..GivenUp /\ client[U(h)].next \in 0..GivenUp
    <3>1. U(h) \in Upload /\ ~At(h, {"idle"})
      BY <2>0 DEF PlaceInv, At
    <3>2. proc[h].chunk \in 0..Finish
      BY <1>0 DEF Places
    <3> QED BY <1>0, <3>1, <3>2 DEF Clients
  <2>2. proc' \in [Process -> Places]
    <3>1. CASE Ends(h)
      BY <1>0, <3>1, EndsType
    <3>2. ASSUME NEW at \in Writing \cup {"process", "publish"}, Goes(h, at)
          PROVE  proc' \in [Process -> Places]
      BY <3>2, GoesType
    <3>3. CASE AppendOpen(h) /\ ~Ends(h)
      <4>1. Len(data[U(h)]) \in Nat
        BY <1>0, <2>1, LenProperties DEF TypeParts
      <4>2. \A c \in 0..Finish :
              [at |-> "body", upload |-> U(h), chunk |-> c, base |-> Len(data[U(h)]), todo |-> {}]
                \in Places
        BY <2>1, <4>1 DEF Places, Writing
      <4>3. h \in Process /\ proc[h].chunk \in 0..Finish
        BY <1>0 DEF Places
      <4> QED BY <1>0, <3>3, <4>2, <4>3 DEF AppendOpen, Fails
    <3>4. CASE UNCHANGED proc
      BY <1>0, <3>4
    <3> QED BY <1>4, <3>1, <3>2, <3>3, <3>4 DEF Serve, Body, BodyFails, Multipart,
          StartSession, NotFound, AppendLock, AppendOpen, Counted, RolledBackEnds, RollBack,
          Claim, Move, Publish, Succeeds, Fails, Breaks, Writing
  <2>3. client' \in Clients
    <3>1. CASE UNCHANGED client
      BY <1>0, <3>1
    <3>2. CASE \E next \in 0..GivenUp : Hears(h, next)
      BY <3>2, HearsType DEF Clients
    <3> QED BY <1>4, <2>1, <3>1, <3>2 DEF Serve, Body, BodyFails, Multipart,
          StartSession, NotFound, AppendLock, AppendOpen, Counted, RolledBackEnds, RollBack,
          Claim, Move, Publish, Succeeds, Fails, Breaks
  <2>4. TypeParts'
    <3>1. CASE StartSession(h) \/ NotFound(h) \/ Publish(h)
      BY <1>0, <2>1, <3>1 DEF StartSession, NotFound, Publish, TypeParts, session, disk, history
    <3>2. CASE AppendLock(h)
      <4>1. CASE Unlink(U(h))
        BY <1>0, <2>1, <3>2, <4>1, UnlinkType DEF AppendLock, TypeParts, history
      <4>2. CASE ~Unlink(U(h))
        BY <1>0, <2>1, <3>2, <4>2 DEF AppendLock, TypeParts, disk, history
      <4> QED BY <4>1, <4>2
    <3>3. CASE AppendOpen(h)
      BY <1>0, <2>1, <3>3 DEF AppendOpen, Unlock, TypeParts, history
    <3>4. CASE Body(h) \/ BodyFails(h)
      <4>1. proc[h].chunk \in 1..Chunks
        BY <3>4 DEF Body, BodyFails, PlaceInv, At, Writing
      <4>2. CASE RollBack(h)
        BY <1>0, <2>1, <3>4, <4>2, RollBackType DEF Body, BodyFails, TypeParts, history
      <4>3. CASE ~RollBack(h)
        <5>1. [upload |-> U(h), chunk |-> proc[h].chunk, by |-> h]
                \in [upload : Upload, chunk : 1..Chunks, by : Handler]
          BY <2>1, <4>1
        <5> QED BY <1>0, <3>4, <4>3, <5>1 DEF Body, BodyFails, Unlock, TypeParts, disk, history
      <4> QED BY <4>2, <4>3
    <3>5. CASE Counted(h)
      <4>1. received[U(h)] + 1 \in Nat /\ (U(h) \notin torn => received[U(h)] + 1 <= MaxUpload)
        <5>1. proc[h].base < MaxUpload /\ (U(h) \notin torn => proc[h].base >= received[U(h)])
          BY <3>5 DEF Counted, FileInv, At, Past
        <5>2. received[U(h)] \in Nat /\ proc[h].base \in Nat
          BY <1>0, <2>1 DEF TypeParts, Places
        <5> QED BY <5>1, <5>2
      <4>2. proc[h].chunk \in 1..Chunks
        BY <3>5 DEF Counted, PlaceInv, At, Writing
      <4>3. Append(counted[U(h)], proc[h].chunk) \in Seq(1..Chunks)
        BY <1>0, <2>1, <4>2, AppendFacts DEF TypeParts
      <4>4. /\ received' \in [Upload -> Nat]
            /\ \A u \in Upload \ torn' : received'[u] <= MaxUpload
        BY <1>0, <2>1, <3>5, <4>1 DEF Counted, TypeParts
      <4> QED BY <1>0, <2>1, <3>5, <4>3, <4>4 DEF Counted, Unlock, TypeParts, disk
    <3>8. CASE RolledBackEnds(h)
      BY <1>0, <2>1, <3>8 DEF RolledBackEnds, Unlock, TypeParts, disk, history
    <3>6. CASE Claim(h) \/ Move(h)
      <4>1. CASE Unlink(U(h))
        BY <1>0, <2>1, <3>6, <4>1, UnlinkType DEF Claim, Move, TypeParts, session, history
      <4>2. CASE Claim(h) /\ ~Unlink(U(h))
        BY <1>0, <2>1, <4>2 DEF Claim, TypeParts, disk
      <4>3. CASE Move(h) /\ ~Unlink(U(h))
        BY <1>0, <2>1, <4>3 DEF Move, Lost, TypeParts, session, history
      <4> QED BY <3>6, <4>1, <4>2, <4>3
    <3>7. CASE Multipart(h)
      <4>1. CASE Unlink(U(h))
        BY <1>0, <2>1, <3>7, <4>1, UnlinkType DEF Multipart, TypeParts, session, history
      <4>2. CASE UNCHANGED disk
        BY <1>0, <3>7, <4>2 DEF Multipart, TypeParts, session, disk, history
      <4>3. CASE /\ Len(data[U(h)]) < Chunks
                 /\ data' = [data EXCEPT ![U(h)] = Append(@, Len(@) + 1)]
                 /\ UNCHANGED <<place, writes, cuts>>
        <5>1. Len(data[U(h)]) + 1 \in 0..Chunks
          BY <1>0, <2>1, <4>3, LenProperties DEF TypeParts
        <5>2. Append(data[U(h)], Len(data[U(h)]) + 1) \in Seq(0..Chunks)
          BY <1>0, <2>1, <5>1, AppendFacts DEF TypeParts
        <5> QED BY <1>0, <2>1, <3>7, <4>3, <5>2 DEF Multipart, TypeParts, session, history
      <4> QED BY <3>7, <4>1, <4>2, <4>3 DEF Multipart
    <3> QED BY <1>4, <3>1, <3>2, <3>3, <3>4, <3>5, <3>6, <3>7, <3>8 DEF Serve
  <2> QED BY <2>2, <2>3, <2>4, TypeSplit
<1>5. ASSUME NEW h \in Handler, HangUp(h)
      PROVE  TypeOK'
  <2>1. proc' \in [Process -> Places]
    BY <1>0, <1>5, EndsType DEF HangUp
  <2>2. TypeParts' /\ client' = client
    BY <1>0, <1>5 DEF HangUp, TypeParts, disk, history
  <2> QED BY <1>0, <2>1, <2>2, TypeSplit
<1>6. ASSUME NEW w \in writes, Lands(w)
      PROVE  TypeOK'
  <2>1. w.upload \in Upload /\ w.chunk \in 1..Chunks
    BY <1>0 DEF TypeParts
  <2>2. Append(data[w.upload], w.chunk) \in Seq(0..Chunks)
    <3>1. data[w.upload] \in Seq(0..Chunks) /\ w.chunk \in 0..Chunks
      BY <1>0, <2>1 DEF TypeParts
    <3> QED BY <3>1, AppendFacts
  <2>3. TypeParts' /\ proc' = proc /\ client' = client
    BY <1>0, <1>6, <2>2 DEF Lands, TypeParts, session, history
  <2> QED BY <1>0, <2>3, TypeSplit
<1>10. ASSUME NEW c \in cuts, CutLands(c)
      PROVE  TypeOK'
  <2>1. c.upload \in Upload /\ c.to \in Nat /\ data[c.upload] \in Seq(0..Chunks)
    BY <1>0 DEF TypeParts
  <2>2. SetLen(data[c.upload], c.to) \in Seq(0..Chunks)
    BY <2>1, SetLenFacts
  <2>3. data' \in [Upload -> Seq(0..Chunks)] /\ torn \subseteq torn' /\ torn' \subseteq Upload
    BY <1>0, <1>10, <2>1, <2>2 DEF CutLands, TypeParts
  <2>4. TypeParts' /\ proc' = proc /\ client' = client
    BY <1>0, <1>10, <2>3 DEF CutLands, TypeParts, session
  <2> QED BY <1>0, <2>4, TypeSplit
<1>7. ASSUME NEW u \in Upload, Abandon(u) \/ Age(u)
      PROVE  TypeOK'
  <2>1. client' \in Clients
    <3>1. GivenUp \in 0..GivenUp /\ client[u].next \in 0..GivenUp
      BY <1>0 DEF Clients
    <3> QED BY <1>0, <1>7, <3>1 DEF Abandon, Age, Clients
  <2>2. TypeParts' /\ proc' = proc
    BY <1>0, <1>7 DEF Abandon, Age, TypeParts, session, disk, history
  <2> QED BY <1>0, <2>1, <2>2, TypeSplit
<1>8. CASE Restart
  <2>1. proc' \in [Process -> Places]
    BY <1>8 DEF Restart, Idle, Places
  <2>2. client' \in Clients
    BY <1>0, <1>8 DEF Restart, Clients
  <2>3. TypeParts'
    BY <1>0, <1>8 DEF Restart, TypeParts, history
  <2> QED BY <2>1, <2>2, <2>3, TypeSplit
<1>9. CASE UNCHANGED vars
  BY <1>9 DEF vars, session, disk, history, TypeOK
<1> QED BY <1>1, <1>2, <1>3, <1>4, <1>5, <1>6, <1>7, <1>8, <1>9, <1>10 DEF Next

-----------------------------------------------------------------------------
(* What a step does to the handlers.                                       *)

(* A handler that stays where it is. *)
Same(h) ==
    /\ proc'[h].at = proc[h].at /\ proc'[h].upload = proc[h].upload
    /\ proc'[h].chunk = proc[h].chunk /\ proc'[h].base = proc[h].base

(* One that goes on with what it is about. *)
Passes(h, from, to) ==
    /\ proc[h].at = from /\ proc'[h].at = to
    /\ proc'[h].upload = proc[h].upload /\ proc'[h].chunk = proc[h].chunk

Works(h) == Serve(h) \/ Body(h) \/ BodyFails(h) \/ Multipart(h)

(* An operation of the blocking pool lands. *)
Landing == (\E w \in writes : Lands(w)) \/ (\E c \in cuts : CutLands(c))

(* The maintenance task, and time. *)
Quiet == JanitorStarts \/ JanitorEnds \/ (\E u \in Upload : Age(u)) \/ UNCHANGED vars

(* Neither the maintenance task nor time changes what the invariants say.  *)
LEMMA QuietSteps ==
    ASSUME UploadInv, Quiet
    PROVE  /\ \A h \in Handler : Same(h)
           /\ UNCHANGED <<open, declared, received, lock, data, writes, cuts, client, counted, claimed,
                       torn>>
<1>1. ASSUME NEW h \in Handler
      PROVE  Same(h)
  <2>1. h # "janitor" /\ h \in Process /\ proc \in [Process -> Places]
    BY UploadAssumption, TypeSplit DEF Process, UploadInv
  <2> QED BY <2>1 DEF Quiet, JanitorStarts, JanitorEnds, Age, Ends, vars, Same
<1>2. UNCHANGED <<open, declared, received, lock, data, writes, cuts, client, counted, claimed,
                       torn>>
  BY DEF Quiet, JanitorStarts, JanitorEnds, Age, vars, session, disk, history
<1> QED BY <1>1, <1>2

RollsBack(h) ==
    /\ Body(h) \/ BodyFails(h)
    /\ RollBack(h)
    /\ Passes(h, "body", "undo") \/ Passes(h, "flush", "undo")

(* A handler that works leaves the others alone, and ends, stays or goes   *)
(* on to its next await.                                                   *)
LEMMA WorkSteps ==
    ASSUME UploadInv, NEW h \in Handler, Works(h)
    PROVE  /\ U(h) \in Upload /\ proc[h].at # "idle"
           /\ \A g \in Handler : g # h => proc'[g] = proc[g]
           /\ \/ proc'[h] = Idle
              \/ Multipart(h) /\ Same(h)
              \/ AppendLock(h) /\ Passes(h, "sweep", "open")
              \/ AppendOpen(h) /\ Passes(h, "open", "body") /\ proc'[h].base = Len(data[U(h)])
              \/ Body(h) /\ Passes(h, "body", "flush") /\ proc'[h].base = proc[h].base
              \/ RollsBack(h) /\ proc'[h].base = proc[h].base
              \/ Claim(h) /\ Passes(h, "sweep", "process")
              \/ Multipart(h) /\ Passes(h, "multipart", "process")
              \/ Move(h) /\ Passes(h, "process", "publish")
           /\ StartSession(h) \/ NotFound(h) \/ Counted(h) \/ Publish(h) \/ RolledBackEnds(h)
                => proc'[h] = Idle
<1> USE DEF UploadInv
<1>0. proc \in [Process -> Places] /\ h \in Process /\ Handler \subseteq Process
  BY TypeSplit DEF Process
<1>1. proc[h].at # "idle"
  BY DEF Works, Serve, Body, BodyFails, Multipart, StartSession, NotFound, AppendLock,
     AppendOpen, Counted, RolledBackEnds, Claim, Move, Publish, Asks
<1>2. U(h) \in Upload
  BY <1>1 DEF PlaceInv, At
<1>12. StartSession(h) \/ NotFound(h) \/ Counted(h) \/ Publish(h) \/ RolledBackEnds(h)
         => proc'[h] = Idle
  <2>1. Ends(h) => proc'[h] = Idle
    BY <1>0, EndsType
  <2> QED BY <2>1 DEF StartSession, NotFound, Counted, Publish, RolledBackEnds, Succeeds, Fails, Breaks
<1>3. CASE Ends(h)
  BY <1>12, <1>0, <1>1, <1>2, <1>3, EndsType
<1>4. CASE Multipart(h) /\ UNCHANGED proc
  BY <1>12, <1>1, <1>2, <1>4 DEF Same
<1>5. CASE AppendLock(h) /\ Goes(h, "open")
  BY <1>12, <1>0, <1>1, <1>2, <1>5 DEF AppendLock, Asks, Goes, Passes
<1>6. CASE AppendOpen(h) /\ ~Ends(h)
  BY <1>12, <1>0, <1>1, <1>2, <1>6 DEF AppendOpen, Fails, Passes, U
<1>7. CASE Body(h) /\ Goes(h, "flush")
  BY <1>12, <1>0, <1>1, <1>2, <1>7 DEF Body, Goes, Passes
<1>13. CASE (Body(h) \/ BodyFails(h)) /\ RollBack(h)
  BY <1>12, <1>0, <1>1, <1>2, <1>13 DEF Body, BodyFails, RollBack, RollsBack, Goes, Passes
<1>8. CASE Claim(h) /\ Goes(h, "process")
  BY <1>12, <1>0, <1>1, <1>2, <1>8 DEF Claim, Asks, Goes, Passes
<1>9. CASE Multipart(h) /\ Goes(h, "process")
  BY <1>12, <1>0, <1>1, <1>2, <1>9 DEF Multipart, Goes, Passes
<1>10. CASE Move(h) /\ Goes(h, "publish")
  BY <1>12, <1>0, <1>1, <1>2, <1>10 DEF Move, Goes, Passes
<1>11. \/ Ends(h)
       \/ Multipart(h) /\ UNCHANGED proc
       \/ AppendLock(h) /\ Goes(h, "open")
       \/ AppendOpen(h) /\ ~Ends(h)
       \/ Body(h) /\ Goes(h, "flush")
       \/ (Body(h) \/ BodyFails(h)) /\ RollBack(h)
       \/ Claim(h) /\ Goes(h, "process")
       \/ Multipart(h) /\ Goes(h, "process")
       \/ Move(h) /\ Goes(h, "publish")
  <2>1. CASE StartSession(h) \/ NotFound(h) \/ Counted(h) \/ Publish(h) \/ RolledBackEnds(h)
    BY <2>1 DEF StartSession, NotFound, Counted, Publish, RolledBackEnds, Succeeds, Fails, Breaks
  <2>2. CASE AppendLock(h) \/ AppendOpen(h) \/ Body(h) \/ BodyFails(h)
    BY <2>2 DEF AppendLock, Body, BodyFails, Fails
  <2>3. CASE Claim(h) \/ Move(h) \/ Multipart(h)
    BY <2>3 DEF Claim, Move, Multipart, Fails
  <2> QED BY <2>1, <2>2, <2>3 DEF Works, Serve
<1> QED BY <1>3, <1>4, <1>5, <1>6, <1>7, <1>8, <1>9, <1>10, <1>11, <1>12, <1>13

(* The client of a handler that works hears of it, or nobody does.         *)
LEMMA WorkHears ==
    ASSUME UploadInv, NEW h \in Handler, Works(h)
    PROVE  \A u \in Upload :
             \/ client'[u] = client[u]
             \/ /\ u = U(h) /\ client[u].waits = h /\ client'[u].waits = NoOne
                /\ proc'[h] = Idle
                /\ \/ client'[u].next = GivenUp
                   \/ RolledBackEnds(h) /\ client'[u].next = client[u].next
                   \/ /\ StartSession(h) \/ Counted(h) \/ Publish(h)
                      /\ client'[u].next = proc[h].chunk + 1
<1> USE DEF UploadInv
<1>0. /\ proc \in [Process -> Places] /\ h \in Process /\ U(h) \in Upload
      /\ client \in Clients /\ Handler \subseteq Process
  BY TypeSplit, WorkSteps DEF Process
<1>1. proc[h].chunk + 1 \in 0..GivenUp /\ client[U(h)].next \in 0..GivenUp /\ GivenUp \in 0..GivenUp
  <2>1. proc[h].chunk \in 0..Finish
    BY <1>0 DEF Places
  <2> QED BY <1>0, <2>1, Numbers DEF Clients
<1>2. CASE Fails(h)
  BY <1>1, <1>2, <1>0, HearsType, EndsType DEF Fails
<1>3. CASE RolledBackEnds(h)
  BY <1>1, <1>3, <1>0, HearsType, EndsType DEF RolledBackEnds, Breaks, Fails
<1>4. CASE Succeeds(h) /\ (StartSession(h) \/ Counted(h) \/ Publish(h))
  BY <1>1, <1>4, <1>0, HearsType, EndsType DEF Succeeds
<1>5. CASE UNCHANGED client
  BY <1>5
<1>6. \/ Fails(h) \/ RolledBackEnds(h) \/ UNCHANGED client
      \/ Succeeds(h) /\ (StartSession(h) \/ Counted(h) \/ Publish(h))
  <2>1. CASE StartSession(h) \/ NotFound(h) \/ Counted(h) \/ Publish(h) \/ RolledBackEnds(h)
    BY <2>1 DEF StartSession, NotFound, Counted, Publish
  <2>2. CASE AppendLock(h) \/ AppendOpen(h) \/ Body(h) \/ BodyFails(h)
    BY <2>2 DEF AppendLock, AppendOpen, Body, BodyFails, RollBack
  <2>3. CASE Claim(h) \/ Move(h) \/ Multipart(h)
    BY <2>3 DEF Claim, Move, Multipart
  <2> QED BY <2>1, <2>2, <2>3 DEF Works, Serve
<1> QED BY <1>2, <1>3, <1>4, <1>5, <1>6

(* What the other steps do to the handlers.                                *)
LEMMA OtherSteps ==
    ASSUME UploadInv
    PROVE  /\ \A p \in Process, u \in Upload : Sweep(p, u) => \A h \in Handler : Same(h)
           /\ \A h \in Handler : HangUp(h) =>
                /\ proc'[h] = Idle
                /\ \A g \in Handler : g # h => proc'[g] = proc[g]
           /\ Restart => \A h \in Handler : proc'[h] = Idle
           /\ \A h \in Handler, u \in Upload : Ask(h, u) \/ Direct(h, u) =>
                /\ \A g \in Handler : g # h => proc'[g] = proc[g]
                /\ proc[h].at = "idle"
                /\ proc'[h].upload = u
                /\ Ask(h, u) => proc'[h].at = "sweep" /\ proc'[h].chunk = client[u].next
                /\ Direct(h, u) => proc'[h].at = "multipart" /\ proc'[h].chunk = Finish
<1>0. proc \in [Process -> Places] /\ Handler \subseteq Process
  BY TypeSplit DEF UploadInv, Process
<1>1. ASSUME NEW p \in Process, NEW u \in Upload, Sweep(p, u), NEW h \in Handler
      PROVE  Same(h)
  BY <1>0, <1>1 DEF Sweep, Done, Same
<1>2. ASSUME NEW h \in Handler, HangUp(h)
      PROVE  proc'[h] = Idle /\ \A g \in Handler : g # h => proc'[g] = proc[g]
  BY <1>0, <1>2, EndsType DEF HangUp, UploadInv
<1>3. Restart => \A h \in Handler : proc'[h] = Idle
  BY <1>0 DEF Restart
<1>4. ASSUME NEW h \in Handler, NEW u \in Upload, Ask(h, u) \/ Direct(h, u)
      PROVE  /\ \A g \in Handler : g # h => proc'[g] = proc[g]
             /\ proc[h].at = "idle"
             /\ proc'[h].upload = u
             /\ Ask(h, u) => proc'[h].at = "sweep" /\ proc'[h].chunk = client[u].next
             /\ Direct(h, u) => proc'[h].at = "multipart" /\ proc'[h].chunk = Finish
  BY <1>0, <1>4 DEF Ask, Direct, Idle
<1> QED BY <1>1, <1>2, <1>3, <1>4

LEMMA NextSteps ==
    [Next]_vars => \/ Quiet \/ Restart
                   \/ \E p \in Process, u \in Upload : Sweep(p, u)
                   \/ \E h \in Handler, u \in Upload : Ask(h, u) \/ Direct(h, u)
                   \/ \E h \in Handler : Works(h) \/ HangUp(h)
                   \/ Landing
                   \/ \E u \in Upload : Abandon(u)
BY DEF Next, Quiet, Works, Landing

(* What only a request for a session, a counted chunk and a claim change;   *)
(* what is torn stays so.                                                  *)
LEMMA MapSteps ==
    ASSUME UploadInv, [Next]_vars
    PROVE  /\ \/ open' \subseteq open /\ declared' = declared
              \/ \E h \in Handler : StartSession(h)
           /\ \/ counted' = counted /\ received' = received
              \/ \E h \in Handler : Counted(h)
           /\ \/ claimed' = claimed
              \/ \E h \in Handler : Claim(h)
           /\ torn \subseteq torn'
<1>1. CASE Quiet \/ Restart
  BY <1>1, QuietSteps DEF Restart, Quiet, JanitorStarts, JanitorEnds, Age, session, history, vars
<1>2. CASE \E p \in Process, u \in Upload : Sweep(p, u)
  BY <1>2 DEF Sweep, history
<1>3. CASE Landing \/ \E u \in Upload : Abandon(u)
  BY <1>3 DEF Landing, Lands, CutLands, Abandon, session, history
<1>4. CASE \E h \in Handler, u \in Upload : Ask(h, u) \/ Direct(h, u)
  BY <1>4 DEF Ask, Direct, session, history
<1>5. CASE \E h \in Handler : Works(h) \/ HangUp(h)
  <2>1. PICK h \in Handler : Works(h) \/ HangUp(h)
    BY <1>5
  <2>2. CASE StartSession(h)
    BY <2>2 DEF StartSession, history
  <2>3. CASE Counted(h) \/ RolledBackEnds(h) \/ Claim(h) \/ HangUp(h)
    BY <2>3 DEF Counted, RolledBackEnds, Claim, HangUp, history
  <2>4. CASE NotFound(h) \/ AppendLock(h) \/ AppendOpen(h) \/ Move(h) \/ Publish(h)
    BY <2>4 DEF NotFound, AppendLock, AppendOpen, Move, Publish, session, history
  <2>5. CASE Body(h) \/ BodyFails(h) \/ Multipart(h)
    BY <2>5 DEF Body, BodyFails, Multipart, session, history
  <2> QED BY <2>1, <2>2, <2>3, <2>4, <2>5 DEF Works, Serve
<1> QED BY <1>1, <1>2, <1>3, <1>4, <1>5, NextSteps

(* What a client is told, or does. *)
LEMMA ClientSteps ==
    ASSUME UploadInv, [Next]_vars, NEW u \in Upload, client'[u] # client[u]
    PROVE  \/ \E h \in Handler : Ask(h, u) /\ client'[u].next = client[u].next /\ client'[u].waits = h
           \/ client'[u].next = GivenUp
           \/ /\ client'[u].next = client[u].next /\ client'[u].waits = NoOne
              /\ client[u].next # Start \/ Restart \/ \E h \in Handler : Works(h) /\ U(h) = u
           \/ \E h \in Handler : /\ Works(h) /\ U(h) = u /\ client[u].waits = h
                                 /\ StartSession(h) \/ Counted(h) \/ Publish(h)
                                 /\ client'[u].next = proc[h].chunk + 1 /\ proc'[h] = Idle
<1>0. client \in Clients
  BY TypeSplit DEF UploadInv
<1>1. CASE Quiet \/ Landing \/ (\E h \in Handler : HangUp(h))
  BY <1>1, QuietSteps DEF Landing, Lands, CutLands, HangUp
<1>2. CASE Restart
  BY <1>0, <1>2 DEF Restart
<1>3. CASE \E p \in Process, v \in Upload : Sweep(p, v)
  BY <1>3 DEF Sweep
<1>4. CASE \E v \in Upload : Abandon(v)
  BY <1>0, <1>4 DEF Abandon, Clients
<1>5. CASE \E h \in Handler, v \in Upload : Ask(h, v) \/ Direct(h, v)
  BY <1>0, <1>5 DEF Ask, Direct, Clients
<1>6. CASE \E h \in Handler : Works(h)
  BY <1>6, WorkHears
<1> QED BY <1>1, <1>2, <1>3, <1>4, <1>5, <1>6, NextSteps

(* Where a handler gets to.                                                *)
LEMMA HandlerSteps ==
    ASSUME UploadInv, [Next]_vars, NEW h \in Handler
    PROVE  \/ Same(h) \/ proc'[h] = proc[h] \/ proc'[h] = Idle \/ Works(h)
           \/ \E u \in Upload : Ask(h, u) \/ Direct(h, u)
<1>1. CASE Quiet \/ Restart
  BY <1>1, QuietSteps, OtherSteps
<1>2. CASE \E p \in Process, u \in Upload : Sweep(p, u)
  BY <1>2, OtherSteps
<1>3. CASE Landing \/ \E u \in Upload : Abandon(u)
  BY <1>3 DEF Landing, Lands, CutLands, Abandon
<1>4. CASE \E g \in Handler, u \in Upload : Ask(g, u) \/ Direct(g, u)
  BY <1>4, OtherSteps
<1>5. CASE \E g \in Handler : Works(g) \/ HangUp(g)
  BY <1>5, WorkSteps, OtherSteps
<1> QED BY <1>1, <1>2, <1>3, <1>4, <1>5, NextSteps

(* A file is touched by the sweep of its session, by a handler that is     *)
(* about it, and by an operation that lands.                               *)
Untouched(u) ==
    /\ data'[u] = data[u]
    /\ \A w \in writes' : w.upload = u => w \in writes
    /\ \A c \in cuts' : c.upload = u => c \in cuts

LEMMA FileSteps ==
    ASSUME UploadInv, [Next]_vars, NEW u \in Upload
    PROVE  \/ Untouched(u)
           \/ \E p \in Process : Sweep(p, u) /\ u \in open /\ u \notin open'
           \/ \E h \in Handler : Works(h) /\ U(h) = u
           \/ \E w \in writes : Lands(w) /\ w.upload = u
           \/ \E c \in cuts : CutLands(c) /\ c.upload = u
<1>0. /\ data \in [Upload -> Seq(0..Chunks)]
      /\ \A w \in writes : w.upload \in Upload
      /\ \A c \in cuts : c.upload \in Upload
  BY DEF UploadInv, TypeOK
<1>1. CASE Quiet \/ Restart
  BY <1>1, QuietSteps DEF Restart, Untouched
<1>2. ASSUME NEW p \in Process, NEW v \in Upload, Sweep(p, v)
      PROVE  Untouched(u) \/ (v = u /\ u \in open /\ u \notin open')
  BY <1>0, <1>2 DEF Sweep, Unlink, Lost, disk, Untouched
<1>3. CASE \E v \in Upload : Abandon(v)
  BY <1>3 DEF Abandon, disk, Untouched
<1>4. CASE \E h \in Handler, v \in Upload : Ask(h, v) \/ Direct(h, v)
  BY <1>4 DEF Ask, Direct, disk, Untouched
<1>5. ASSUME NEW w \in writes, Lands(w), w.upload # u
      PROVE  Untouched(u)
  BY <1>0, <1>5 DEF Lands, Untouched
<1>8. ASSUME NEW c \in cuts, CutLands(c), c.upload # u
      PROVE  Untouched(u)
  BY <1>0, <1>8 DEF CutLands, Untouched
<1>6. ASSUME NEW h \in Handler, HangUp(h)
      PROVE  Untouched(u)
  BY <1>6 DEF HangUp, disk, Untouched
<1>7. ASSUME NEW h \in Handler, Works(h), U(h) # u
      PROVE  Untouched(u)
  <2>0. U(h) \in Upload
    BY <1>7, WorkSteps
  <2>1. CASE StartSession(h) \/ NotFound(h) \/ Publish(h) \/ Counted(h) \/ RolledBackEnds(h)
    BY <2>1 DEF StartSession, NotFound, Publish, Counted, RolledBackEnds, disk, Untouched
  <2>2. CASE AppendLock(h) \/ AppendOpen(h)
    BY <1>0, <1>7, <2>0, <2>2 DEF AppendLock, AppendOpen, Unlink, Lost, disk, Untouched
  <2>3. CASE Body(h) \/ BodyFails(h)
    BY <1>0, <1>7, <2>0, <2>3 DEF Body, BodyFails, RollBack, disk, Untouched
  <2>4. CASE Claim(h) \/ Move(h) \/ Multipart(h)
    BY <1>0, <1>7, <2>0, <2>4 DEF Claim, Move, Multipart, Unlink, Lost, disk, Untouched
  <2> QED BY <1>7, <2>1, <2>2, <2>3, <2>4 DEF Works, Serve
<1> QED BY <1>1, <1>2, <1>3, <1>4, <1>5, <1>6, <1>7, <1>8, NextSteps DEF Landing

-----------------------------------------------------------------------------
(* The invariants, one at a time.                                          *)

LEMMA PlaceKept ==
    ASSUME UploadInv, [Next]_vars
    PROVE  PlaceInv'
<1> USE DEF UploadInv
<1> DEFINE Good(r) == /\ r.at # "idle" => r.upload \in Upload
                      /\ r.at \in Writing => r.chunk \in 1..Chunks
                      /\ r.at \in {"multipart", "process", "publish"} => r.chunk = Finish
<1>0. \A h \in Handler : Good(proc[h])
  BY DEF PlaceInv, At, U
<1>1. \A h \in Handler : Same(h) \/ proc'[h] = proc[h] \/ proc'[h] = Idle => Good(proc'[h])
  BY <1>0 DEF Same, Idle, Writing
<1>2. ASSUME NEW h \in Handler, Works(h)
      PROVE  Good(proc'[h])
  <2>1. proc[h].upload \in Upload /\ Good(proc[h])
    BY <1>0, <1>2, WorkSteps
  <2>2. AppendLock(h) => proc[h].chunk \in 1..Chunks
    BY DEF AppendLock, Asks
  <2>3. Claim(h) => proc[h].chunk = Finish
    BY DEF Claim, Asks
  <2> QED BY <1>1, <1>2, <2>1, <2>2, <2>3, WorkSteps DEF Passes, RollsBack, Writing
<1>3. ASSUME NEW h \in Handler, NEW u \in Upload, Ask(h, u) \/ Direct(h, u)
      PROVE  Good(proc'[h])
  BY <1>3, OtherSteps DEF Writing
<1>4. \A h \in Handler : Good(proc'[h])
  <2> SUFFICES ASSUME NEW h \in Handler PROVE Good(proc'[h])
    OBVIOUS
  <2>1. CASE Quiet
    BY <1>1, <2>1, QuietSteps
  <2>2. CASE Restart \/ \E p \in Process, u \in Upload : Sweep(p, u)
    BY <1>1, <2>2, OtherSteps
  <2>3. CASE \E g \in Handler, u \in Upload : Ask(g, u) \/ Direct(g, u)
    BY <1>1, <1>3, <2>3, OtherSteps
  <2>4. CASE \E g \in Handler : Works(g) \/ HangUp(g)
    BY <1>1, <1>2, <2>4, WorkSteps, OtherSteps
  <2>5. CASE Landing \/ \E u \in Upload : Abandon(u)
    BY <1>1, <2>5 DEF Landing, Lands, CutLands, Abandon
  <2> QED BY <2>1, <2>2, <2>3, <2>4, <2>5, NextSteps
<1> QED BY <1>4 DEF PlaceInv, At, U

(* The lock of a session is free when it is swept or claimed, and its      *)
(* writer holds it.                                                        *)
LEMMA WriterKept ==
    ASSUME UploadInv, [Next]_vars
    PROVE  WriterOwnsSession'
<1> USE DEF UploadInv
<1> DEFINE W(h, o, l) == proc[h].at \in Writing => U(h) \in o /\ l[U(h)] = h
<1>0. \A h \in Handler : W(h, open, lock)
  BY DEF WriterOwnsSession, Writing
<1>1. ASSUME NEW h \in Handler, Same(h) \/ proc'[h] = proc[h], W(h, open', lock')
      PROVE  W(h, open, lock)'
  BY <1>1 DEF Same, U
<1>2. ASSUME NEW h \in Handler, proc'[h] = Idle
      PROVE  W(h, open, lock)'
  BY <1>2 DEF Idle, Writing
<1>3. ASSUME NEW h \in Handler, Works(h), NEW g \in Handler
      PROVE  W(g, open, lock)'
  <2>0. /\ U(h) \in Upload /\ h # NoOne /\ g # NoOne /\ lock \in [Upload -> Handler \cup {NoOne}]
        /\ W(h, open, lock) /\ W(g, open, lock)
    BY <1>0, <1>3, WorkSteps, UploadAssumption DEF TypeOK
  <2>1. CASE g = h
    <3>1. CASE proc'[h].at \in Writing
      <4>1. \/ AppendLock(h) /\ Passes(h, "sweep", "open")
            \/ AppendOpen(h) /\ Passes(h, "open", "body")
            \/ Body(h) /\ Passes(h, "body", "flush")
            \/ RollsBack(h)
        BY <1>3, <3>1, WorkSteps DEF Multipart, Passes, Same, Writing, Idle
      <4>2. U(h) \in open' /\ lock'[U(h)] = h
        <5>1. CASE AppendLock(h) /\ Passes(h, "sweep", "open")
          BY <2>0, <5>1, UploadAssumption DEF AppendLock, Passes, Fails, Ends, Idle, Process, TypeOK
        <5>2. CASE AppendOpen(h) /\ Passes(h, "open", "body")
          BY <2>0, <5>2 DEF AppendOpen, Passes, Fails, Ends, Idle, Process, TypeOK, Writing
        <5>3. CASE Body(h) /\ Passes(h, "body", "flush")
          <6>1. ~Fails(h)
            BY <5>3, EndsType DEF Fails, Passes, Idle, Process
          <6> QED BY <2>0, <5>3, <6>1 DEF Body, RollBack, Passes, Writing
        <5>4. CASE RollsBack(h)
          BY <2>0, <5>4 DEF RollsBack, RollBack, Body, BodyFails, Passes, Writing
        <5> QED BY <4>1, <5>1, <5>2, <5>3, <5>4
      <4> QED BY <2>1, <4>1, <4>2 DEF Passes, RollsBack, U
    <3> QED BY <2>1, <3>1
  <2>2. CASE g # h /\ proc[g].at \in Writing
    <3>1. lock[U(g)] = g /\ U(g) \in open
      BY <2>0, <2>2
    <3>2. proc[h].at \in Writing => U(h) # U(g)
      BY <2>0, <2>2
    <3>3. U(g) \in open'
      BY <1>3, <2>0, <3>1 DEF Works, Serve, Body, BodyFails, Multipart, StartSession, NotFound,
         AppendLock, AppendOpen, Counted, RolledBackEnds, Claim, Move, Publish, session
    <3>4. lock'[U(g)] = g
      <4>1. CASE lock' = lock
        BY <3>1, <4>1
      <4>2. CASE Unlock(h) /\ proc[h].at \in Writing
        BY <2>0, <3>1, <3>2, <4>2 DEF Unlock
      <4>3. CASE AppendLock(h) /\ lock[U(h)] = NoOne
        <5>1. U(h) # U(g)
          BY <2>0, <3>1, <4>3
        <5>2. U(g) \in Upload
          BY <3>1 DEF TypeOK
        <5>3. lock' = lock \/ lock' = [lock EXCEPT ![U(h)] = h]
          BY <4>3, Zenon DEF AppendLock
        <5> QED BY <2>0, <3>1, <5>1, <5>2, <5>3
      <4> QED BY <1>3, <4>1, <4>2, <4>3 DEF Works, Serve, Body, BodyFails, Multipart,
            StartSession, NotFound, AppendLock, AppendOpen, Counted, RolledBackEnds, Claim, Move,
            Publish, session, RollBack, Writing
    <3> QED BY <1>1, <1>3, <2>2, <3>3, <3>4, WorkSteps
  <2>3. CASE g # h /\ proc[g].at \notin Writing
    BY <1>3, <2>3, WorkSteps
  <2> QED BY <2>1, <2>2, <2>3
<1>4. ASSUME NEW p \in Process, NEW u \in Upload, Sweep(p, u), NEW h \in Handler
      PROVE  W(h, open, lock)'
  <2>1. h # NoOne /\ W(h, open, lock)
    BY <1>0, UploadAssumption
  <2>2. W(h, open', lock')
    BY <1>4, <2>1 DEF Sweep
  <2> QED BY <1>1, <1>4, <2>2, OtherSteps
<1>5. ASSUME NEW h \in Handler, HangUp(h), NEW g \in Handler
      PROVE  W(g, open, lock)'
  <2>1. CASE g = h
    BY <1>2, <1>5, <2>1, OtherSteps
  <2>2. CASE g # h
    <3>1. W(g, open', lock')
      BY <1>0, <1>5, <2>2 DEF HangUp, TypeOK
    <3> QED BY <1>1, <1>5, <2>2, <3>1, OtherSteps
  <2> QED BY <2>1, <2>2
<1>6. ASSUME NEW h \in Handler, NEW u \in Upload, Ask(h, u) \/ Direct(h, u), NEW g \in Handler
      PROVE  W(g, open, lock)'
  <2>1. open' = open /\ lock' = lock
    BY <1>6 DEF Ask, Direct, session
  <2> QED BY <1>0, <1>1, <1>6, <2>1, OtherSteps DEF Writing
<1>7. ASSUME NEW h \in Handler
      PROVE  W(h, open, lock)'
  <2>1. CASE Quiet
    BY <1>0, <1>1, <2>1, QuietSteps
  <2>2. CASE Restart
    BY <1>2, <2>2, OtherSteps
  <2>3. CASE Landing \/ \E u \in Upload : Abandon(u)
    BY <1>0, <1>1, <2>3 DEF Landing, Lands, CutLands, Abandon, session
  <2> QED BY <1>3, <1>4, <1>5, <1>6, <2>1, <2>2, <2>3, NextSteps
<1> QED BY <1>7 DEF WriterOwnsSession, Writing

(* A claim takes the session out of the map, and it is not made again.     *)
LEMMA ClosedKept ==
    ASSUME UploadInv, [Next]_vars
    PROVE  ClosedInv'
<1> USE DEF UploadInv
<1> DEFINE Late == {"multipart", "process", "publish"}
           C(h, o) == proc[h].at \in Late => U(h) \notin o
<1>0. /\ \A h \in Handler : C(h, open)
      /\ \A u \in Upload : claimed[u] # <<>> => u \notin open
      /\ claimed \in [Upload -> Seq(0..Chunks)]
  BY DEF ClosedInv, At, TypeOK
<1>1. ASSUME NEW h \in Handler, Same(h) \/ proc'[h] = proc[h] \/ proc'[h] = Idle, open' \subseteq open
      PROVE  C(h, open)'
  BY <1>0, <1>1 DEF Same, U, Idle
<1>3. ASSUME NEW h \in Handler, Works(h), ~StartSession(h), NEW g \in Handler
      PROVE  C(g, open)'
  <2>1. open' \subseteq open
    BY <1>3 DEF Works, Serve, Body, BodyFails, Multipart, NotFound,
       AppendLock, AppendOpen, Counted, RolledBackEnds, Claim, Move, Publish, session
  <2>2. CASE g # h
    BY <1>1, <1>3, <2>1, <2>2, WorkSteps
  <2>3. CASE g = h /\ proc'[h].at \in Late /\ ~Same(h)
    <3>1. \/ Claim(h) /\ Passes(h, "sweep", "process")
          \/ Multipart(h) /\ Passes(h, "multipart", "process")
          \/ Move(h) /\ Passes(h, "process", "publish")
      BY <1>3, <2>3, WorkSteps DEF Passes, RollsBack, Idle
    <3>2. Claim(h) => U(h) \notin open'
      BY DEF Claim
    <3> QED BY <1>0, <2>1, <2>3, <3>1, <3>2 DEF Passes, U
  <2> QED BY <1>1, <2>1, <2>2, <2>3
<1>4. ASSUME NEW h \in Handler, StartSession(h), NEW g \in Handler
      PROVE  C(g, open)'
  <2>1. /\ proc[h].at = "sweep" /\ proc[h].chunk = Start /\ U(h) \in Upload /\ Works(h)
        /\ open' = open \cup {U(h)}
    BY <1>4, WorkSteps DEF StartSession, Asks, Works, Serve
  <2>2. Starting(h, U(h))
    BY <2>1 DEF Starting, At
  <2>3. proc[g].at \in Late => U(g) # U(h)
    BY <2>1, <2>2 DEF FreshInv, OneStarts, Busy, Starting, At
  <2>4. g = h => proc'[g] = Idle
    BY <1>4, <2>1, WorkSteps
  <2> QED BY <1>0, <2>1, <2>3, <2>4, WorkSteps DEF U, Idle
<1>5. ASSUME NEW h \in Handler, NEW u \in Upload, Ask(h, u) \/ Direct(h, u), NEW g \in Handler
      PROVE  C(g, open)'
  <2>1. open' = open
    BY <1>5 DEF Ask, Direct, session
  <2>2. Direct(h, u) => u \notin open
    BY DEF Direct, FreshInv, Unused
  <2>3. CASE g # h
    BY <1>1, <1>5, <2>1, <2>3, OtherSteps
  <2>4. CASE g = h
    BY <1>5, <2>1, <2>2, <2>4, OtherSteps DEF U
  <2> QED BY <2>3, <2>4
<1>6. ASSUME NEW h \in Handler
      PROVE  C(h, open)'
  <2>1. CASE Quiet
    BY <1>1, <2>1, QuietSteps
  <2>2. CASE Restart \/ \E p \in Process, u \in Upload : Sweep(p, u)
    BY <1>1, <2>2, OtherSteps DEF Restart, Sweep
  <2>3. CASE Landing \/ \E u \in Upload : Abandon(u)
    BY <1>1, <2>3 DEF Landing, Lands, CutLands, Abandon, session
  <2>4. CASE \E g \in Handler : HangUp(g)
    BY <1>1, <2>4, OtherSteps DEF HangUp
  <2> QED BY <1>3, <1>4, <1>5, <2>1, <2>2, <2>3, <2>4, NextSteps
<1>7. ASSUME NEW u \in Upload, claimed'[u] # <<>>
      PROVE  u \notin open'
  <2>1. CASE \E h \in Handler : StartSession(h)
    <3>1. PICK h \in Handler : StartSession(h)
      BY <2>1
    <3>2. claimed' = claimed /\ open' = open \cup {U(h)}
      BY <3>1 DEF StartSession, history
    <3>3. Starting(h, U(h)) /\ U(h) \in Upload
      BY <3>1, WorkSteps DEF StartSession, Starting, At, Asks, Works, Serve
    <3> QED BY <1>0, <1>7, <3>2, <3>3 DEF FreshInv, Unused
  <2>2. CASE \E h \in Handler : Claim(h)
    BY <1>0, <1>7, <2>2 DEF Claim
  <2>3. CASE /\ ~\E h \in Handler : StartSession(h)
             /\ ~\E h \in Handler : Claim(h)
    BY <1>0, <1>7, <2>3, MapSteps
  <2> QED BY <2>1, <2>2, <2>3
<1> QED BY <1>6, <1>7 DEF ClosedInv, At

(* A handler has one operation in flight, and is not asked again before    *)
(* that lands.                                                             *)
LEMMA WritesKept ==
    ASSUME UploadInv, [Next]_vars
    PROVE  WritesInv'
<1> USE DEF UploadInv
<1> DEFINE W(w) == /\ proc[w.by].at \notin {"sweep", "open", "body", "undo"}
                   /\ proc[w.by].at = "flush" => w.upload = U(w.by) /\ w.chunk = proc[w.by].chunk
<1>0. /\ \A w \in writes : W(w) /\ w.by \in Handler
      /\ \A w \in writes' : w.by \in Handler
  BY TypeKept DEF WritesInv, At, TypeOK
<1>1. ASSUME NEW w \in writes, Same(w.by) \/ proc'[w.by] = proc[w.by] \/ proc'[w.by] = Idle
      PROVE  W(w)'
  BY <1>0, <1>1 DEF Same, U, Idle
<1>2. ASSUME NEW h \in Handler, Works(h), NEW w \in writes'
      PROVE  W(w)'
  <2>1. CASE w \in writes /\ w.by # h
    BY <1>0, <1>1, <1>2, <2>1, WorkSteps
  <2>2. CASE w \in writes /\ w.by = h
    <3>1. ~(proc[h].at \in {"sweep", "open", "body", "undo"})
      BY <1>0, <2>2
    <3>2. ~RollsBack(h)
      BY <2>2 DEF RollsBack, RollBack
    <3> QED BY <1>1, <1>2, <2>2, <3>1, <3>2, WorkSteps DEF Passes, U
  <2>3. CASE w \notin writes
    <3>1. Body(h) /\ w = [upload |-> U(h), chunk |-> proc[h].chunk, by |-> h] /\ Goes(h, "flush")
      BY <1>2, <2>3 DEF Works, Serve, Body, BodyFails, RollBack, Multipart, StartSession,
         NotFound, AppendLock, AppendOpen, Counted, RolledBackEnds, Claim, Move, Publish,
         disk, Unlink, Lost
    <3>2. proc'[h].at = "flush" /\ proc'[h].upload = U(h) /\ proc'[h].chunk = proc[h].chunk
      <4>1. h \in Process /\ proc \in [Process -> Places]
        BY TypeSplit DEF Process
      <4> QED BY <3>1, <4>1 DEF Goes, U
    <3> QED BY <3>1, <3>2 DEF U
  <2> QED BY <2>1, <2>2, <2>3
<1>3. ASSUME NEW h \in Handler, NEW u \in Upload, Ask(h, u) \/ Direct(h, u), NEW w \in writes'
      PROVE  W(w)'
  <2>1. w \in writes
    BY <1>3 DEF Ask, Direct, disk
  <2>2. CASE w.by # h
    BY <1>0, <1>1, <1>3, <2>1, <2>2, OtherSteps
  <2>3. CASE w.by = h
    BY <1>3, <2>1, <2>3, OtherSteps DEF Ask, Landed
  <2> QED BY <2>2, <2>3
<1>4. ASSUME NEW w \in writes'
      PROVE  W(w)'
  <2>1. CASE Quiet
    BY <1>0, <1>1, <2>1, QuietSteps
  <2>2. CASE Restart \/ \E p \in Process, u \in Upload : Sweep(p, u)
    BY <1>0, <1>1, <2>2, OtherSteps DEF Restart, Sweep, Unlink, Lost, disk
  <2>3. CASE Landing \/ \E u \in Upload : Abandon(u)
    BY <1>0, <1>1, <2>3 DEF Landing, Lands, CutLands, Abandon, disk
  <2>4. CASE \E g \in Handler : HangUp(g)
    BY <1>0, <1>1, <2>4, OtherSteps DEF HangUp, disk
  <2> QED BY <1>2, <1>3, <2>1, <2>2, <2>3, <2>4, NextSteps
<1> QED BY <1>4 DEF WritesInv, At

(* So it is with roll-backs. *)
LEMMA CutsKept ==
    ASSUME UploadInv, [Next]_vars
    PROVE  CutsInv'
<1> USE DEF UploadInv
<1> DEFINE C(c) == /\ proc[c.by].at \notin {"sweep", "open", "body", "flush"}
                   /\ proc[c.by].at = "undo" => c.upload = U(c.by) /\ c.to = proc[c.by].base
<1>0. /\ \A c \in cuts : C(c) /\ c.by \in Handler
      /\ \A c \in cuts' : c.by \in Handler
  BY TypeKept DEF CutsInv, At, TypeOK
<1>1. ASSUME NEW c \in cuts, Same(c.by) \/ proc'[c.by] = proc[c.by] \/ proc'[c.by] = Idle
      PROVE  C(c)'
  BY <1>0, <1>1 DEF Same, U, Idle
<1>2. ASSUME NEW h \in Handler, Works(h), NEW c \in cuts'
      PROVE  C(c)'
  <2>1. CASE c \in cuts /\ c.by # h
    BY <1>0, <1>1, <1>2, <2>1, WorkSteps
  <2>2. CASE c \in cuts /\ c.by = h
    <3>1. ~(proc[h].at \in {"sweep", "open", "body", "flush"})
      BY <1>0, <2>2
    <3> QED BY <1>1, <1>2, <2>2, <3>1, WorkSteps DEF Passes, RollsBack, U
  <2>3. CASE c \notin cuts
    <3>1. RollBack(h) /\ (Body(h) \/ BodyFails(h))
      BY <1>2, <2>3 DEF Works, Serve, Body, BodyFails, RollBack, Multipart, StartSession,
         NotFound, AppendLock, AppendOpen, Counted, RolledBackEnds, Claim, Move, Publish,
         disk, Unlink, Lost
    <3>2. /\ c = [upload |-> U(h), to |-> proc[h].base, by |-> h]
          /\ h \in Process /\ proc \in [Process -> Places] /\ U(h) \in Upload
      BY <1>2, <2>3, <3>1, RollBackType, TypeSplit, WorkSteps DEF Process
    <3>3. /\ proc'[h].at = "undo" /\ proc'[h].upload = U(h) /\ proc'[h].base = proc[h].base
      BY <3>1, <3>2 DEF RollBack, Goes, U
    <3> QED BY <3>2, <3>3 DEF U
  <2> QED BY <2>1, <2>2, <2>3
<1>3. ASSUME NEW h \in Handler, NEW u \in Upload, Ask(h, u) \/ Direct(h, u), NEW c \in cuts'
      PROVE  C(c)'
  <2>1. c \in cuts
    BY <1>3 DEF Ask, Direct, disk
  <2>2. CASE c.by # h
    BY <1>0, <1>1, <1>3, <2>1, <2>2, OtherSteps
  <2>3. CASE c.by = h
    BY <1>3, <2>1, <2>3, OtherSteps DEF Ask, Landed
  <2> QED BY <2>2, <2>3
<1>4. ASSUME NEW c \in cuts'
      PROVE  C(c)'
  <2>1. CASE Quiet
    BY <1>0, <1>1, <2>1, QuietSteps
  <2>2. CASE Restart \/ \E p \in Process, u \in Upload : Sweep(p, u)
    BY <1>0, <1>1, <2>2, OtherSteps DEF Restart, Sweep, Unlink, Lost, disk
  <2>3. CASE Landing \/ \E u \in Upload : Abandon(u)
    BY <1>0, <1>1, <2>3 DEF Landing, Lands, CutLands, Abandon, disk
  <2>4. CASE \E g \in Handler : HangUp(g)
    BY <1>0, <1>1, <2>4, OtherSteps DEF HangUp, disk
  <2> QED BY <1>2, <1>3, <2>1, <2>2, <2>3, <2>4, NextSteps
<1> QED BY <1>4 DEF CutsInv, At

(* Only the request for the session of a fresh upload is about it, and it  *)
(* is not asked for again.                                                 *)
LEMMA FreshKept ==
    ASSUME UploadInv, [Next]_vars
    PROVE  FreshInv'
<1> USE DEF UploadInv
<1> DEFINE New(u) == client[u].next = Start \/ \E h \in Handler : Starting(h, u)
<1>0. \A u \in Upload : New(u) => Unused(u) /\ OneStarts(u)
  BY DEF FreshInv
<1>1. \A h \in Handler, u \in Upload :
        /\ Same(h) => Busy(h, u)' = Busy(h, u) /\ Starting(h, u)' = Starting(h, u)
        /\ proc'[h] = proc[h] => Busy(h, u)' = Busy(h, u) /\ Starting(h, u)' = Starting(h, u)
        /\ proc'[h] = Idle => ~Busy(h, u)' /\ ~Starting(h, u)'
        /\ Starting(h, u) => Busy(h, u)
  BY DEF Same, Busy, Starting, At, U, Idle
(* a request that works is the one for the session *)
<1>2. ASSUME NEW u \in Upload, New(u), NEW h \in Handler, Works(h), U(h) = u
      PROVE  StartSession(h) /\ Starting(h, u)
  <2>1. Starting(h, u)
    BY <1>0, <1>2, WorkSteps DEF OneStarts, Busy, At
  <2> QED BY <1>2, <2>1, Numbers DEF Starting, At, Start, Works, Serve, Body, BodyFails, Multipart,
        NotFound, AppendLock, AppendOpen, Counted, RolledBackEnds, Claim, Move, Publish, Asks
<1>3. client \in Clients
  BY TypeSplit
<1>4. ASSUME NEW u \in Upload, New(u)'
      PROVE  New(u)
  <2>1. CASE client'[u].next = Start
    <3>1. \A h \in Handler : proc[h].chunk + 1 # Start
      BY Numbers DEF TypeOK, Process
    <3> QED BY <2>1, <3>1, Numbers, ClientSteps
  <2>2. ASSUME NEW h \in Handler, Starting(h, u)'
        PROVE  New(u)
    <3>1. CASE Works(h)
      BY <2>2, <3>1, WorkSteps DEF Starting, At, Passes, RollsBack, Same, Multipart, Idle
    <3>2. ASSUME NEW v \in Upload, Ask(h, v) \/ Direct(h, v)
          PROVE  New(u)
      BY <2>2, <3>2, OtherSteps DEF Starting, At, U
    <3> QED BY <1>1, <2>2, <3>1, <3>2, HandlerSteps
  <2> QED BY <1>4, <2>1, <2>2
<1>5. ASSUME NEW u \in Upload, New(u), New(u)', NEW h \in Handler, Works(h)
      PROVE  U(h) # u
  <2> SUFFICES ASSUME U(h) = u PROVE FALSE
    OBVIOUS
  <2>1. /\ StartSession(h) /\ Starting(h, u) /\ Busy(h, u) /\ proc'[h] = Idle /\ OneStarts(u)
        /\ \A g \in Handler : g # h => proc'[g] = proc[g]
    BY <1>0, <1>1, <1>2, <1>5, WorkSteps
  <2>2. \A g \in Handler : ~Starting(g, u)'
    BY <1>1, <2>1 DEF OneStarts
  <2>3. client[u].next = Start => client'[u].next = Start + 1
    BY <1>3, <2>1 DEF OneStarts, StartSession, Succeeds, Hears, Clients, Starting
  <2>4. client[u].next = GivenUp => client'[u].next # Start
    <3>1. client'[u] # client[u] => client'[u].next \in {Start + 1, GivenUp}
      BY <2>1, <1>3 DEF StartSession, Succeeds, Hears, Clients, Starting
    <3> QED BY <3>1, Numbers
  <2> QED BY <1>5, <2>1, <2>2, <2>3, <2>4, Numbers DEF OneStarts
<1>6. ASSUME NEW u \in Upload, New(u), New(u)'
      PROVE  Unused(u)'
  <2>0. Unused(u)
    BY <1>0, <1>6
  <2>1. \A h \in Handler : Works(h) => U(h) # u /\ U(h) \in Upload
    BY <1>5, <1>6, WorkSteps
  <2>2. u \notin open'
    BY <2>0, <2>1, MapSteps DEF Unused, StartSession, Works, Serve
  <2>3. counted'[u] = <<>> /\ claimed'[u] = <<>>
    BY <2>0, <2>1, MapSteps DEF Unused, Works, Serve, Counted, Claim, TypeOK
  <2>4. data'[u] = <<>> /\ \A o \in writes' \cup cuts' : o.upload # u
    BY <2>0, <2>1, FileSteps DEF Unused, Untouched
  <2> QED BY <2>2, <2>3, <2>4 DEF Unused
<1>7. ASSUME NEW u \in Upload, New(u), New(u)'
      PROVE  OneStarts(u)'
  <2>0. OneStarts(u)
    BY <1>0, <1>7
  <2>1. \A h \in Handler : Works(h) => U(h) # u
    BY <1>5, <1>7
  <2>2. client'[u].next \in {Start, GivenUp}
    BY <2>0, <2>1, <1>3, ClientSteps DEF OneStarts, Clients
  <2>3. ASSUME NEW h \in Handler, Ask(h, u) \/ Direct(h, u)
        PROVE  client[u].next = Start /\ \A g \in Handler : ~Busy(g, u)
    <3>1. client[u].next = Start /\ client[u].waits = NoOne
      BY <2>0, <2>3, Numbers DEF Ask, Direct, OneStarts
    <3> QED BY <2>0, <3>1, UploadAssumption DEF OneStarts
  <2>4. ASSUME NEW h \in Handler, Direct(h, u)
        PROVE  FALSE
    <3>1. client'[u].next = GivenUp
      BY <1>3, <2>4 DEF Direct, Clients
    <3>2. ASSUME NEW g \in Handler
          PROVE  ~Starting(g, u)'
      <4>1. CASE g = h
        BY <2>4, <4>1, OtherSteps DEF Starting, At
      <4>2. CASE g # h
        BY <1>1, <2>3, <2>4, <4>2, OtherSteps
      <4> QED BY <4>1, <4>2
    <3> QED BY <1>7, <3>1, <3>2, Numbers
  <2>5. ASSUME NEW h \in Handler, Busy(h, u)'
        PROVE  \/ Ask(h, u) /\ Starting(h, u)'
               \/ Busy(h, u) /\ Starting(h, u)'
    <3>1. CASE Works(h)
      BY <2>1, <2>5, <3>1, WorkSteps DEF Busy, At, U, Passes, RollsBack, Same, Idle
    <3>2. ASSUME NEW v \in Upload, Ask(h, v)
          PROVE  Ask(h, u) /\ Starting(h, u)'
      <4>1. v = u
        BY <2>5, <3>2, OtherSteps DEF Busy, U
      <4> QED BY <2>3, <3>2, <4>1, OtherSteps DEF Starting, At, U
    <3>3. ASSUME NEW v \in Upload, Direct(h, v)
          PROVE  FALSE
      <4>1. v = u
        BY <2>5, <3>3, OtherSteps DEF Busy, U
      <4> QED BY <2>4, <3>3, <4>1
    <3>4. Busy(h, u) => Starting(h, u)
      BY <2>0 DEF OneStarts
    <3> QED BY <1>1, <2>5, <3>1, <3>2, <3>3, <3>4, HandlerSteps
  <2>6. ASSUME NEW g \in Handler, NEW h \in Handler, Busy(g, u)', Busy(h, u)'
        PROVE  g = h
    <3>1. \A k \in Handler : Ask(k, u) /\ k # h => ~Busy(h, u)'
      BY <1>1, <2>3, OtherSteps
    <3>2. \A k \in Handler : Ask(k, u) /\ k # g => ~Busy(g, u)'
      BY <1>1, <2>3, OtherSteps
    <3> QED BY <2>0, <2>5, <2>6, <3>1, <3>2 DEF OneStarts
  <2>7. ASSUME NEW h \in Handler, Busy(h, u)', client'[u].next = Start
        PROVE  client'[u].waits = h
    <3>1. client[u].next = Start /\ Start # GivenUp /\ h # NoOne
      <4>1. \A g \in Handler : proc[g].chunk + 1 # Start
        BY Numbers DEF TypeOK, Process
      <4> QED BY <2>7, <4>1, Numbers, ClientSteps, UploadAssumption
    <3>2. CASE Ask(h, u)
      BY <1>3, <3>2 DEF Ask, Clients
    <3>3. CASE Busy(h, u) /\ ~Ask(h, u)
      <4>1. client[u].waits = h
        BY <2>0, <3>1, <3>3 DEF OneStarts
      <4>2. \A g \in Handler : ~Ask(g, u)
        BY <3>1, <4>1 DEF Ask
      <4>3. ~Restart
        BY <1>1, <2>7, OtherSteps
      <4> QED BY <2>1, <2>7, <3>1, <4>1, <4>2, <4>3, ClientSteps
    <3> QED BY <2>5, <2>7, <3>2, <3>3
  <2> QED BY <2>2, <2>5, <2>6, <2>7 DEF OneStarts
<1> QED BY <1>4, <1>6, <1>7 DEF FreshInv

(* What is claimed is what was counted, and it stays so: nobody counts a   *)
(* chunk of an upload without a session.                                   *)
LEMMA ClaimKept ==
    ASSUME UploadInv, [Next]_vars
    PROVE  ClaimIsWhole'
<1> USE DEF UploadInv
<1>0. /\ counted \in [Upload -> Seq(1..Chunks)] /\ claimed \in [Upload -> Seq(0..Chunks)]
      /\ data \in [Upload -> Seq(0..Chunks)]
  BY DEF TypeOK
<1>1. ASSUME NEW u \in Upload \ torn, claimed'[u] # <<>>, claimed'[u] = claimed[u]
      PROVE  claimed[u] = counted'[u] /\ (u \in declared' => u \in declared)
  <2>1. claimed[u] = counted[u] /\ u \notin open
    BY <1>1 DEF ClaimIsWhole, ClaimWhole, ClosedInv
  <2>2. ASSUME NEW h \in Handler, Counted(h)
        PROVE  U(h) # u
    BY <2>1, <2>2 DEF Counted, WriterOwnsSession
  <2>3. ASSUME NEW h \in Handler, StartSession(h)
        PROVE  U(h) # u
    <3>1. Starting(h, U(h)) /\ U(h) \in Upload
      BY <2>3, WorkSteps DEF StartSession, Starting, At, Asks, Works, Serve
    <3> QED BY <1>1, <3>1 DEF FreshInv, Unused
  <2>4. counted'[u] = counted[u]
    BY <1>0, <2>2, MapSteps DEF Counted
  <2> QED BY <2>1, <2>3, <2>4, MapSteps DEF StartSession
<1>2. ASSUME NEW h \in Handler, Claim(h), NEW u \in Upload \ torn, claimed'[u] # claimed[u]
      PROVE  /\ claimed'[u] = counted'[u]
             /\ u \in declared' => claimed'[u] = [i \in 1..Chunks |-> i]
  <2>1. /\ u = U(h) /\ u \in open /\ Complete(u) /\ claimed'[u] = data[u]
        /\ counted' = counted /\ declared' = declared
    BY <1>0, <1>2 DEF Claim
  <2>2. data[u] = counted[u]
    BY <2>1 DEF FileInv, Holds, Covers, Complete
  <2>3. u \in declared => counted[u] = [i \in 1..Chunks |-> i]
    <3> SUFFICES ASSUME u \in declared PROVE counted[u] = [i \in 1..Chunks |-> i]
      OBVIOUS
    <3>1. Before(counted[u], Finish)
      BY <1>2, <2>1, Numbers DEF Claim, Asks, OrderInv, At
    <3>2. Len(counted[u]) = Finish - 1 /\ Finish - 1 = Chunks
      BY <2>1, <2>2, Numbers DEF Complete
    <3>3. \A i \in 1..Chunks : counted[u][i] = i
      BY <3>1, <3>2 DEF Before
    <3>4. counted[u] = [i \in 1..Len(counted[u]) |-> counted[u][i]]
      BY <1>0, LenProperties
    <3> QED BY <3>2, <3>3, <3>4
  <2> QED BY <2>1, <2>2, <2>3
<1>3. ASSUME NEW u \in Upload \ torn', claimed'[u] # <<>>
      PROVE  /\ claimed'[u] = counted'[u]
             /\ u \in declared' => claimed'[u] = [i \in 1..Chunks |-> i]
  <2>0. u \in Upload \ torn
    BY MapSteps
  <2>1. CASE claimed'[u] = claimed[u]
    BY <1>1, <1>3, <2>0, <2>1 DEF ClaimIsWhole, ClaimWhole
  <2>2. CASE claimed'[u] # claimed[u]
    BY <1>2, <2>0, <2>2, MapSteps
  <2> QED BY <2>1, <2>2
<1> QED BY <1>3 DEF ClaimIsWhole, ClaimWhole

(* A chunk more leaves those before n; chunk n makes it those before n + 1. *)
LEMMA BeforeFacts ==
    ASSUME NEW S, NEW s \in Seq(S), NEW e \in S, NEW n \in Nat, Before(s, n)
    PROVE  /\ Before(Append(s, e), n)
           /\ n = e => Before(Append(s, e), n + 1)
<1>1. Len(s) \in Nat
  BY LenProperties
<1>2. /\ Len(Append(s, e)) = Len(s) + 1
      /\ \A i \in 1..Len(s) : Append(s, e)[i] = s[i]
      /\ Append(s, e)[Len(s) + 1] = e
  BY AppendFacts
<1>3. Before(Append(s, e), n)
  BY <1>1, <1>2 DEF Before
<1>4. ASSUME n = e
      PROVE  Before(Append(s, e), n + 1)
  <2>1. Len(Append(s, e)) >= n
    BY <1>1, <1>2 DEF Before
  <2>2. Len(Append(s, e)) = n => \A i \in 1..n : Append(s, e)[i] = i
    BY <1>1, <1>2, <1>4 DEF Before
  <2>3. ASSUME NEW c \in 1..n
        PROVE  \E i \in 1..Len(Append(s, e)) : Append(s, e)[i] = c
    <3>1. CASE c = n
      BY <1>1, <1>2, <1>4, <3>1
    <3>2. CASE c # n
      <4>1. PICK i \in 1..Len(s) : s[i] = c
        BY <3>2 DEF Before
      <4> QED BY <1>1, <1>2, <4>1
    <3> QED BY <3>1, <3>2
  <2> DEFINE r == Append(s, e)
  <2>4. /\ Len(r) >= n /\ (n + 1) - 1 = n
        /\ Len(r) = n => \A i \in 1..n : r[i] = i
        /\ \A c \in 1..n : \E i \in 1..Len(r) : r[i] = c
    BY <2>1, <2>2, <2>3
  <2> HIDE DEF r
  <2>5. Before(r, n + 1)
    BY <2>4 DEF Before
  <2> QED BY <2>5 DEF r
<1> QED BY <1>3, <1>4

(* A chunk is counted when those before it were.                           *)
LEMMA OrderKept ==
    ASSUME UploadInv, [Next]_vars
    PROVE  OrderInv'
<1> USE DEF UploadInv
<1>0. counted \in [Upload -> Seq(1..Chunks)] /\ client \in Clients
  BY TypeSplit DEF TypeOK
<1>1. ASSUME NEW h \in Handler, Counted(h)
      PROVE  /\ U(h) \in Upload /\ proc[h].chunk \in 1..Chunks
             /\ counted' = [counted EXCEPT ![U(h)] = Append(counted[U(h)], proc[h].chunk)]
             /\ Before(counted[U(h)], proc[h].chunk)
  <2>1. U(h) \in Upload /\ proc[h].chunk \in 1..Chunks
    BY <1>1 DEF Counted, PlaceInv, At, Writing
  <2>2. Before(counted[U(h)], proc[h].chunk)
    BY <1>1, <2>1, Numbers DEF Counted, OrderInv, At, Writing
  <2> QED BY <1>1, <2>1, <2>2 DEF Counted
(* what was counted before n stays so *)
<1>2. ASSUME NEW u \in Upload, NEW n \in Nat, Before(counted[u], n)
      PROVE  Before(counted'[u], n)
  <2>1. ASSUME NEW h \in Handler, Counted(h), U(h) = u
        PROVE  Before(counted'[u], n)
    <3>1. counted'[u] = Append(counted[u], proc[h].chunk)
      BY <1>0, <1>1, <2>1
    <3>2. counted[u] \in Seq(1..Chunks) /\ proc[h].chunk \in 1..Chunks
      BY <1>0, <1>1, <2>1
    <3> QED BY <1>2, <3>1, <3>2, BeforeFacts
  <2>2. ASSUME NEW h \in Handler, Counted(h), U(h) # u
        PROVE  counted'[u] = counted[u]
    BY <1>0, <1>1, <2>2
  <2> QED BY <1>2, <2>1, <2>2, MapSteps
<1>3. ASSUME NEW h \in Handler, Counted(h)
      PROVE  Before(counted'[U(h)], proc[h].chunk + 1)
  <2>1. counted'[U(h)] = Append(counted[U(h)], proc[h].chunk)
    BY <1>0, <1>1, <1>3
  <2>2. /\ counted[U(h)] \in Seq(1..Chunks) /\ proc[h].chunk \in 1..Chunks
        /\ proc[h].chunk \in Nat /\ Before(counted[U(h)], proc[h].chunk)
    BY <1>0, <1>1, <1>3
  <2> QED BY <2>1, <2>2, BeforeFacts
<1>4. ASSUME NEW u \in Upload, client'[u].next \in 1..Finish
      PROVE  Before(counted'[u], client'[u].next)
  <2>1. CASE client'[u].next = client[u].next
    <3>1. client[u].next \in Nat /\ Before(counted[u], client[u].next)
      BY <1>0, <1>4, <2>1, Numbers DEF OrderInv, Clients
    <3> QED BY <1>2, <2>1, <3>1
  <2>2. ASSUME NEW h \in Handler, StartSession(h), client'[u].next = proc[h].chunk + 1
        PROVE  Before(counted'[u], client'[u].next)
    <3>1. counted' = counted /\ client'[u].next = 1
      BY <2>2, Numbers DEF StartSession, history, Asks
    <3>2. Len(counted[u]) \in Nat
      BY <1>0, LenProperties
    <3> QED BY <3>1, <3>2 DEF Before
  <2>3. ASSUME NEW h \in Handler, Publish(h)
        PROVE  proc[h].chunk + 1 = GivenUp
    BY <2>3, Numbers DEF Publish, PlaceInv, At
  <2>4. CASE client'[u].next # client[u].next
    <3>1. client'[u].next # GivenUp
      BY <1>4, Numbers
    <3>2. PICK h \in Handler : /\ U(h) = u
                               /\ StartSession(h) \/ Counted(h) \/ Publish(h)
                               /\ client'[u].next = proc[h].chunk + 1
      BY <2>4, <3>1, ClientSteps
    <3> QED BY <1>3, <2>2, <2>3, <3>1, <3>2
  <2> QED BY <2>1, <2>4
<1>5. ASSUME NEW h \in Handler, proc'[h].at \in {"sweep"} \cup Writing, proc'[h].chunk # Start
      PROVE  Before(counted'[proc'[h].upload], proc'[h].chunk)
  <2>0. proc'[h].chunk \in Nat
    <3>1. proc' \in [Process -> Places] /\ h \in Process
      BY TypeKept, TypeSplit DEF Process
    <3> QED BY <3>1, Numbers DEF Places
  <2>1. CASE /\ proc[h].at \in {"sweep"} \cup Writing
             /\ proc'[h].chunk = proc[h].chunk /\ proc'[h].upload = proc[h].upload
    <3>1. Before(counted[U(h)], proc[h].chunk) /\ U(h) \in Upload
      BY <1>5, <2>1 DEF OrderInv, At, PlaceInv, Writing
    <3> QED BY <1>2, <2>0, <2>1, <3>1 DEF U
  <2>2. ASSUME NEW u \in Upload, Ask(h, u)
        PROVE  Before(counted'[proc'[h].upload], proc'[h].chunk)
    <3>1. proc'[h].upload = u /\ proc'[h].chunk = client[u].next
      BY <2>2, OtherSteps
    <3>2. Before(counted[u], client[u].next)
      BY <1>5, <2>0, <2>2, <3>1, Numbers DEF OrderInv, Ask
    <3> QED BY <1>2, <2>0, <3>1, <3>2
  <2>3. ASSUME NEW u \in Upload, Direct(h, u)
        PROVE  FALSE
    BY <1>5, <2>3, OtherSteps DEF Writing
  <2>4. CASE Works(h)
    BY <1>5, <2>1, <2>4, WorkSteps DEF Passes, RollsBack, Same, Multipart, Idle, Writing
  <2> QED BY <1>5, <2>1, <2>2, <2>3, <2>4, HandlerSteps DEF Same, Idle, Writing
<1> QED BY <1>4, <1>5 DEF OrderInv, At, U

(* A file that covers what was counted still does when more is written.    *)
LEMMA CoversAppend ==
    ASSUME NEW S, NEW s \in Seq(S), NEW e \in S, NEW r \in Nat, NEW c, Covers(s, r, c)
    PROVE  Covers(Append(s, e), r, c)
<1>1. Len(s) \in Nat
  BY LenProperties
<1> DEFINE t == Append(s, e)
<1>2. Len(t) = Len(s) + 1 /\ \A i \in 1..Len(s) : t[i] = s[i]
  BY AppendFacts
<1> HIDE DEF t
<1>3. Len(s) >= r /\ \A i \in 1..Len(c) : \E k \in 1..Len(s) : s[k] = c[i]
  BY DEF Covers
<1>4. ASSUME NEW i \in 1..Len(c)
      PROVE  \E k \in 1..Len(t) : t[k] = c[i]
  <2>1. PICK k \in 1..Len(s) : s[k] = c[i]
    BY <1>3
  <2> QED BY <1>1, <1>2, <2>1
<1>5. Covers(t, r, c)
  BY <1>1, <1>2, <1>3, <1>4 DEF Covers
<1> QED BY <1>5 DEF t

(* A chunk that is in the file, and at its end if nothing else is, counts. *)
LEMMA CoversCounted ==
    ASSUME NEW S, NEW T, NEW s \in Seq(T), NEW c \in Seq(S), NEW e \in S, NEW r \in Nat,
           Covers(s, r, c), Len(s) >= r + 1,
           Len(s) = r + 1 => s = Append(c, e),
           \E k \in 1..Len(s) : s[k] = e
    PROVE  Covers(s, r + 1, Append(c, e))
<1>1. Len(c) \in Nat
  BY LenProperties
<1> DEFINE t == Append(c, e)
<1>2. Len(t) = Len(c) + 1 /\ (\A i \in 1..Len(c) : t[i] = c[i]) /\ t[Len(c) + 1] = e
  BY AppendFacts
<1>3. Len(s) = r + 1 => s = t
  OBVIOUS
<1> HIDE DEF t
<1>4. ASSUME NEW i \in 1..Len(t)
      PROVE  \E k \in 1..Len(s) : s[k] = t[i]
  <2>1. CASE i \in 1..Len(c)
    BY <1>2, <2>1 DEF Covers
  <2>2. CASE i = Len(c) + 1
    BY <1>2, <2>2
  <2> QED BY <1>1, <1>2, <2>1, <2>2
<1>5. Covers(s, r + 1, t)
  BY <1>3, <1>4 DEF Covers
<1> QED BY <1>5 DEF t

(* The whole of a file is the file. *)
LEMMA TakeAll ==
    ASSUME NEW S, NEW s \in Seq(S)
    PROVE  SubSeq(s, 1, Len(s)) = s
<1>1. Len(s) \in 0..Len(s)
  BY LenProperties
<1>2. /\ SubSeq(s, 1, Len(s)) \in Seq(S) /\ Len(SubSeq(s, 1, Len(s))) = Len(s)
      /\ \A i \in 1..Len(s) : SubSeq(s, 1, Len(s))[i] = s[i]
  BY <1>1, TakeFacts
<1> QED BY <1>2, SeqEqual

(* What happens to an upload that has a session and keeps it.              *)
SameCount(u) == counted'[u] = counted[u] /\ received'[u] = received[u]

LEMMA OpenSteps ==
    ASSUME UploadInv, [Next]_vars, NEW u \in open, u \in open'
    PROVE  \/ SameCount(u) /\ data'[u] = data[u]
           \/ /\ SameCount(u)
              /\ \E w \in writes : /\ Lands(w) /\ w.upload = u
                                   /\ data'[u] = Append(data[u], w.chunk)
                                   /\ writes' = writes \ {w}
           \/ SameCount(u) /\ \E c \in cuts : CutLands(c) /\ c.upload = u
           \/ \E h \in Handler :
                /\ Counted(h) /\ U(h) = u /\ lock[u] = h /\ proc'[h] = Idle
                /\ data'[u] = data[u]
                /\ received'[u] = received[u] + 1
                /\ counted'[u] = Append(counted[u], proc[h].chunk)
<1> USE DEF UploadInv
<1>0. /\ u \in Upload /\ data \in [Upload -> Seq(0..Chunks)]
      /\ counted \in [Upload -> Seq(1..Chunks)] /\ received \in [Upload -> Nat]
  BY DEF TypeOK
<1>1. ASSUME NEW h \in Handler, Counted(h)
      PROVE  /\ U(h) = u => /\ lock[u] = h /\ proc'[h] = Idle
                            /\ received'[u] = received[u] + 1
                            /\ counted'[u] = Append(counted[u], proc[h].chunk)
             /\ U(h) # u => SameCount(u)
             /\ data' = data
  <2>1. Works(h)
    BY <1>1 DEF Works, Serve
  <2> QED BY <1>0, <1>1, <2>1, WorkSteps DEF Counted, WriterOwnsSession, disk, SameCount
<1>2. (\A h \in Handler : ~Counted(h)) => SameCount(u)
  BY MapSteps DEF SameCount
<1>3. ASSUME NEW w \in writes, Lands(w), w.upload = u
      PROVE  /\ SameCount(u) /\ data'[u] = Append(data[u], w.chunk) /\ writes' = writes \ {w}
  BY <1>0, <1>3 DEF Lands, history, session, SameCount
<1>4. ASSUME NEW h \in Handler, Works(h), U(h) = u, ~Counted(h)
      PROVE  SameCount(u) /\ data'[u] = data[u]
  <2>1. CASE \/ StartSession(h) \/ NotFound(h) \/ Publish(h) \/ AppendOpen(h)
             \/ RolledBackEnds(h) \/ Body(h) \/ BodyFails(h)
    BY <2>1 DEF StartSession, NotFound, Publish, AppendOpen, RolledBackEnds, Body, BodyFails,
       RollBack, session, disk, history, SameCount
  <2>2. CASE AppendLock(h)
    BY <1>4, <2>2 DEF AppendLock, disk, history, SameCount
  <2>3. CASE Claim(h)
    BY <1>4, <2>3 DEF Claim
  <2>4. CASE Move(h) \/ Multipart(h)
    BY <1>4, <2>4 DEF Move, Multipart, ClosedInv, At
  <2> QED BY <1>4, <2>1, <2>2, <2>3, <2>4 DEF Works, Serve
<1>5. CASE \E h \in Handler : Counted(h)
  BY <1>1, <1>5
<1>6. CASE ~\E h \in Handler : Counted(h)
  <2>1. SameCount(u)
    BY <1>2, <1>6
  <2> QED BY <1>0, <1>3, <1>4, <1>6, <2>1, FileSteps DEF Untouched
<1> QED BY <1>5, <1>6

(* A set_len that leaves such an upload untorn changes nothing, or its     *)
(* handler waits for it.                                                   *)
LEMMA CutSteps ==
    ASSUME UploadInv, [Next]_vars, NEW u \in open, u \notin torn',
           NEW c \in cuts, CutLands(c), c.upload = u
    PROVE  \/ data'[u] = data[u]
           \/ /\ c.by \in Handler /\ proc[c.by].at = "undo" /\ proc' = proc
              /\ U(c.by) = u /\ lock[u] = c.by /\ data'[u] = Undone(c.by)
<1> USE DEF UploadInv
<1>0. /\ u \in Upload /\ data \in [Upload -> Seq(0..Chunks)] /\ c.by \in Handler
      /\ proc \in [Process -> Places] /\ Handler \subseteq Process /\ u \notin torn
  BY TypeSplit, MapSteps DEF TypeOK, Process
<1>1. CASE data' = data
  BY <1>1
<1>2. CASE data' # data
  <2>1. proc[c.by].at = "undo" /\ proc' = proc
    BY <1>2 DEF CutLands
  <2>2. U(c.by) = u /\ c.to = proc[c.by].base /\ lock[u] = c.by
    BY <1>0, <2>1 DEF CutsInv, At, WriterOwnsSession
  <2>3. data'[u] = SetLen(data[u], proc[c.by].base)
    BY <1>0, <1>2, <2>2 DEF CutLands
  <2>4. proc[c.by].base \in Nat /\ proc[c.by].base <= Len(data[u])
    BY <1>0, <2>1, <2>2 DEF FileInv, At, Past, Places
  <2>5. data'[u] = Undone(c.by)
    BY <1>0, <2>2, <2>3, <2>4, SetLenFacts DEF Undone
  <2> QED BY <1>0, <2>1, <2>2, <2>5
<1> QED BY <1>1, <1>2

(* A write to the file of such an upload is lost in a restart only.        *)
LEMMA WritesStay ==
    ASSUME UploadInv, [Next]_vars, ~Restart, NEW u \in open, u \in open',
           NEW w \in writes, w.upload = u, ~Lands(w), proc'[w.by].at # "undo"
    PROVE  w \in writes'
<1> USE DEF UploadInv
<1>0. u \in Upload /\ proc \in [Process -> Places] /\ Handler \subseteq Process
  BY TypeSplit DEF TypeOK, Process
<1>1. CASE Quiet
  BY <1>1, QuietSteps
<1>2. CASE \E p \in Process, v \in Upload : Sweep(p, v)
  BY <1>2 DEF Sweep, Unlink, Lost, disk
<1>3. CASE Landing \/ \E v \in Upload : Abandon(v)
  BY <1>3 DEF Landing, Lands, CutLands, Abandon, disk
<1>4. CASE \E h \in Handler, v \in Upload : Ask(h, v) \/ Direct(h, v)
  BY <1>4 DEF Ask, Direct, disk
<1>5. ASSUME NEW h \in Handler, Works(h)
      PROVE  w \in writes'
  <2>1. CASE StartSession(h) \/ NotFound(h) \/ Publish(h) \/ AppendOpen(h) \/ Counted(h)
             \/ RolledBackEnds(h)
    BY <2>1 DEF StartSession, NotFound, Publish, AppendOpen, Counted, RolledBackEnds, disk
  <2>2. CASE AppendLock(h) \/ Claim(h)
    BY <2>2 DEF AppendLock, Claim, Unlink, Lost, disk
  <2>3. CASE Move(h) \/ Multipart(h)
    BY <2>3 DEF Move, Multipart, Unlink, Lost, disk, ClosedInv, At
  <2>4. CASE Body(h) \/ BodyFails(h)
    <3>1. RollBack(h) => w.by # h
      <4>1. RollBack(h) => proc'[h].at = "undo"
        BY <1>0 DEF RollBack, Goes
      <4> QED BY <4>1
    <3> QED BY <2>4, <3>1 DEF Body, BodyFails, RollBack, disk
  <2> QED BY <1>5, <2>1, <2>2, <2>3, <2>4 DEF Works, Serve
<1>6. CASE \E h \in Handler : HangUp(h)
  BY <1>6 DEF HangUp, disk
<1> QED BY <1>1, <1>2, <1>3, <1>4, <1>5, <1>6, NextSteps

(* The file of a session holds what was counted: a roll-back takes away    *)
(* what its own chunk wrote, and late writes only come behind.             *)
LEMMA FileKept ==
    ASSUME UploadInv, [Next]_vars
    PROVE  FileInv'
<1> USE DEF UploadInv
<1>0. /\ data \in [Upload -> Seq(0..Chunks)] /\ counted \in [Upload -> Seq(1..Chunks)]
      /\ received \in [Upload -> Nat] /\ open \subseteq Upload
      /\ data' \in [Upload -> Seq(0..Chunks)] /\ counted' \in [Upload -> Seq(1..Chunks)]
      /\ received' \in [Upload -> Nat] /\ open' \subseteq Upload
      /\ \A w \in writes : w.chunk \in 1..Chunks /\ w.chunk \in 0..Chunks
      /\ torn \subseteq torn'
      /\ proc \in [Process -> Places] /\ Handler \subseteq Process
  BY TypeKept, TypeSplit, MapSteps DEF TypeParts, Process
<1>1. \A u \in Upload : received'[u] = Len(counted'[u])
  <2>1. ASSUME NEW h \in Handler, Counted(h), NEW u \in Upload
        PROVE  received'[u] = Len(counted'[u])
    <3>1. proc[h].chunk \in 1..Chunks
      BY <2>1 DEF Counted, PlaceInv, At, Writing
    <3>2. Len(Append(counted[u], proc[h].chunk)) = Len(counted[u]) + 1
      BY <1>0, <3>1, AppendFacts
    <3> QED BY <1>0, <2>1, <3>2 DEF Counted, FileInv
  <2> QED BY <2>1, MapSteps DEF FileInv
<1>2. ASSUME NEW h \in Handler, proc[h].at = "flush", Landed(h), U(h) \notin torn
      PROVE  Covers(data[U(h)], received[U(h)] + 1, Append(counted[U(h)], proc[h].chunk))
  <2>1. U(h) \in open /\ proc[h].chunk \in 1..Chunks
    BY <1>2 DEF WriterOwnsSession, PlaceInv, At, Writing
  <2>2. /\ Covers(data[U(h)], received[U(h)], counted[U(h)])
        /\ proc[h].base >= received[U(h)] /\ Len(data[U(h)]) > proc[h].base
        /\ Len(data[U(h)]) = received[U(h)] + 1
             => data[U(h)] = Append(counted[U(h)], proc[h].chunk)
        /\ \E k \in 1..Len(data[U(h)]) : data[U(h)][k] = proc[h].chunk
    BY <1>2, <2>1 DEF FileInv, At, Past, Holds
  <2>3. /\ received[U(h)] \in Nat /\ proc[h].base \in Nat /\ Len(data[U(h)]) \in Nat
        /\ data[U(h)] \in Seq(0..Chunks) /\ counted[U(h)] \in Seq(1..Chunks)
    BY <1>0, <2>1, LenProperties DEF Places
  <2>4. Len(data[U(h)]) >= received[U(h)] + 1
    BY <2>2, <2>3
  <2> QED BY <2>1, <2>2, <2>3, <2>4, CoversCounted
<1>3. ASSUME NEW u \in open' \ torn'
      PROVE  Covers(data'[u], received'[u], counted'[u])
  <2>1. CASE u \notin open
    <3>1. PICK h \in Handler : StartSession(h) /\ U(h) = u
      BY <2>1, MapSteps DEF StartSession
    <3>2. Starting(h, u) /\ u \in Upload
      BY <1>0, <3>1 DEF StartSession, Starting, At, Asks
    <3>3. data[u] = <<>> /\ counted[u] = <<>> /\ received[u] = Len(counted[u])
      BY <3>2 DEF FreshInv, Unused, FileInv
    <3>4. data' = data /\ counted' = counted /\ received' = received
      BY <3>1 DEF StartSession, disk, history
    <3> QED BY <3>3, <3>4 DEF Covers
  <2>2. CASE u \in open
    <3>0. /\ Covers(data[u], received[u], counted[u]) /\ u \in Upload /\ u \notin torn
          /\ received[u] \in Nat /\ data[u] \in Seq(0..Chunks)
      BY <1>0, <2>2 DEF FileInv, Holds
    <3>1. CASE SameCount(u) /\ data'[u] = data[u]
      BY <3>0, <3>1 DEF SameCount
    <3>2. ASSUME SameCount(u), NEW w \in writes, data'[u] = Append(data[u], w.chunk)
          PROVE  Covers(data'[u], received'[u], counted'[u])
      BY <1>0, <3>0, <3>2, CoversAppend DEF SameCount
    <3>3. ASSUME SameCount(u), NEW c \in cuts, CutLands(c), c.upload = u
          PROVE  Covers(data'[u], received'[u], counted'[u])
      BY <2>2, <3>0, <3>1, <3>3, CutSteps DEF SameCount, FileInv, At, Past, Holds
    <3>4. ASSUME NEW h \in Handler, Counted(h), U(h) = u, data'[u] = data[u],
                 received'[u] = received[u] + 1,
                 counted'[u] = Append(counted[u], proc[h].chunk)
          PROVE  Covers(data'[u], received'[u], counted'[u])
      BY <1>2, <3>0, <3>4 DEF Counted
    <3> QED BY <2>2, <3>1, <3>2, <3>3, <3>4, OpenSteps
  <2> QED BY <2>1, <2>2
(* a handler that writes to u, before or after the step *)
<1>4. ASSUME NEW h \in Handler, proc'[h].at \in Past
      PROVE  /\ proc'[h].upload = U(h) /\ U(h) \in open /\ U(h) \in open' /\ U(h) \in Upload
             /\ proc'[h].chunk = proc[h].chunk
             /\ \/ Same(h) /\ lock[U(h)] = h
                \/ AppendOpen(h) /\ Passes(h, "open", "body") /\ proc'[h].base = Len(data[U(h)])
                \/ Body(h) /\ Passes(h, "body", "flush") /\ proc'[h].base = proc[h].base
                \/ RollsBack(h) /\ proc'[h].base = proc[h].base
  <2>1. proc'[h].upload \in open'
    BY <1>4, WriterKept DEF WriterOwnsSession, Past, U
  <2>2. \/ Same(h)
        \/ AppendOpen(h) /\ Passes(h, "open", "body") /\ proc'[h].base = Len(data[U(h)])
        \/ Body(h) /\ Passes(h, "body", "flush") /\ proc'[h].base = proc[h].base
        \/ RollsBack(h) /\ proc'[h].base = proc[h].base
    BY <1>4, HandlerSteps, WorkSteps, OtherSteps DEF Idle, Passes, Same, Past
  <2>3. proc'[h].upload = U(h) /\ proc'[h].chunk = proc[h].chunk
    BY <2>2 DEF Same, Passes, RollsBack, U
  <2>4. proc[h].at \in Writing
    BY <1>4, <2>2 DEF Same, Passes, RollsBack, Writing, Past
  <2>5. U(h) \in open /\ lock[U(h)] = h
    BY <2>4 DEF WriterOwnsSession, Writing
  <2> QED BY <1>0, <2>1, <2>2, <2>3, <2>5
(* of the steps of OpenSteps only three leave its writer at work *)
<1>5. ASSUME NEW h \in Handler, proc'[h].at \in Past, U(h) \notin torn'
      PROVE  /\ SameCount(U(h))
             /\ \/ data'[U(h)] = data[U(h)]
                \/ /\ Same(h)
                   /\ \E w \in writes : /\ Lands(w) /\ w.upload = U(h)
                                        /\ data'[U(h)] = Append(data[U(h)], w.chunk)
                                        /\ writes' = writes \ {w}
                \/ /\ proc' = proc /\ proc[h].at = "undo"
                   /\ data'[U(h)] = Undone(h)
  <2>0. U(h) \in open /\ U(h) \in open' /\ U(h) \in Upload /\ proc'[h] # Idle
    BY <1>4, <1>5 DEF Idle, Past
  <2>1. CASE Same(h) /\ lock[U(h)] = h
    <3>1. \A c \in cuts : CutLands(c) /\ c.upload = U(h) =>
             \/ data'[U(h)] = data[U(h)]
             \/ /\ proc' = proc /\ proc[h].at = "undo"
                /\ data'[U(h)] = Undone(h)
      BY <1>5, <2>0, <2>1, CutSteps
    <3> QED BY <2>0, <2>1, <3>1, OpenSteps
  <2>2. CASE AppendOpen(h) /\ Passes(h, "open", "body")
    BY <2>2 DEF AppendOpen, history, SameCount
  <2>3. CASE Body(h) /\ Passes(h, "body", "flush")
    <3>1. ~Fails(h)
      BY <1>0, <2>0, EndsType DEF Fails
    <3> QED BY <2>3, <3>1 DEF Body, RollBack, history, SameCount
  <2>4. CASE RollsBack(h)
    BY <2>4 DEF RollsBack, RollBack, Body, BodyFails, history, SameCount
  <2> QED BY <1>4, <1>5, <2>1, <2>2, <2>3, <2>4
<1>6. ASSUME NEW h \in Handler, proc'[h].at \in Past, U(h) \notin torn'
      PROVE  LET u == U(h) IN
             /\ proc'[h].base <= Len(data'[u]) /\ proc'[h].base >= received'[u]
             /\ Covers(SubSeq(data'[u], 1, proc'[h].base), received'[u], counted'[u])
  <2> DEFINE u == U(h)
             b == proc'[h].base
  <2>0. /\ u \in open /\ u \in Upload /\ data[u] \in Seq(0..Chunks) /\ Len(data[u]) \in Nat
        /\ received[u] \in Nat /\ h \in Process /\ proc[h].base \in Nat /\ u \notin torn
        /\ received'[u] = received[u] /\ counted'[u] = counted[u]
    BY <1>0, <1>4, <1>5, <1>6, LenProperties DEF SameCount, Places
  (* where a roll-back would go to, in the file before the step *)
  <2>1. b \in 0..Len(data[u]) /\ b >= received[u]
        /\ Covers(SubSeq(data[u], 1, b), received[u], counted[u])
    <3>1. CASE AppendOpen(h) /\ b = Len(data[u])
      <4>1. Covers(data[u], received[u], counted[u])
        BY <2>0 DEF FileInv, Holds
      <4>2. SubSeq(data[u], 1, Len(data[u])) = data[u]
        BY <2>0, TakeAll
      <4>3. Len(data[u]) \in 0..Len(data[u]) /\ Len(data[u]) >= received[u]
        BY <2>0, <4>1 DEF Covers
      <4> HIDE DEF u
      <4> QED BY <3>1, <4>1, <4>2, <4>3, Zenon
    <3>2. CASE b = proc[h].base /\ proc[h].at \in Past
      BY <2>0, <3>2 DEF FileInv, Holds, At, Undone
    <3> QED BY <1>4, <1>6, <3>1, <3>2 DEF Same, Passes, RollsBack, Past
  <2>2. CASE data'[u] = data[u]
    BY <2>0, <2>1, <2>2
  <2>3. ASSUME NEW w \in writes, data'[u] = Append(data[u], w.chunk)
        PROVE  /\ b <= Len(data'[u]) /\ b >= received'[u]
               /\ Covers(SubSeq(data'[u], 1, b), received'[u], counted'[u])
    <3>1. w.chunk \in 0..Chunks
      BY <1>0
    <3>2. Len(data'[u]) = Len(data[u]) + 1
      BY <2>0, <2>3, <3>1, AppendFacts
    <3>3. SubSeq(data'[u], 1, b) = SubSeq(data[u], 1, b)
      BY <2>0, <2>1, <2>3, <3>1, TakeOfAppend
    <3>4. Covers(SubSeq(data'[u], 1, b), received'[u], counted'[u])
      BY <2>0, <2>1, <3>3, Zenon
    <3>5. b <= Len(data'[u]) /\ b >= received'[u]
      BY <2>0, <2>1, <3>2
    <3> QED BY <3>4, <3>5
  <2>4. ASSUME proc' = proc, data'[u] = Undone(h)
        PROVE  /\ b <= Len(data'[u]) /\ b >= received'[u]
               /\ Covers(SubSeq(data'[u], 1, b), received'[u], counted'[u])
    <3>1. data'[u] = SubSeq(data[u], 1, b)
      BY <2>4 DEF Undone
    <3>2. data'[u] \in Seq(0..Chunks) /\ Len(data'[u]) = b
      <4> HIDE DEF u, b
      <4>1. SubSeq(data[u], 1, b) \in Seq(0..Chunks) /\ Len(SubSeq(data[u], 1, b)) = b
        BY <2>0, <2>1, TakeFacts
      <4> QED BY <3>1, <4>1, Zenon
    <3>3. SubSeq(data'[u], 1, b) = data'[u]
      BY <3>2, TakeAll
    <3>4. Covers(SubSeq(data'[u], 1, b), received'[u], counted'[u])
      BY <2>0, <2>1, <3>1, <3>3, Zenon
    <3> QED BY <2>0, <2>1, <3>2, <3>4
  <2> QED BY <1>5, <1>6, <2>2, <2>3, <2>4, <2>0, <2>1
<1>7. ASSUME NEW h \in Handler, proc'[h].at = "flush"
      PROVE  proc'[h].base < MaxUpload
  <2>1. CASE Same(h)
    BY <1>7, <2>1 DEF Same, FileInv, At
  <2>2. CASE Body(h) /\ Passes(h, "body", "flush") /\ proc'[h].base = proc[h].base
    <3>1. U(h) \in Upload /\ proc[h].base \in Nat
      BY <1>0, <1>4, <1>7 DEF Places, Past
    <3>2. ~Fails(h)
      BY <1>0, <1>7, EndsType DEF Fails, Idle
    <3>3. ~RollBack(h)
      BY <1>0, <1>7 DEF RollBack, Goes
    <3>4. proc[h].base + 1 <= Limit(U(h))
      BY <2>2, <3>2, <3>3 DEF Body
    <3>5. Limit(U(h)) <= MaxUpload
      BY <3>1, Numbers DEF Limit
    <3> QED BY <2>2, <3>1, <3>4, <3>5, Numbers
  <2> QED BY <1>4, <1>7, <2>1, <2>2 DEF Passes, RollsBack, Past
<1>8. ASSUME NEW h \in Handler, proc'[h].at = "flush", Landed(h)', U(h) \notin torn'
      PROVE  LET u == U(h) IN
             /\ Len(data'[u]) > proc'[h].base
             /\ Len(data'[u]) = received'[u] + 1
                  => data'[u] = Append(counted'[u], proc[h].chunk)
             /\ \E k \in 1..Len(data'[u]) : data'[u][k] = proc[h].chunk
  <2> DEFINE u == U(h)
  <2>0. /\ u \in open /\ u \in open' /\ u \in Upload
        /\ data[u] \in Seq(0..Chunks) /\ Len(data[u]) \in Nat /\ u \notin torn
        /\ received[u] \in Nat /\ h \in Process /\ proc[h].base \in Nat /\ proc'[h] # Idle
        /\ received'[u] = received[u] /\ counted'[u] = counted[u]
    BY <1>0, <1>4, <1>5, <1>8, LenProperties DEF SameCount, Places, Idle, Past
  <2>1. ~Body(h) \/ ~Passes(h, "body", "flush")
    <3>1. ~Fails(h)
      BY <1>0, <2>0, EndsType DEF Fails
    <3>2. Body(h) /\ ~RollBack(h) => [upload |-> u, chunk |-> proc[h].chunk, by |-> h] \in writes'
      BY <3>1 DEF Body
    <3>3. RollBack(h) => proc'[h].at = "undo"
      BY <1>0 DEF RollBack, Goes
    <3> QED BY <1>8, <3>2, <3>3 DEF Landed
  <2>2. Same(h) /\ proc[h].at = "flush" /\ proc'[h].base = proc[h].base
    BY <1>4, <1>8, <2>1 DEF Same, Passes, RollsBack, Past
  <2>3. ~Restart
    BY <2>0, OtherSteps
  <2>4. /\ \A w \in writes : w.by = h => w.upload = u /\ w.chunk = proc[h].chunk
        /\ \A c \in cuts : c.by # h
    BY <2>2 DEF WritesInv, CutsInv, At
  <2>5. /\ proc[h].base <= Len(data[u]) /\ proc[h].base >= received[u]
        /\ Len(data[u]) = received[u] => data[u] = counted[u]
        /\ Landed(h) => /\ Len(data[u]) > proc[h].base
                        /\ Len(data[u]) = received[u] + 1
                             => data[u] = Append(counted[u], proc[h].chunk)
                        /\ \E k \in 1..Len(data[u]) : data[u][k] = proc[h].chunk
    BY <2>0, <2>2 DEF FileInv, At, Past, Holds, Covers
  (* no write has landed *)
  <2>6. CASE data'[u] = data[u]
    <3>1. ASSUME NEW w \in writes, w.by = h
          PROVE  FALSE
      <4>1. w.upload = u /\ w.chunk \in 1..Chunks
        BY <1>0, <2>4, <3>1
      <4>2. Lands(w)
        BY <1>8, <2>0, <2>3, <3>1, <4>1, WritesStay DEF Landed
      <4>3. data'[u] = Append(data[u], w.chunk)
        BY <1>0, <2>0, <4>1, <4>2 DEF Lands
      <4>4. Len(data'[u]) = Len(data[u]) + 1
        BY <1>0, <2>0, <3>1, <4>3, AppendFacts
      <4> QED BY <2>0, <2>6, <4>4
    <3>2. Landed(h)
      BY <2>4, <3>1 DEF Landed
    <3> QED BY <2>0, <2>2, <2>5, <2>6, <3>2
  (* its own, or a late one *)
  <2>7. ASSUME NEW w \in writes, w.upload = u, data'[u] = Append(data[u], w.chunk),
               writes' = writes \ {w}
        PROVE  /\ Len(data'[u]) > proc'[h].base
               /\ Len(data'[u]) = received'[u] + 1
                    => data'[u] = Append(counted'[u], proc[h].chunk)
               /\ \E k \in 1..Len(data'[u]) : data'[u][k] = proc[h].chunk
    <3>1. w.chunk \in 0..Chunks
      BY <1>0
    <3>2. /\ Len(data'[u]) = Len(data[u]) + 1 /\ data'[u][Len(data[u]) + 1] = w.chunk
          /\ \A i \in 1..Len(data[u]) : data'[u][i] = data[u][i]
      BY <2>0, <2>7, <3>1, AppendFacts
    <3>3. Len(data'[u]) > proc'[h].base
      BY <2>0, <2>2, <2>5, <3>2
    <3>4. CASE w.by = h
      <4>1. w.chunk = proc[h].chunk
        BY <2>4, <3>4
      <4>2. Len(data'[u]) = received'[u] + 1 => data[u] = counted[u]
        BY <2>0, <2>5, <3>2
      <4>3. \E k \in 1..Len(data'[u]) : data'[u][k] = proc[h].chunk
        BY <2>0, <3>2, <4>1
      <4> QED BY <2>0, <2>7, <3>3, <4>1, <4>2, <4>3
    <3>5. CASE w.by # h
      <4>1. Landed(h)
        BY <1>8, <2>4, <2>7, <3>5 DEF Landed
      <4>2. Len(data[u]) > received[u] /\ \E k \in 1..Len(data[u]) : data[u][k] = proc[h].chunk
        BY <2>0, <2>5, <4>1
      <4>3. Len(data'[u]) # received'[u] + 1
        BY <2>0, <3>2, <4>2
      <4>4. \E k \in 1..Len(data'[u]) : data'[u][k] = proc[h].chunk
        BY <2>0, <3>2, <4>2
      <4> QED BY <3>3, <4>3, <4>4
    <3> QED BY <3>4, <3>5
  <2> QED BY <1>5, <1>8, <2>2, <2>6, <2>7 DEF Past
<1> QED BY <1>1, <1>3, <1>4, <1>6, <1>7, <1>8 DEF FileInv, Holds, At, Past, U, Undone

-----------------------------------------------------------------------------
(* The theorems.                                                           *)

(* Every reachable state of upload.rs satisfies the invariants above.      *)
THEOREM UploadsCorrect == Spec => []UploadInv
<1>1. Init => UploadInv
  <2> SUFFICES ASSUME Init PROVE UploadInv
    OBVIOUS
  <2>1. TypeOK
    <3>1. <<>> \in Seq(1..Chunks) /\ <<>> \in Seq(0..Chunks) /\ Idle \in Places
      BY EmptySeq, Numbers DEF Idle, Places
    <3>2. TypeParts
      BY <3>1, Numbers DEF Init, TypeParts
    <3>3. proc \in [Process -> Places] /\ client \in Clients
      BY <3>1, Numbers DEF Init, Clients
    <3> QED BY <3>2, <3>3, TypeSplit
  <2>2. \A h \in Handler : proc[h].at = "idle"
    BY DEF Init, Idle, Process
  <2>3. PlaceInv /\ WriterOwnsSession /\ ClosedInv /\ WritesInv /\ CutsInv
    BY <2>2 DEF Init, PlaceInv, WriterOwnsSession, ClosedInv, WritesInv, CutsInv, At, Writing
  <2>4. FreshInv
    BY <2>2 DEF Init, FreshInv, Unused, OneStarts, Busy, Starting, At, Start
  <2>5. FileInv
    BY <2>2 DEF Init, FileInv, At, Past
  <2>7. OrderInv
    <3>1. \A u \in Upload : client[u].next \notin 1..Finish
      BY Numbers DEF Init
    <3> QED BY <2>2, <3>1 DEF OrderInv, At, Writing
  <2>6. ClaimIsWhole
    BY DEF Init, ClaimIsWhole, ClaimWhole
  <2> QED BY <2>1, <2>3, <2>4, <2>5, <2>6, <2>7 DEF UploadInv
<1>2. UploadInv /\ [Next]_vars => UploadInv'
  BY TypeKept, PlaceKept, WriterKept, FreshKept, ClosedKept, WritesKept, CutsKept, FileKept,
     OrderKept, ClaimKept DEF UploadInv
<1> QED BY <1>1, <1>2, PTL DEF Spec

(* The maps, files and requests have their types, and a session counts no  *)
(* more than max_upload_bytes, unless it is torn.                          *)
THEOREM TypeCorrect == Spec => []TypeOK
<1>1. UploadInv => TypeOK
  BY DEF UploadInv
<1> QED BY <1>1, UploadsCorrect, PTL

(* append_chunk: a handler that writes, or waits for its roll-back, has    *)
(* the lock of an open session.                                            *)
THEOREM WriterOwns == Spec => []WriterOwnsSession
<1>1. UploadInv => WriterOwnsSession
  BY DEF UploadInv
<1> QED BY <1>1, UploadsCorrect, PTL

(* finish_session: what it claims is what was counted, and the upload,     *)
(* unless a set_len whose handler was gone changed the session's file.     *)
THEOREM ClaimsWhole == Spec => []ClaimIsWhole
<1>1. UploadInv => ClaimIsWhole
  BY DEF UploadInv
<1> QED BY <1>1, UploadsCorrect, PTL

(* append_chunk: a chunk that was acknowledged is in the file of its       *)
(* session, with the same exception.                                       *)
THEOREM AckedOnDisk == Spec => []AckedIsOnDisk
<1>1. UploadInv => AckedIsOnDisk
  <2> SUFFICES ASSUME UploadInv, NEW u \in open \ torn, NEW c \in 1..(client[u].next - 1),
                      client[u].next <= Finish
               PROVE  \E i \in 1..Len(data[u]) : data[u][i] = c
    BY DEF AckedIsOnDisk, Acked
  <2>1. u \in Upload /\ client[u].next \in 0..GivenUp
    BY TypeSplit DEF UploadInv, Clients, TypeOK
  <2>2. Before(counted[u], client[u].next)
    BY <2>1, Numbers DEF UploadInv, OrderInv
  <2>3. PICK i \in 1..Len(counted[u]) : counted[u][i] = c
    BY <2>2 DEF Before
  <2> QED BY <2>3 DEF UploadInv, FileInv, Holds, Covers
<1> QED BY <1>1, UploadsCorrect, PTL
=============================================================================
