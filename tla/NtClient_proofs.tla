-------------------------- MODULE NtClient_proofs --------------------------
(***************************************************************************)
(* What the server of NetworkTables is promised, for any number of         *)
(* publishers, topics and broken connections: it has been told of every    *)
(* number before it is used, a number stands for one topic and type, and   *)
(* the values of a publisher come in the order in which they were set (the *)
(* refinement of ValueFeed), all of them as long as no connection breaks.  *)
(***************************************************************************)
EXTENDS NtClient, SequenceTheorems, TLAPS

-----------------------------------------------------------------------------
(* Types.                                                                  *)

LEMMA InitTypes == NtInit => NtTypeOK
<1> SUFFICES ASSUME NtInit PROVE NtTypeOK
    OBVIOUS
<1> USE DEF NtInit, Idle
<1>1. /\ sets \in [Publishers -> Nat] /\ cache \in [Publishers -> Nat]
      /\ breaks \in Nat /\ phase = "connect" /\ link \in BOOLEAN
      /\ announced \in SUBSET Entries
  BY NtAssumption
<1>2. /\ queue \in Seq(Messages) /\ messages \in Seq(Messages) /\ outgoing \in Seq(FrameSet)
      /\ wire \in Seq(FrameSet) /\ types \in Seq(Types)
  BY EmptySeq
<1>3. /\ setting \in [Publishers -> Seq(Nat)] /\ got \in [Publishers -> Seq(Nat)]
  BY EmptySeq
<1>4. pubuids \in [Topics -> Nat]
  OBVIOUS
<1> QED
  BY <1>1, <1>2, <1>3, <1>4 DEF NtTypeOK

LEMMA MessageShape ==
    ASSUME NEW s \in Seq(Messages), NEW i \in 1..Len(s)
    PROVE  s[i] \in Messages /\ s[i].pub \in Publishers /\ s[i].n \in Nat /\ s[i].id \in Nat
<1>1. s[i] \in Messages
  OBVIOUS
<1> QED
  BY <1>1 DEF Messages

\* The number of a message is one that the table has, or the next.
LEMMA NumberIsNat ==
    ASSUME NtTypeOK, NEW m \in Messages
    PROVE  Number(m) \in Nat
BY NtAssumption DEF NtTypeOK, Number, Messages

\* The frames for a message: none, its value, or its announcement and its value.
LEMMA FramesForTypes ==
    ASSUME NtTypeOK, NEW m \in Messages
    PROVE  FramesFor(m) \in Seq(FrameSet)
<1>1. Value(Number(m), m) \in FrameSet
  BY NumberIsNat DEF Value, FrameSet, Messages
<1>2. Announcement({Entry(TopicOf[m.pub], Number(m), TypeOf[m.pub])}) \in FrameSet
  BY NumberIsNat, NtAssumption DEF Announcement, Entry, Entries, FrameSet, Messages
<1> QED
  BY <1>1, <1>2 DEF FramesFor

\* Every number is in the table, is one topic's, and is what caches, calls and
\* messages hold, if they hold one.
OfTable(p, id) == id = 0 \/ id = pubuids[TopicOf[p]]
Numbering ==
    /\ \A t \in Topics : pubuids[t] <= Len(types)
    /\ \A t, u \in Topics : pubuids[t] # 0 /\ pubuids[t] = pubuids[u] => t = u
    /\ \A p \in Publishers : OfTable(p, cache[p]) /\ (setting[p] # Idle => OfTable(p, setting[p][1]))
    /\ \A i \in 1..Len(messages) : OfTable(messages[i].pub, messages[i].id)
    /\ \A i \in 1..Len(queue) : OfTable(queue[i].pub, queue[i].id)

LEMMA AnnouncedTypes ==
    ASSUME NtTypeOK, Numbering
    PROVE  Announced \in SUBSET Entries
<1>1. ASSUME NEW t \in Topics, pubuids[t] # 0
      PROVE  Entry(t, pubuids[t], types[pubuids[t]]) \in Entries
  <2>1. pubuids[t] \in 1..Len(types)
    BY <1>1 DEF NtTypeOK, Numbering
  <2>2. types[pubuids[t]] \in Types
    BY <2>1 DEF NtTypeOK
  <2> QED
    BY <2>2, <2>1 DEF Entry, Entries, NtTypeOK
<1> QED
  BY <1>1 DEF Announced

LEMMA SetKeepsTypes ==
    ASSUME NtTypeOK, NEW p \in Publishers, SetLoad(p) \/ SetSend(p)
    PROVE  NtTypeOK'
<1> USE DEF NtTypeOK
<1>1. CASE SetLoad(p)
  BY <1>1 DEF SetLoad, table, server
<1>2. CASE SetSend(p)
  <2>1. setting[p][1] \in Nat
    BY <1>2 DEF SetSend, Idle
  <2>2. [pub |-> p, n |-> sets[p] + 1, id |-> setting[p][1]] \in Messages
    BY <2>1 DEF Messages
  <2>3. queue' \in Seq(Messages)
    BY <1>2, <2>2, AppendProperties DEF SetSend
  <2> QED
    BY <1>2, <2>3, EmptySeq DEF SetSend, Idle, table, server
<1> QED
  BY <1>1, <1>2

LEMMA TaskKeepsTypes ==
    ASSUME NtTypeOK, Numbering, Task
    PROVE  NtTypeOK'
<1> USE DEF NtTypeOK, setters, table, server
<1>1. CASE Connect
  BY <1>1, EmptySeq DEF Connect
<1>2. CASE Announce
  <2>1. <<Announcement(Announced)>> \in Seq(FrameSet)
    BY AnnouncedTypes DEF Announcement, FrameSet
  <2>2. wire' \in Seq(FrameSet)
    BY <1>2, <2>1, ConcatProperties DEF Announce, Written
  <2> QED
    BY <1>2, <2>2, EmptySeq DEF Announce, Fail
<1>3. ASSUME NEW k \in 1..Most, Receive(k) PROVE NtTypeOK'
  <2>1. k \in Nat /\ k <= Len(queue) /\ Len(queue) \in Nat /\ \A i \in 1..Len(queue) : queue[i] \in Messages
    BY <1>3, NtAssumption DEF Receive
  <2>2. messages' \in Seq(Messages) /\ queue' \in Seq(Messages)
    BY <1>3, <2>1, SubSeqProperties DEF Receive
  <2> QED
    BY <1>3, <2>2 DEF Receive
<1>4. CASE Ping
  BY <1>4, EmptySeq DEF Ping, Fail
<1>5. CASE Drain
  <2> DEFINE m == Head(messages)
  <2>1. m \in Messages /\ Tail(messages) \in Seq(Messages)
    BY <1>5, HeadTailProperties DEF Drain
  <2>2. outgoing' \in Seq(FrameSet)
    BY <1>5, <2>1, FramesForTypes, ConcatProperties DEF Drain
  <2>3. types' \in Seq(Types)
    <3>1. TypeOf[m.pub] \in Types
      BY <2>1, NtAssumption DEF Messages
    <3>2. Append(types, TypeOf[m.pub]) \in Seq(Types)
      BY <3>1, AppendProperties
    <3> QED
      BY <1>5, <3>2 DEF Drain, Register
  <2>5. Number(m) \in Nat
    BY <2>1, NumberIsNat
  <2>6. pubuids' \in [Topics -> Nat]
    BY <1>5, <2>5 DEF Drain, Register
  <2>7. cache' \in [Publishers -> Nat]
    BY <1>5, <2>5 DEF Drain, Register
  <2> HIDE DEF m
  <2> QED
    BY <1>5, <2>1, <2>2, <2>3, <2>6, <2>7 DEF Drain
<1>6. CASE Flush
  <2>1. wire' \in Seq(FrameSet)
    BY <1>6, ConcatProperties DEF Flush, Written
  <2> QED
    BY <1>6, <2>1, EmptySeq DEF Flush, Fail
<1> QED
  BY <1>1, <1>2, <1>3, <1>4, <1>5, <1>6 DEF Task

LEMMA NetworkKeepsTypes ==
    ASSUME NtTypeOK, Break \/ Arrive
    PROVE  NtTypeOK'
<1> USE DEF NtTypeOK, setters, table, server
<1>1. CASE Break
  <2>1. PICK k \in 0..Len(wire) : wire' = SubSeq(wire, 1, k)
    BY <1>1 DEF Break
  <2>2. wire' \in Seq(FrameSet)
    BY <2>1, SubSeqProperties
  <2>3. /\ breaks' = breaks + 1 /\ link' = FALSE
        /\ UNCHANGED <<sets, setting, cache, pubuids, types, queue, phase, messages, outgoing,
                        announced, got>>
    BY <1>1 DEF Break
  <2>4. breaks' \in Nat
    BY <2>3
  <2>5. link' \in BOOLEAN
    BY <2>3, Zenon
  <2> QED
    BY <2>2, <2>3, <2>4, <2>5
<1>2. CASE Arrive
  <2>1. Head(wire) \in FrameSet /\ Tail(wire) \in Seq(FrameSet)
    BY <1>2, HeadTailProperties DEF Arrive
  <2>2. CASE Head(wire).kind = "announce"
    BY <1>2, <2>1, <2>2 DEF Arrive, FrameSet
  <2>3. CASE Head(wire).kind # "announce"
    <3>1. Head(wire).pub \in Publishers /\ Head(wire).n \in Nat
      BY <2>1, <2>3 DEF FrameSet
    <3>2. Append(got[Head(wire).pub], Head(wire).n) \in Seq(Nat)
      BY <3>1, AppendProperties
    <3> QED
      BY <1>2, <2>1, <2>3, <3>1, <3>2 DEF Arrive
  <2> QED
    BY <2>2, <2>3
<1> QED
  BY <1>1, <1>2

LEMMA NextTypes ==
    ASSUME NtTypeOK, Numbering, [NtNext]_ntVars
    PROVE  NtTypeOK'
<1>1. ASSUME NEW p \in Publishers, SetLoad(p) \/ SetSend(p) PROVE NtTypeOK'
  BY <1>1, SetKeepsTypes
<1>2. CASE Task
  BY <1>2, TaskKeepsTypes
<1>3. CASE Break \/ Arrive
  BY <1>3, NetworkKeepsTypes
<1>4. CASE UNCHANGED ntVars
  BY <1>4 DEF NtTypeOK, ntVars
<1> QED
  BY <1>1, <1>2, <1>3, <1>4 DEF NtNext

-----------------------------------------------------------------------------
(* Numbers.                                                                *)

\* What a message does to the table: nothing if its topic has a number, which is
\* then the message's, or a new number, after all the others, for its topic.
LEMMA DrainNumbers ==
    ASSUME NtTypeOK, Numbering, Drain
    PROVE  LET m == Head(messages)
               t == TopicOf[m.pub]
           IN  /\ m \in Messages /\ t \in Topics /\ OfTable(m.pub, m.id)
               /\ \/ /\ Known(m) /\ pubuids[t] # 0 /\ Number(m) = pubuids[t]
                     /\ UNCHANGED <<pubuids, types>>
                  \/ /\ ~Known(m) /\ pubuids[t] = 0 /\ Number(m) = Len(types) + 1
                     /\ pubuids' = [pubuids EXCEPT ![t] = Len(types) + 1]
                     /\ types' = Append(types, TypeOf[m.pub])
<1> DEFINE m == Head(messages)
           t == TopicOf[m.pub]
<1>1. m \in Messages /\ m = messages[1] /\ 1 \in 1..Len(messages)
  BY DEF NtTypeOK, Drain
<1>2. t \in Topics /\ OfTable(m.pub, m.id)
  BY <1>1, NtAssumption DEF Messages, Numbering
<1>3. pubuids[t] \in Nat /\ pubuids[t] <= Len(types) /\ Len(types) \in Nat
  BY <1>2 DEF NtTypeOK, Numbering
<1>4. Register(m)
  BY DEF Drain
<1> HIDE DEF m
<1>5. CASE pubuids[t] # 0
  <2>1. Number(m) = pubuids[t]
    BY <1>2, <1>5 DEF Number, OfTable
  <2>2. Known(m)
    BY <2>1, <1>3 DEF Known
  <2> QED
    BY <2>1, <2>2, <1>1, <1>2, <1>4, <1>5 DEF Register, NtTypeOK, m
<1>6. CASE pubuids[t] = 0
  <2>1. Number(m) = Len(types) + 1
    BY <1>2, <1>6 DEF Number, OfTable
  <2>2. ~Known(m)
    BY <2>1, <1>3 DEF Known
  <2> QED
    BY <2>1, <2>2, <1>1, <1>2, <1>4, <1>6 DEF Register, m
<1> QED
  BY <1>5, <1>6

\* Numbers in the table stay, and what came from the table still does.
LEMMA TableGrows ==
    ASSUME NtTypeOK, Numbering, Drain
    PROVE  /\ \A t \in Topics : pubuids[t] # 0 => pubuids'[t] = pubuids[t]
           /\ \A p \in Publishers : \A id \in Nat : OfTable(p, id) => OfTable(p, id)'
<1>1. \A t \in Topics : pubuids[t] # 0 => pubuids'[t] = pubuids[t]
  BY DrainNumbers DEF NtTypeOK
<1> QED
  BY <1>1, NtAssumption DEF OfTable

LEMMA DrainKeepsNumbering ==
    ASSUME NtTypeOK, Numbering, Drain
    PROVE  Numbering'
<1> DEFINE m == Head(messages)
           t == TopicOf[m.pub]
<1>1. m \in Messages /\ t \in Topics /\ Len(types) \in Nat /\ pubuids \in [Topics -> Nat]
  BY DrainNumbers DEF NtTypeOK
<1>2. /\ \A u \in Topics : pubuids'[u] <= Len(types')
      /\ \A u, v \in Topics : pubuids'[u] # 0 /\ pubuids'[u] = pubuids'[v] => u = v
  <2>1. CASE UNCHANGED <<pubuids, types>>
    BY <2>1 DEF Numbering
  <2>2. CASE /\ pubuids' = [pubuids EXCEPT ![t] = Len(types) + 1]
             /\ types' = Append(types, TypeOf[m.pub])
    <3>1. TypeOf[m.pub] \in Types
      BY <1>1, NtAssumption DEF Messages
    <3>2. Len(types') = Len(types) + 1
      BY <2>2, <3>1, AppendProperties DEF NtTypeOK
    <3>3. \A u \in Topics : pubuids'[u] = IF u = t THEN Len(types) + 1 ELSE pubuids[u]
      BY <2>2, <1>1
    <3>4. \A u \in Topics : pubuids[u] \in Nat /\ pubuids[u] <= Len(types)
      BY <1>1 DEF Numbering
    <3> HIDE DEF t, m
    <3> QED
      BY <3>2, <3>3, <3>4, <1>1 DEF Numbering
  <2> QED
    BY <2>1, <2>2, DrainNumbers
<1> DEFINE Later(p, id) == id = 0 \/ id = pubuids'[TopicOf[p]]
<1>3. \A p \in Publishers : \A id \in Nat : OfTable(p, id) => Later(p, id)
  BY TableGrows DEF OfTable
<1>4. \A p \in Publishers : Later(p, cache'[p])
  <2>1. Later(m.pub, Number(m))
    BY <1>1, DrainNumbers, NtAssumption
  <2>2. cache' = [cache EXCEPT ![m.pub] = IF m.id = 0 /\ m.pub \in Cached THEN Number(m) ELSE @]
    BY DEF Drain, Register
  <2>3. \A p \in Publishers : Later(p, cache[p])
    BY <1>3 DEF Numbering, NtTypeOK
  <2> HIDE DEF m, Later
  <2> QED
    BY <2>1, <2>2, <2>3 DEF NtTypeOK
<1>5. \A p \in Publishers : setting'[p] # Idle => Later(p, setting'[p][1])
  <2>1. \A p \in Publishers : setting[p] # Idle => setting[p][1] \in Nat
    BY DEF NtTypeOK, Idle
  <2>2. setting' = setting
    BY DEF Drain, setters
  <2> HIDE DEF Later
  <2> QED
    BY <1>3, <2>1, <2>2 DEF Numbering
<1>6. \A i \in 1..Len(queue') : Later(queue'[i].pub, queue'[i].id)
  <2>1. queue' = queue /\ \A i \in 1..Len(queue) : queue[i].pub \in Publishers /\ queue[i].id \in Nat
    BY MessageShape DEF Drain, NtTypeOK
  <2> HIDE DEF Later
  <2> QED
    BY <1>3, <2>1 DEF Numbering
<1>7. \A i \in 1..Len(messages') : Later(messages'[i].pub, messages'[i].id)
  <2>1. /\ Len(messages') = Len(messages) - 1 /\ Len(messages) \in Nat
        /\ \A i \in 1..Len(messages') : messages'[i] = messages[i + 1]
    BY HeadTailProperties DEF Drain, NtTypeOK
  <2>2. \A i \in 1..Len(messages) : messages[i].pub \in Publishers /\ messages[i].id \in Nat
    BY MessageShape DEF NtTypeOK
  <2>3. ASSUME NEW i \in 1..Len(messages') PROVE Later(messages'[i].pub, messages'[i].id)
    <3>1. i + 1 \in 1..Len(messages) /\ messages'[i] = messages[i + 1]
      BY <2>1
    <3> HIDE DEF Later
    <3> QED
      BY <3>1, <2>2, <1>3 DEF Numbering
  <2> QED
    BY <2>3
<1> QED
  BY <1>2, <1>4, <1>5, <1>6, <1>7 DEF Numbering, OfTable

LEMMA InitNumbering == NtInit => Numbering
BY EmptySeq, NtAssumption DEF NtInit, Numbering, OfTable, Idle

LEMMA NextNumbering ==
    ASSUME NtTypeOK, Numbering, [NtNext]_ntVars
    PROVE  Numbering'
<1> USE DEF setters, table, server
<1>1. ASSUME NEW p \in Publishers, SetLoad(p) PROVE Numbering'
  <2>1. /\ setting' = [setting EXCEPT ![p] = <<IF p \in Cached THEN cache[p] ELSE 0>>]
        /\ UNCHANGED <<cache, pubuids, types, queue, messages>>
    BY <1>1 DEF SetLoad
  <2>2. \A q \in Publishers : setting'[q] # Idle => OfTable(q, setting'[q][1])
    BY <2>1 DEF Numbering, OfTable, NtTypeOK
  <2> QED
    BY <2>1, <2>2 DEF Numbering, OfTable
<1>2. ASSUME NEW p \in Publishers, SetSend(p) PROVE Numbering'
  <2> DEFINE m == [pub |-> p, n |-> sets[p] + 1, id |-> setting[p][1]]
  <2>1. m \in Messages /\ OfTable(m.pub, m.id)
    BY <1>2 DEF SetSend, NtTypeOK, Messages, Numbering, Idle
  <2>2. /\ queue' = Append(queue, m) /\ setting' = [setting EXCEPT ![p] = Idle]
        /\ UNCHANGED <<cache, pubuids, types, messages>>
    BY <1>2 DEF SetSend
  <2> HIDE DEF m
  <2>3. \A i \in 1..Len(queue') : OfTable(queue'[i].pub, queue'[i].id)
    BY <2>1, <2>2, AppendProperties DEF NtTypeOK, Numbering
  <2>4. \A q \in Publishers : setting'[q] # Idle => OfTable(q, setting'[q][1])
    BY <2>2 DEF Numbering, NtTypeOK
  <2> QED
    BY <2>2, <2>3, <2>4 DEF Numbering, OfTable
<1>3. ASSUME NEW k \in 1..Most, Receive(k) PROVE Numbering'
  <2>1. /\ k \in Nat /\ k <= Len(queue) /\ Len(queue) \in Nat
        /\ messages' = SubSeq(queue, 1, k) /\ queue' = SubSeq(queue, k + 1, Len(queue))
        /\ UNCHANGED <<sets, setting, cache, pubuids, types>>
    BY <1>3, NtAssumption DEF Receive, NtTypeOK
  <2>2. /\ Len(messages') = k /\ \A i \in 1..k : messages'[i] = queue[i]
        /\ Len(queue') = Len(queue) - k /\ \A i \in 1..Len(queue') : queue'[i] = queue[i + k]
    BY <2>1, SubSeqProperties DEF NtTypeOK
  <2>3. \A i \in 1..Len(messages') : OfTable(messages'[i].pub, messages'[i].id)
    BY <2>1, <2>2 DEF Numbering
  <2>4. \A i \in 1..Len(queue') : OfTable(queue'[i].pub, queue'[i].id)
    BY <2>1, <2>2 DEF Numbering
  <2> QED
    BY <2>1, <2>3, <2>4 DEF Numbering, OfTable
<1>4. CASE Drain
  BY <1>4, DrainKeepsNumbering
<1>5. CASE Connect \/ Announce \/ Ping \/ Flush \/ Break \/ Arrive \/ UNCHANGED ntVars
  <2>1. /\ messages' \in {messages, <<>>}
        /\ UNCHANGED <<setting, cache, pubuids, types, queue>>
    BY <1>5 DEF Connect, Announce, Ping, Flush, Fail, Break, Arrive, ntVars
  <2>2. \A i \in 1..Len(messages') : OfTable(messages'[i].pub, messages'[i].id)
    BY <2>1, EmptySeq DEF Numbering
  <2> QED
    BY <2>1, <2>2 DEF Numbering, OfTable
<1> QED
  BY <1>1, <1>2, <1>3, <1>4, <1>5 DEF NtNext, Task

-----------------------------------------------------------------------------
(* What the server is told.                                                *)

\* What announcing topic t says, and what a value needs to have been said.
EntryIn(ids, ts, t) == Entry(t, ids[t], ts[ids[t]])
TheEntry(t) == EntryIn(pubuids, types, t)
EntryFor(f) == Entry(TopicOf[f.pub], f.id, TypeOf[f.pub])
Tells(f, e) == f.kind = "announce" /\ e \in f.entries

Fits(e) == e.topic \in Topics /\ e.id # 0 /\ e = TheEntry(e.topic)
AllFit(s) == \A i \in 1..Len(s) : \A e : Tells(s[i], e) => Fits(e)

\* The values among the frames s are understood by who has been told `told'.
Covered(s, told) ==
    \A i \in 1..Len(s) : s[i].kind = "value" =>
        EntryFor(s[i]) \in told \/ \E j \in 1..(i - 1) : Tells(s[j], EntryFor(s[i]))

\* He knows e, or will when he has read s.
WillKnow(e, s, told) == e \in told \/ \E j \in 1..Len(s) : Tells(s[j], e)

Frames == wire \o outgoing

\* Between batches there is nothing left to write.
Quiet ==
    /\ phase # "drain" => messages = <<>> /\ outgoing = <<>>
    /\ phase = "connect" => ~link

Truthful == (\A e \in announced : Fits(e)) /\ AllFit(wire) /\ AllFit(outgoing)

\* While the connection holds, the batch that is prepared counts as well, and every
\* topic with a number is told of, or the next value under it would not be.
InTime ==
    /\ Covered(wire, announced)
    /\ link => Covered(Frames, announced)
    /\ link /\ phase \in {"receive", "drain"} =>
          \A t \in Topics : pubuids[t] # 0 => WillKnow(TheEntry(t), Frames, announced)

LEMMA CoveredPrefix ==
    ASSUME NEW s \in Seq(FrameSet), NEW told, Covered(s, told),
           NEW r \in Seq(FrameSet), Len(r) <= Len(s), \A i \in 1..Len(r) : r[i] = s[i]
    PROVE  Covered(r, told)
<1> SUFFICES ASSUME NEW i \in 1..Len(r), r[i].kind = "value"
             PROVE  \/ EntryFor(r[i]) \in told
                    \/ \E j \in 1..(i - 1) : Tells(r[j], EntryFor(r[i]))
    BY DEF Covered
<1>1. i \in 1..Len(s) /\ r[i] = s[i] /\ \A j \in 1..(i - 1) : r[j] = s[j]
  OBVIOUS
<1> QED
  BY <1>1 DEF Covered

LEMMA CoveredTail ==
    ASSUME NEW s \in Seq(FrameSet), s # <<>>, NEW told, Covered(s, told), NEW more,
           told \subseteq more, \A e : Tells(Head(s), e) => e \in more
    PROVE  Covered(Tail(s), more)
<1> DEFINE r == Tail(s)
<1>1. Len(r) = Len(s) - 1 /\ Len(s) \in Nat /\ \A i \in 1..Len(r) : r[i] = s[i + 1]
  BY HeadTailProperties
<1>2. Head(s) = s[1]
  OBVIOUS
<1> HIDE DEF r
<1> SUFFICES ASSUME NEW i \in 1..Len(r), r[i].kind = "value",
                    \A j \in 1..(i - 1) : ~Tells(r[j], EntryFor(r[i]))
             PROVE  EntryFor(r[i]) \in more
    BY DEF Covered, r
<1>3. i + 1 \in 1..Len(s) /\ r[i] = s[i + 1]
  BY <1>1
<1>4. \A j \in 2..i : ~Tells(s[j], EntryFor(r[i]))
  <2>1. ASSUME NEW j \in 2..i PROVE ~Tells(s[j], EntryFor(r[i]))
    <3>1. j - 1 \in 1..(i - 1) /\ j - 1 \in 1..Len(r) /\ r[j - 1] = s[j]
      BY <1>1
    <3> QED
      BY <3>1
  <2> QED
    BY <2>1
<1>5. EntryFor(r[i]) \in told \/ Tells(s[1], EntryFor(r[i]))
  BY <1>3, <1>4 DEF Covered
<1> QED
  BY <1>2, <1>5

LEMMA WillKnowTail ==
    ASSUME NEW s \in Seq(FrameSet), s # <<>>, NEW told, NEW e, WillKnow(e, s, told), NEW more,
           told \subseteq more, \A x : Tells(Head(s), x) => x \in more
    PROVE  WillKnow(e, Tail(s), more)
<1>1. Len(Tail(s)) = Len(s) - 1 /\ Len(s) \in Nat /\ \A i \in 1..Len(Tail(s)) : Tail(s)[i] = s[i + 1]
  BY HeadTailProperties
<1>2. Head(s) = s[1]
  OBVIOUS
<1>3. ASSUME NEW j \in 1..Len(s), Tells(s[j], e), j # 1 PROVE WillKnow(e, Tail(s), more)
  <2>1. j - 1 \in 1..Len(Tail(s)) /\ Tail(s)[j - 1] = s[j]
    BY <1>1, <1>3
  <2> QED
    BY <2>1, <1>3 DEF WillKnow
<1> QED
  BY <1>2, <1>3 DEF WillKnow

LEMMA WillKnowConcat ==
    ASSUME NEW s \in Seq(FrameSet), NEW r \in Seq(FrameSet), NEW told, NEW e,
           WillKnow(e, s, told) \/ \E j \in 1..Len(r) : Tells(r[j], e)
    PROVE  WillKnow(e, s \o r, told)
<1>1. /\ Len(s) \in Nat /\ Len(r) \in Nat /\ Len(s \o r) = Len(s) + Len(r)
      /\ \A i \in 1..(Len(s) + Len(r)) : (s \o r)[i] = IF i <= Len(s) THEN s[i] ELSE r[i - Len(s)]
  BY ConcatProperties
<1>2. ASSUME NEW j \in 1..Len(s), Tells(s[j], e) PROVE WillKnow(e, s \o r, told)
  BY <1>1, <1>2 DEF WillKnow
<1>3. ASSUME NEW j \in 1..Len(r), Tells(r[j], e) PROVE WillKnow(e, s \o r, told)
  <2>1. Len(s) + j \in 1..Len(s \o r) /\ (s \o r)[Len(s) + j] = r[j]
    BY <1>1
  <2> QED
    BY <2>1, <1>3 DEF WillKnow
<1> QED
  BY <1>2, <1>3 DEF WillKnow

LEMMA CoveredConcat ==
    ASSUME NEW s \in Seq(FrameSet), NEW r \in Seq(FrameSet), NEW told, Covered(s, told),
           \A i \in 1..Len(r) : r[i].kind = "value" =>
               \/ WillKnow(EntryFor(r[i]), s, told)
               \/ \E j \in 1..(i - 1) : Tells(r[j], EntryFor(r[i]))
    PROVE  Covered(s \o r, told)
<1>1. /\ Len(s) \in Nat /\ Len(r) \in Nat /\ Len(s \o r) = Len(s) + Len(r)
      /\ \A i \in 1..(Len(s) + Len(r)) : (s \o r)[i] = IF i <= Len(s) THEN s[i] ELSE r[i - Len(s)]
  BY ConcatProperties
<1> DEFINE c == s \o r
<1> HIDE DEF c
<1> SUFFICES ASSUME NEW i \in 1..Len(c), c[i].kind = "value",
                    \A j \in 1..(i - 1) : ~Tells(c[j], EntryFor(c[i]))
             PROVE  EntryFor(c[i]) \in told
    BY DEF Covered, c
<1>2. CASE i <= Len(s)
  <2>1. i \in 1..Len(s) /\ c[i] = s[i] /\ \A j \in 1..(i - 1) : c[j] = s[j]
    BY <1>1, <1>2 DEF c
  <2> QED
    BY <2>1 DEF Covered
<1>3. CASE i > Len(s)
  <2>1. i - Len(s) \in 1..Len(r) /\ c[i] = r[i - Len(s)]
    BY <1>1, <1>3 DEF c
  <2>2. ASSUME NEW j \in 1..Len(s) PROVE ~Tells(s[j], EntryFor(c[i]))
    <3>1. j \in 1..(i - 1) /\ c[j] = s[j]
      BY <1>1, <1>3 DEF c
    <3> QED
      BY <3>1
  <2>3. ASSUME NEW j \in 1..(i - Len(s) - 1) PROVE ~Tells(r[j], EntryFor(c[i]))
    <3>1. Len(s) + j \in 1..(i - 1) /\ c[Len(s) + j] = r[j]
      BY <1>1, <1>3 DEF c
    <3> QED
      BY <3>1
  <2> QED
    BY <2>1, <2>2, <2>3 DEF WillKnow
<1> QED
  BY <1>1, <1>2, <1>3

\* The frames for a message fit the table as it is then, and what they tell is told
\* before it is used, or has been told when the topic got its number.
LEMMA DrainFrames ==
    ASSUME NtTypeOK, Numbering, Drain
    PROVE  LET m == Head(messages)
               t == TopicOf[m.pub]
               r == FramesFor(m)
           IN  /\ \A i \in 1..Len(r) : \A e : Tells(r[i], e) => e = EntryIn(pubuids', types', t)
               /\ \/ /\ pubuids[t] # 0 /\ UNCHANGED <<pubuids, types>>
                     /\ \A i \in 1..Len(r) : r[i].kind = "value" => EntryFor(r[i]) = TheEntry(t)
                  \/ /\ pubuids[t] = 0 /\ Len(r) = 2 /\ r[1].kind = "announce"
                     /\ Tells(r[1], EntryIn(pubuids', types', t))
                     /\ r[2].kind = "value" /\ EntryFor(r[2]) = EntryIn(pubuids', types', t)
<1> DEFINE m == Head(messages)
           t == TopicOf[m.pub]
           r == FramesFor(m)
<1>1. m \in Messages /\ t \in Topics
  BY DrainNumbers
<1>2. CASE /\ Known(m) /\ pubuids[t] # 0 /\ Number(m) = pubuids[t]
           /\ UNCHANGED <<pubuids, types>>
  <2>1. CASE types[Number(m)] = TypeOf[m.pub]
    <3>1. r = <<Value(Number(m), m)>>
      BY <1>2, <2>1 DEF FramesFor
    <3>2. EntryFor(Value(Number(m), m)) = TheEntry(t) /\ Value(Number(m), m).kind = "value"
      BY <1>2, <2>1 DEF EntryFor, Value, TheEntry, EntryIn, Entry
    <3> QED
      BY <1>2, <3>1, <3>2 DEF Tells
  <2>2. CASE types[Number(m)] # TypeOf[m.pub]
    <3>1. r = <<>>
      BY <1>2, <2>2 DEF FramesFor
    <3> QED
      BY <1>2, <3>1
  <2> QED
    BY <2>1, <2>2
<1>3. CASE /\ ~Known(m) /\ pubuids[t] = 0 /\ Number(m) = Len(types) + 1
           /\ pubuids' = [pubuids EXCEPT ![t] = Len(types) + 1]
           /\ types' = Append(types, TypeOf[m.pub])
  <2> DEFINE e == Entry(t, Number(m), TypeOf[m.pub])
  <2>1. r = <<Announcement({e}), Value(Number(m), m)>>
    BY <1>3 DEF FramesFor
  <2>2. TypeOf[m.pub] \in Types
    BY <1>1, NtAssumption DEF Messages
  <2>3. pubuids'[t] = Len(types) + 1 /\ types'[Len(types) + 1] = TypeOf[m.pub]
    BY <1>1, <1>3, <2>2, AppendProperties DEF NtTypeOK
  <2>4. EntryIn(pubuids', types', t) = e
    BY <2>3, <1>3 DEF EntryIn, Entry
  <2>5. EntryFor(Value(Number(m), m)) = e /\ Value(Number(m), m).kind = "value"
    BY DEF EntryFor, Value, Entry
  <2>6. Announcement({e}).kind = "announce" /\ Announcement({e}).entries = {e}
    BY DEF Announcement
  <2>7. Len(r) = 2 /\ r[1] = Announcement({e}) /\ r[2] = Value(Number(m), m)
    BY <2>1
  <2> HIDE DEF e, r
  <2>8. ASSUME NEW i \in 1..Len(r), NEW x, Tells(r[i], x) PROVE x = e
    <3>1. i = 1 \/ i = 2
      BY <2>7
    <3>2. ~Tells(r[2], x)
      BY <2>5, <2>7 DEF Tells
    <3> QED
      BY <2>6, <2>7, <2>8, <3>1, <3>2 DEF Tells
  <2> QED
    BY <1>3, <2>4, <2>5, <2>6, <2>7, <2>8 DEF Tells, r
<1> QED
  BY <1>2, <1>3, DrainNumbers

\* An entry of the table stays one.
LEMMA EntriesStay ==
    ASSUME NtTypeOK, Numbering, Drain, NEW t \in Topics, pubuids[t] # 0
    PROVE  EntryIn(pubuids', types', t) = TheEntry(t)
<1>1. pubuids'[t] = pubuids[t] /\ pubuids[t] \in 1..Len(types)
  BY TableGrows DEF NtTypeOK, Numbering
<1>2. types'[pubuids[t]] = types[pubuids[t]]
  <2>1. CASE UNCHANGED types
    BY <2>1
  <2>2. CASE types' = Append(types, TypeOf[Head(messages).pub])
    <3>1. TypeOf[Head(messages).pub] \in Types
      BY DrainNumbers, NtAssumption DEF Messages
    <3> QED
      BY <2>2, <3>1, <1>1, AppendProperties DEF NtTypeOK
  <2> QED
    BY <2>1, <2>2, DrainNumbers
<1> QED
  BY <1>1, <1>2 DEF EntryIn, TheEntry

ServerInv == Quiet /\ Truthful /\ InTime

LEMMA DrainKeepsServer ==
    ASSUME NtTypeOK, Numbering, ServerInv, Drain
    PROVE  ServerInv'
<1> DEFINE m == Head(messages)
           t == TopicOf[m.pub]
           r == FramesFor(m)
<1>1. /\ phase = "drain" /\ outgoing' = outgoing \o r /\ r \in Seq(FrameSet) /\ t \in Topics
      /\ UNCHANGED <<phase, link, wire, announced>>
  BY FramesForTypes, DrainNumbers DEF Drain, server
<1>2. Quiet'
  BY <1>1 DEF Quiet
<1> DEFINE Now(u) == EntryIn(pubuids', types', u)
           FitsNow(e) == e.topic \in Topics /\ e.id # 0 /\ e = Now(e.topic)
<1>3. \A e : Fits(e) => FitsNow(e)
  <2>1. ASSUME NEW e, Fits(e) PROVE FitsNow(e)
    <3>1. e.topic \in Topics /\ e = TheEntry(e.topic) /\ e.id # 0
      BY <2>1 DEF Fits
    <3>2. pubuids[e.topic] # 0
      BY <3>1 DEF TheEntry, EntryIn, Entry
    <3> QED
      BY <3>1, <3>2, EntriesStay
  <2> QED
    BY <2>1
<1>4. FitsNow(Now(t))
  <2>1. pubuids'[t] # 0
    BY <1>1, DrainNumbers DEF NtTypeOK
  <2> QED
    BY <1>1, <2>1 DEF EntryIn, Entry
<1>5. \A i \in 1..Len(r) : \A e : Tells(r[i], e) => FitsNow(e)
  BY <1>4, DrainFrames
<1> HIDE DEF FitsNow, Now, r
<1>6. \A i \in 1..Len(outgoing') : \A e : Tells(outgoing'[i], e) => FitsNow(e)
  <2>1. /\ Len(outgoing) \in Nat /\ Len(r) \in Nat /\ Len(outgoing') = Len(outgoing) + Len(r)
        /\ \A i \in 1..(Len(outgoing) + Len(r)) :
              outgoing'[i] = IF i <= Len(outgoing) THEN outgoing[i] ELSE r[i - Len(outgoing)]
    BY <1>1, ConcatProperties DEF NtTypeOK
  <2>2. ASSUME NEW i \in 1..Len(outgoing'), NEW e, Tells(outgoing'[i], e) PROVE FitsNow(e)
    <3>1. CASE i <= Len(outgoing)
      BY <2>1, <2>2, <3>1, <1>3 DEF ServerInv, Truthful, AllFit
    <3>2. CASE i > Len(outgoing)
      <4>1. i - Len(outgoing) \in 1..Len(r) /\ outgoing'[i] = r[i - Len(outgoing)]
        BY <2>1, <3>2
      <4> QED
        BY <2>2, <4>1, <1>5
    <3> QED
      BY <2>1, <3>1, <3>2
  <2> QED
    BY <2>2
<1>7. Truthful'
  <2>1. (\A e \in announced : FitsNow(e)) /\ \A i \in 1..Len(wire) : \A e : Tells(wire[i], e) => FitsNow(e)
    BY <1>3 DEF ServerInv, Truthful, AllFit
  <2>2. \A e \in announced' : Fits(e)'
    BY <1>1, <2>1 DEF Fits, FitsNow, Now, TheEntry, EntryIn
  <2>3. AllFit(wire)'
    BY <1>1, <2>1 DEF AllFit, Fits, FitsNow, Now, TheEntry, EntryIn
  <2>4. AllFit(outgoing)'
    BY <1>6 DEF AllFit, Fits, FitsNow, Now, TheEntry, EntryIn
  <2> QED
    BY <2>2, <2>3, <2>4 DEF Truthful
<1>8. Frames' = Frames \o r /\ Frames \in Seq(FrameSet)
  <2>1. wire \in Seq(FrameSet) /\ outgoing \in Seq(FrameSet)
    BY DEF NtTypeOK
  <2>2. wire \o (outgoing \o r) = (wire \o outgoing) \o r
    BY <1>1, <2>1, ConcatAssociative
  <2>3. wire \o outgoing \in Seq(FrameSet)
    BY <2>1, ConcatProperties
  <2> QED
    BY <1>1, <2>2, <2>3 DEF Frames
<1>9. ASSUME link PROVE Covered(Frames', announced)
  <2>1. Covered(Frames, announced) /\ \A u \in Topics : pubuids[u] # 0 => WillKnow(TheEntry(u), Frames, announced)
    BY <1>1, <1>9 DEF ServerInv, InTime
  <2>2. \A i \in 1..Len(r) : r[i].kind = "value" =>
            \/ WillKnow(EntryFor(r[i]), Frames, announced)
            \/ \E j \in 1..(i - 1) : Tells(r[j], EntryFor(r[i]))
    <3>1. CASE /\ pubuids[t] # 0
               /\ \A i \in 1..Len(r) : r[i].kind = "value" => EntryFor(r[i]) = TheEntry(t)
      BY <1>1, <2>1, <3>1
    <3>2. CASE /\ Len(r) = 2 /\ r[1].kind = "announce" /\ Tells(r[1], Now(t))
               /\ r[2].kind = "value" /\ EntryFor(r[2]) = Now(t)
      <4>1. ASSUME NEW i \in 1..Len(r), r[i].kind = "value"
            PROVE  1 \in 1..(i - 1) /\ Tells(r[1], EntryFor(r[i]))
        BY <3>2, <4>1
      <4> QED
        BY <4>1
    <3> QED
      BY <3>1, <3>2, DrainFrames DEF r, Now
  <2> QED
    BY <1>1, <1>8, <2>1, <2>2, CoveredConcat
<1>10. ASSUME link, NEW u \in Topics, pubuids'[u] # 0 PROVE WillKnow(Now(u), Frames', announced)
  <2>1. CASE pubuids[u] # 0
    <3>1. WillKnow(TheEntry(u), Frames, announced)
      BY <1>1, <1>10, <2>1 DEF ServerInv, InTime
    <3>2. Now(u) = TheEntry(u)
      BY <2>1, EntriesStay DEF Now
    <3> QED
      BY <1>1, <1>8, <3>1, <3>2, WillKnowConcat
  <2>2. CASE pubuids[u] = 0
    <3>1. u = t
      BY <1>10, <2>2, DrainNumbers DEF NtTypeOK
    <3>2. 1 \in 1..Len(r) /\ Tells(r[1], Now(t))
      BY <2>2, <3>1, DrainFrames DEF r, Now
    <3> QED
      BY <1>1, <1>8, <3>1, <3>2, WillKnowConcat
  <2> QED
    BY <2>1, <2>2
<1>11. InTime'
  <2>1. Covered(wire', announced')
    BY <1>1 DEF ServerInv, InTime
  <2>2. link' => Covered(Frames', announced')
    BY <1>1, <1>9
  <2>3. link' => \A u \in Topics : pubuids'[u] # 0 => WillKnow(TheEntry(u), Frames, announced)'
    BY <1>1, <1>10 DEF TheEntry, Now
  <2> QED
    BY <2>1, <2>2, <2>3 DEF InTime, Covered
<1> QED
  BY <1>2, <1>7, <1>11 DEF ServerInv

\* What fits the table does so until the table changes.
LEMMA SameTable ==
    ASSUME UNCHANGED <<pubuids, types>>
    PROVE  /\ \A e : Fits(e)' <=> Fits(e)
           /\ \A t : TheEntry(t)' = TheEntry(t)
BY DEF Fits, TheEntry, EntryIn

\* A new connection: nothing is under way, and if no topic has a number there is
\* nothing to announce.
LEMMA ConnectKeepsServer ==
    ASSUME NtTypeOK, Numbering, ServerInv, Connect
    PROVE  ServerInv'
<1>1. /\ wire' = <<>> /\ outgoing' = <<>> /\ messages' = <<>> /\ announced' = {}
      /\ phase' = IF types = <<>> THEN "receive" ELSE "announce"
      /\ UNCHANGED <<pubuids, types>>
  BY DEF Connect, ServerInv, Quiet, table
<1>2. Len(wire') = 0 /\ Len(outgoing') = 0 /\ Frames' = <<>>
  <2>1. <<>> \o <<>> = <<>>
    OBVIOUS
  <2> QED
    BY <1>1, <2>1 DEF Frames
<1>3. Quiet' /\ Truthful'
  BY <1>1, <1>2 DEF Quiet, Truthful, AllFit
<1>4. Covered(wire', announced') /\ Covered(Frames', announced')
  BY <1>1, <1>2 DEF Covered
<1>5. phase' \in {"receive", "drain"} => \A t \in Topics : pubuids'[t] = 0
  BY <1>1 DEF Numbering, NtTypeOK
<1> QED
  BY <1>3, <1>4, <1>5 DEF ServerInv, InTime

\* All topics are announced: from here on the server knows what has a number.
LEMMA AnnounceKeepsServer ==
    ASSUME NtTypeOK, Numbering, ServerInv, Announce
    PROVE  ServerInv'
<1>1. /\ messages = <<>> /\ outgoing = <<>> /\ messages' = <<>> /\ outgoing' = <<>>
      /\ UNCHANGED <<pubuids, types, link, announced>>
  BY DEF Announce, Fail, ServerInv, Quiet, table, server
<1>2. Frames = wire /\ Frames' = wire' /\ wire \in Seq(FrameSet)
  <2>1. wire \in Seq(FrameSet) /\ wire' \in Seq(FrameSet)
    BY TaskKeepsTypes DEF Task, NtTypeOK
  <2> QED
    BY <1>1, <2>1 DEF Frames
<1> DEFINE a == Announcement(Announced)
<1>3. a \in FrameSet
  BY AnnouncedTypes DEF Announcement, FrameSet
<1>4. \A e : Tells(a, e) <=> \E t \in Topics : pubuids[t] # 0 /\ e = TheEntry(t)
  BY DEF Tells, Announcement, Announced, TheEntry, EntryIn
<1>5. \A e : Tells(a, e) => Fits(e)
  BY <1>4 DEF Fits, TheEntry, EntryIn, Entry
<1>6. a.kind = "announce"
  BY DEF Announcement
<1>7. CASE link /\ wire' = wire \o <<a>> /\ phase' = "receive"
  <2> HIDE DEF a
  <2> DEFINE r == <<a>>
  <2>1. r \in Seq(FrameSet) /\ Len(r) = 1 /\ r[1] = a
    BY <1>3
  <2> HIDE DEF r
  <2>2. Covered(wire \o r, announced)
    BY <1>2, <1>6, <2>1, CoveredConcat DEF ServerInv, InTime
  <2>3. \A t \in Topics : pubuids[t] # 0 => WillKnow(TheEntry(t), wire \o r, announced)
    BY <1>2, <1>4, <2>1, WillKnowConcat
  <2>4. AllFit(wire \o r)
    <3>1. /\ Len(wire) \in Nat /\ Len(wire \o r) = Len(wire) + 1
          /\ \A i \in 1..(Len(wire) + 1) :
                (wire \o r)[i] = IF i <= Len(wire) THEN wire[i] ELSE r[i - Len(wire)]
      <4>1. /\ Len(wire \o r) = Len(wire) + Len(r)
            /\ \A i \in 1..(Len(wire) + Len(r)) :
                  (wire \o r)[i] = IF i <= Len(wire) THEN wire[i] ELSE r[i - Len(wire)]
        BY <1>2, <2>1, ConcatProperties
      <4> QED
        BY <1>2, <2>1, <4>1
    <3>2. ASSUME NEW i \in 1..Len(wire \o r), NEW e, Tells((wire \o r)[i], e) PROVE Fits(e)
      <4>1. CASE i <= Len(wire)
        BY <3>1, <3>2, <4>1 DEF ServerInv, Truthful, AllFit
      <4>2. CASE i = Len(wire) + 1
        <5>1. (wire \o r)[i] = a
          BY <2>1, <3>1, <4>2
        <5> QED
          BY <1>5, <3>2, <5>1
      <4> QED
        BY <3>1, <4>1, <4>2
    <3> QED
      BY <3>2 DEF AllFit
  <2>5. wire' = wire \o r
    BY <1>7 DEF r
  <2>6. Quiet'
    BY <1>1, <1>7 DEF Quiet
  <2>7. Truthful'
    <3>1. \A e \in announced : Fits(e)
      BY DEF ServerInv, Truthful
    <3>2. AllFit(wire)'
      BY <1>1, <2>4, <2>5, SameTable DEF AllFit
    <3>3. AllFit(outgoing)'
      BY <1>1, EmptySeq DEF AllFit
    <3> QED
      BY <1>1, <3>1, <3>2, <3>3, SameTable DEF Truthful
  <2>8. InTime'
    <3>1. Covered(wire', announced') /\ Covered(Frames', announced')
      BY <1>1, <1>2, <2>2, <2>5
    <3>2. \A t \in Topics : pubuids'[t] # 0 => WillKnow(TheEntry(t)', Frames', announced')
      BY <1>1, <1>2, <2>3, <2>5, SameTable
    <3> QED
      BY <3>1, <3>2 DEF InTime, Covered, WillKnow
  <2> QED
    BY <2>6, <2>7, <2>8 DEF ServerInv, Truthful
<1>8. CASE ~link /\ wire' = wire /\ phase' \in {"receive", "connect"}
  <2>1. Quiet'
    BY <1>1, <1>8 DEF Quiet
  <2>2. Truthful'
    BY <1>1, <1>8, SameTable DEF ServerInv, Truthful, AllFit
  <2>3. InTime'
    BY <1>1, <1>8 DEF ServerInv, InTime
  <2> QED
    BY <2>1, <2>2, <2>3 DEF ServerInv
<1> QED
  BY <1>7, <1>8 DEF Announce, Written, Fail, NtTypeOK

\* The batch is written, or fails with its connection.
LEMMA FlushKeepsServer ==
    ASSUME NtTypeOK, ServerInv, Flush
    PROVE  ServerInv'
<1>1. /\ phase = "drain" /\ messages = <<>> /\ messages' = <<>> /\ UNCHANGED <<pubuids, types, link, announced>>
  BY DEF Flush, Fail, table, server
<1>2. outgoing' = <<>> /\ AllFit(outgoing)'
  BY EmptySeq DEF Flush, Fail, AllFit
<1>3. CASE link /\ wire' = wire \o outgoing /\ phase' = "receive"
  <2>1. wire \in Seq(FrameSet) /\ outgoing \in Seq(FrameSet)
    BY DEF NtTypeOK
  <2>2. Frames \in Seq(FrameSet) /\ wire' = Frames /\ Frames' = Frames
    <3>1. wire \o outgoing \in Seq(FrameSet)
      BY <2>1, ConcatProperties
    <3>2. (wire \o outgoing) \o <<>> = wire \o outgoing
      BY <3>1
    <3> QED
      BY <1>2, <1>3, <3>1, <3>2 DEF Frames
  <2>3. AllFit(Frames)
    <3>1. /\ Len(wire) \in Nat /\ Len(outgoing) \in Nat /\ Len(Frames) = Len(wire) + Len(outgoing)
          /\ \A i \in 1..(Len(wire) + Len(outgoing)) :
                Frames[i] = IF i <= Len(wire) THEN wire[i] ELSE outgoing[i - Len(wire)]
      BY <2>1, ConcatProperties DEF Frames
    <3>2. ASSUME NEW i \in 1..Len(Frames), NEW e, Tells(Frames[i], e) PROVE Fits(e)
      <4>1. CASE i <= Len(wire)
        BY <3>1, <3>2, <4>1 DEF ServerInv, Truthful, AllFit
      <4>2. CASE i > Len(wire)
        <5>1. i - Len(wire) \in 1..Len(outgoing) /\ Frames[i] = outgoing[i - Len(wire)]
          BY <3>1, <4>2
        <5> QED
          BY <3>2, <5>1 DEF ServerInv, Truthful, AllFit
      <4> QED
        BY <3>1, <4>1, <4>2
    <3> QED
      BY <3>2 DEF AllFit
  <2>4. Truthful'
    <3>1. AllFit(wire)'
      BY <1>1, <2>2, <2>3, SameTable DEF AllFit
    <3>2. \A e \in announced : Fits(e)
      BY DEF ServerInv, Truthful
    <3> QED
      BY <1>1, <1>2, <3>1, <3>2, SameTable DEF Truthful
  <2>5. InTime'
    <3>1. /\ Covered(Frames, announced)
          /\ \A t \in Topics : pubuids[t] # 0 => WillKnow(TheEntry(t), Frames, announced)
      BY <1>1, <1>3 DEF ServerInv, InTime
    <3>2. Covered(wire', announced') /\ Covered(Frames', announced')
      BY <1>1, <2>2, <3>1
    <3>3. \A t \in Topics : pubuids'[t] # 0 => WillKnow(TheEntry(t)', Frames', announced')
      BY <1>1, <2>2, <3>1, SameTable
    <3> QED
      BY <3>2, <3>3 DEF InTime, Covered, WillKnow
  <2> QED
    BY <1>1, <1>2, <1>3, <2>4, <2>5 DEF ServerInv, Quiet
<1>4. CASE ~link /\ wire' = wire
  <2>1. Quiet'
    BY <1>1, <1>2, <1>4 DEF Quiet
  <2>2. Truthful'
    BY <1>1, <1>2, <1>4, SameTable DEF ServerInv, Truthful, AllFit
  <2>3. InTime'
    BY <1>1, <1>4 DEF ServerInv, InTime
  <2> QED
    BY <2>1, <2>2, <2>3 DEF ServerInv
<1>5. \/ wire' = Written(outgoing) /\ phase' = "receive"
      \/ ~link /\ wire' = wire
  BY DEF Flush, Fail
<1>6. link \/ ~link
  OBVIOUS
<1> QED
  BY <1>3, <1>4, <1>5, <1>6 DEF Written

\* A prefix of what is under way arrives.
LEMMA BreakKeepsServer ==
    ASSUME NtTypeOK, ServerInv, Break
    PROVE  ServerInv'
<1>1. link' = FALSE /\ UNCHANGED <<pubuids, types, phase, messages, outgoing, announced>>
  BY DEF Break, table, server
<1>2. PICK k \in 0..Len(wire) : wire' = SubSeq(wire, 1, k)
  BY DEF Break
<1>3. /\ wire' \in Seq(FrameSet) /\ Len(wire') <= Len(wire) /\ Len(wire) \in Nat /\ Len(wire') \in Nat
      /\ \A i \in 1..Len(wire') : wire'[i] = wire[i]
  BY <1>2, SubSeqProperties DEF NtTypeOK
<1>4. Covered(wire', announced)
  <2>1. wire \in Seq(FrameSet)
    BY DEF NtTypeOK
  <2> QED
    BY <1>3, <2>1, CoveredPrefix DEF ServerInv, InTime
<1>5. Truthful'
  <2>1. \A i \in 1..Len(wire') : \A e : Tells(wire'[i], e) => Fits(e)
    BY <1>3 DEF ServerInv, Truthful, AllFit
  <2>2. AllFit(wire)'
    BY <1>1, <2>1, SameTable DEF AllFit
  <2> QED
    BY <1>1, <2>2, SameTable DEF ServerInv, Truthful, AllFit
<1>6. InTime'
  BY <1>1, <1>4 DEF InTime
<1>7. Quiet'
  BY <1>1 DEF ServerInv, Quiet
<1> QED
  BY <1>5, <1>6, <1>7 DEF ServerInv

LEMMA TailOfConcat ==
    ASSUME NEW S, NEW s \in Seq(S), NEW r \in Seq(S), s # <<>>
    PROVE  /\ s \o r \in Seq(S) /\ s \o r # <<>> /\ Head(s \o r) = Head(s)
           /\ Tail(s \o r) = Tail(s) \o r
<1>1. /\ s \o r \in Seq(S) /\ Len(s) \in Nat \ {0} /\ Len(r) \in Nat /\ Len(s \o r) = Len(s) + Len(r)
      /\ \A i \in 1..(Len(s) + Len(r)) : (s \o r)[i] = IF i <= Len(s) THEN s[i] ELSE r[i - Len(s)]
  BY ConcatProperties, EmptySeq
<1>2. s \o r # <<>>
  BY <1>1
<1>3. Head(s \o r) = Head(s)
  <2>1. Head(s) = s[1] /\ Head(s \o r) = (s \o r)[1]
    BY <1>1, <1>2
  <2> QED
    BY <1>1, <2>1
<1>4. Tail(s \o r) = Tail(s) \o r
  <2> DEFINE c == s \o r
             d == Tail(s) \o r
  <2>1. /\ Tail(c) \in Seq(S) /\ Len(Tail(c)) = Len(s) + Len(r) - 1
        /\ \A i \in 1..Len(Tail(c)) : Tail(c)[i] = c[i + 1]
    BY <1>1, <1>2, HeadTailProperties
  <2>2. Tail(s) \in Seq(S) /\ Len(Tail(s)) = Len(s) - 1 /\ \A i \in 1..Len(Tail(s)) : Tail(s)[i] = s[i + 1]
    BY HeadTailProperties
  <2>3. /\ d \in Seq(S) /\ Len(d) = Len(Tail(s)) + Len(r)
        /\ \A i \in 1..(Len(Tail(s)) + Len(r)) :
              d[i] = IF i <= Len(Tail(s)) THEN Tail(s)[i] ELSE r[i - Len(Tail(s))]
    BY <2>2, ConcatProperties
  <2> HIDE DEF d
  <2>4. Len(Tail(c)) = Len(d) /\ \A i \in 1..Len(d) : c[i + 1] = d[i]
    BY <1>1, <2>1, <2>2, <2>3
  <2>5. Tail(c) = d
    BY <2>1, <2>3, <2>4, SeqEqual
  <2> QED
    BY <2>5 DEF d
<1> QED
  BY <1>1, <1>2, <1>3, <1>4

\* The server reads a frame: what that tells it knows from now on.
LEMMA ArriveKeepsServer ==
    ASSUME NtTypeOK, ServerInv, Arrive
    PROVE  ServerInv'
<1> DEFINE f == Head(wire)
<1>1. /\ wire # <<>> /\ wire' = Tail(wire) /\ wire \in Seq(FrameSet) /\ outgoing \in Seq(FrameSet)
      /\ UNCHANGED <<pubuids, types, phase, messages, outgoing, link>>
  BY DEF Arrive, table, NtTypeOK
<1>2. /\ announced \subseteq announced' /\ \A e : Tells(f, e) => e \in announced'
      /\ \A e \in announced' : e \in announced \/ Tells(f, e)
  BY DEF Arrive, Tells
<1>3. f = wire[1] /\ Len(wire) \in Nat \ {0} /\ Len(Tail(wire)) = Len(wire) - 1
      /\ \A i \in 1..Len(Tail(wire)) : Tail(wire)[i] = wire[i + 1]
  BY <1>1, HeadTailProperties, EmptySeq
<1>4. /\ Frames \in Seq(FrameSet) /\ Frames # <<>> /\ Head(Frames) = f /\ Frames' = Tail(Frames)
  BY <1>1, TailOfConcat DEF Frames
<1> HIDE DEF f
<1>5. Truthful'
  <2>1. \A e \in announced' : Fits(e)
    BY <1>2, <1>3 DEF ServerInv, Truthful, AllFit
  <2>2. \A i \in 1..Len(wire') : \A e : Tells(wire'[i], e) => Fits(e)
    <3>1. ASSUME NEW i \in 1..Len(Tail(wire)) PROVE i + 1 \in 1..Len(wire) /\ Tail(wire)[i] = wire[i + 1]
      BY <1>3
    <3> QED
      BY <1>1, <3>1 DEF ServerInv, Truthful, AllFit
  <2>3. AllFit(wire)'
    BY <1>1, <2>2, SameTable DEF AllFit
  <2>4. AllFit(outgoing)'
    BY <1>1, SameTable DEF ServerInv, Truthful, AllFit
  <2> QED
    BY <1>1, <2>1, <2>3, <2>4, SameTable DEF Truthful
<1>6. InTime'
  <2>1. Covered(wire', announced')
    BY <1>1, <1>2, CoveredTail DEF ServerInv, InTime, f
  <2>2. ASSUME link PROVE Covered(Frames', announced')
    BY <1>2, <1>4, <2>2, CoveredTail DEF ServerInv, InTime
  <2>3. ASSUME link, phase \in {"receive", "drain"}, NEW t \in Topics, pubuids[t] # 0
        PROVE  WillKnow(TheEntry(t), Frames', announced')
    <3>1. WillKnow(TheEntry(t), Frames, announced)
      BY <2>3 DEF ServerInv, InTime
    <3> QED
      BY <1>2, <1>4, <3>1, WillKnowTail
  <2>4. link' /\ phase' \in {"receive", "drain"} =>
            \A t \in Topics : pubuids'[t] # 0 => WillKnow(TheEntry(t)', Frames', announced')
    BY <1>1, <2>3, SameTable
  <2> QED
    BY <1>1, <2>1, <2>2, <2>4 DEF InTime, Covered, WillKnow
<1>7. Quiet'
  BY <1>1 DEF ServerInv, Quiet
<1> QED
  BY <1>5, <1>6, <1>7 DEF ServerInv

LEMMA NextServer ==
    ASSUME NtTypeOK, Numbering, ServerInv, [NtNext]_ntVars
    PROVE  ServerInv'
<1>1. ASSUME \/ \E p \in Publishers : SetLoad(p) \/ SetSend(p)
             \/ \E k \in 1..Most : Receive(k)
             \/ Ping
             \/ UNCHANGED ntVars
      PROVE  ServerInv'
  <2>1. UNCHANGED <<pubuids, types, outgoing, link, wire, announced>>
    BY <1>1 DEF SetLoad, SetSend, Receive, Ping, Fail, ntVars, table, server, ServerInv, Quiet
  <2>2. \/ UNCHANGED <<phase, messages>>
        \/ phase = "receive" /\ phase' = "drain"
        \/ ~link /\ phase' = "connect" /\ messages' = <<>> /\ outgoing' = <<>>
    BY <1>1 DEF SetLoad, SetSend, Receive, Ping, Fail, ntVars
  <2>3. Quiet'
    BY <2>1, <2>2 DEF ServerInv, Quiet
  <2>4. Truthful'
    BY <2>1, SameTable DEF ServerInv, Truthful, AllFit
  <2>5. InTime'
    <3>1. Covered(wire', announced') /\ (link' => Covered(Frames', announced'))
      BY <2>1 DEF ServerInv, InTime, Frames
    <3>2. link' /\ phase' \in {"receive", "drain"} =>
            \A t \in Topics : pubuids'[t] # 0 => WillKnow(TheEntry(t)', Frames', announced')
      BY <2>1, <2>2, SameTable DEF ServerInv, InTime, Frames
    <3> QED
      BY <3>1, <3>2 DEF InTime, Covered, WillKnow
  <2> QED
    BY <2>3, <2>4, <2>5 DEF ServerInv
<1> QED
  BY <1>1, ConnectKeepsServer, AnnounceKeepsServer, DrainKeepsServer, FlushKeepsServer,
     BreakKeepsServer, ArriveKeepsServer DEF NtNext, Task

LEMMA InitServer == NtInit => ServerInv
<1> SUFFICES ASSUME NtInit PROVE ServerInv
    OBVIOUS
<1>1. wire = <<>> /\ outgoing = <<>> /\ announced = {} /\ ~link /\ messages = <<>> /\ phase = "connect"
  BY DEF NtInit
<1>2. Len(wire) = 0 /\ Len(outgoing) = 0
  BY <1>1
<1> QED
  BY <1>1, <1>2 DEF ServerInv, Quiet, Truthful, InTime, AllFit, Covered

\* The server can place every value that is under way, and a number it has been told
\* of stands for one topic and one type: the invariant is that it has been told, or
\* will be by the frames before, of every topic that has a number (while the
\* connection holds), and that everything it is ever told is what the table says.
THEOREM ServerUnderstands == NtSpec => [](Understood /\ NumbersAreUnique)
<1> DEFINE I == NtTypeOK /\ Numbering /\ ServerInv
<1>1. NtInit => I
  BY InitTypes, InitNumbering, InitServer
<1>2. I /\ [NtNext]_ntVars => I'
  BY NextTypes, NextNumbering, NextServer
<1>3. I => Understood
  <2> SUFFICES ASSUME I, NEW i \in DOMAIN wire, wire[i].kind = "value"
               PROVE  \/ EntryFor(wire[i]) \in announced
                      \/ \E j \in 1..(i - 1) : wire[j].kind = "announce" /\ EntryFor(wire[i]) \in wire[j].entries
      BY DEF Understood, EntryFor
  <2>1. i \in 1..Len(wire)
    BY DEF NtTypeOK
  <2> QED
    BY <2>1 DEF ServerInv, InTime, Covered, Tells
<1>4. I => NumbersAreUnique
  <2> SUFFICES ASSUME I, NEW e \in announced, NEW f \in announced, e.id = f.id \/ e.topic = f.topic
               PROVE  e = f
      BY DEF NumbersAreUnique
  <2>1. Fits(e) /\ Fits(f)
    BY DEF ServerInv, Truthful
  <2>2. e.id = pubuids[e.topic] /\ f.id = pubuids[f.topic]
    BY <2>1 DEF Fits, TheEntry, EntryIn, Entry
  <2>3. e.topic = f.topic
    BY <2>1, <2>2 DEF Fits, Numbering
  <2> QED
    BY <2>1, <2>3 DEF Fits
<1> HIDE DEF I
<1> QED
  BY <1>1, <1>2, <1>3, <1>4, PTL DEF NtSpec

-----------------------------------------------------------------------------
(* The order of the values.                                                *)

\* The frames F and, behind them, the messages M carry the values of a publisher in
\* the order in which they were set, none twice, all of them later than the last that
\* was seen and none later than the last that was set.
InFrames(F, last, made) ==
    \A i \in 1..Len(F) : F[i].kind = "value" => last[F[i].pub] < F[i].n /\ F[i].n <= made[F[i].pub]
InMail(M, last, made) ==
    \A i \in 1..Len(M) : last[M[i].pub] < M[i].n /\ M[i].n <= made[M[i].pub]
FramesRise(F) ==
    \A i, j \in 1..Len(F) :
        i < j /\ F[i].kind = "value" /\ F[j].kind = "value" /\ F[i].pub = F[j].pub => F[i].n < F[j].n
MailRises(M) ==
    \A i, j \in 1..Len(M) : i < j /\ M[i].pub = M[j].pub => M[i].n < M[j].n
FramesFirst(F, M) ==
    \A i \in 1..Len(F) : \A j \in 1..Len(M) :
        F[i].kind = "value" /\ F[i].pub = M[j].pub => F[i].n < M[j].n
Order(F, M, last, made) ==
    /\ InFrames(F, last, made) /\ InMail(M, last, made)
    /\ FramesRise(F) /\ MailRises(M) /\ FramesFirst(F, M)
    /\ \A p \in Publishers : last[p] <= made[p]

Mail == messages \o queue
InOrder == Order(Frames, Mail, LastGot, sets)

LEMMA ValueShape ==
    ASSUME NEW f \in FrameSet, f.kind = "value"
    PROVE  f.pub \in Publishers /\ f.n \in Nat /\ f.id \in Nat
BY DEF FrameSet

\* Frames that are left out leave the others in order, and an announcement in between
\* changes nothing.
LEMMA OrderOfSome ==
    ASSUME NEW F, NEW M, NEW last, NEW made, Order(F, M, last, made), NEW G, NEW h,
           \A i \in 1..Len(G) : G[i].kind = "value" => h[i] \in 1..Len(F) /\ G[i] = F[h[i]],
           \A i, j \in 1..Len(G) : i < j => h[i] < h[j]
    PROVE  Order(G, M, last, made)
<1>1. InFrames(G, last, made)
  BY DEF Order, InFrames
<1>2. FramesRise(G)
  <2> SUFFICES ASSUME NEW i \in 1..Len(G), NEW j \in 1..Len(G), i < j,
                      G[i].kind = "value", G[j].kind = "value", G[i].pub = G[j].pub
               PROVE  G[i].n < G[j].n
      BY DEF FramesRise
  <2>1. h[i] \in 1..Len(F) /\ h[j] \in 1..Len(F) /\ h[i] < h[j] /\ G[i] = F[h[i]] /\ G[j] = F[h[j]]
    OBVIOUS
  <2> QED
    BY <2>1 DEF Order, FramesRise
<1>3. FramesFirst(G, M)
  BY DEF Order, FramesFirst
<1> QED
  BY <1>1, <1>2, <1>3 DEF Order

\* One message becomes frames, of which one at most is a value, its own.
LEMMA OrderOfDrained ==
    ASSUME NEW F \in Seq(FrameSet), NEW M \in Seq(Messages), NEW last \in [Publishers -> Nat],
           NEW made \in [Publishers -> Nat], Order(F, M, last, made), M # <<>>,
           NEW r \in Seq(FrameSet),
           \A i \in 1..Len(r) : r[i].kind = "value" =>
               /\ r[i].pub = Head(M).pub /\ r[i].n = Head(M).n
               /\ \A j \in 1..Len(r) : r[j].kind = "value" => i = j
    PROVE  Order(F \o r, Tail(M), last, made)
<1> DEFINE G == F \o r
           N == Tail(M)
<1>1. /\ Len(F) \in Nat /\ Len(r) \in Nat /\ Len(G) = Len(F) + Len(r)
      /\ \A i \in 1..(Len(F) + Len(r)) : G[i] = IF i <= Len(F) THEN F[i] ELSE r[i - Len(F)]
  BY ConcatProperties
<1>2. /\ Len(M) \in Nat \ {0} /\ Head(M) = M[1] /\ Len(N) = Len(M) - 1
      /\ \A i \in 1..Len(N) : N[i] = M[i + 1]
  BY HeadTailProperties, EmptySeq
<1>3. 1 \in 1..Len(M) /\ \A j \in 1..Len(N) : j + 1 \in 1..Len(M)
  BY <1>2
<1>4. \A i \in 1..Len(G) : \/ i \in 1..Len(F) /\ G[i] = F[i]
                           \/ i > Len(F) /\ i - Len(F) \in 1..Len(r) /\ G[i] = r[i - Len(F)]
  BY <1>1
<1> HIDE DEF G, N
<1>5. \A i \in 1..Len(G) : G[i].kind = "value" =>
          \/ i \in 1..Len(F) /\ G[i] = F[i]
          \/ /\ i > Len(F) /\ i - Len(F) \in 1..Len(r)
             /\ G[i].pub = M[1].pub /\ G[i].n = M[1].n
  BY <1>2, <1>4
<1>6. InFrames(G, last, made) /\ InMail(N, last, made)
  <2>1. InFrames(G, last, made)
    BY <1>3, <1>5 DEF Order, InFrames, InMail
  <2>2. InMail(N, last, made)
    BY <1>2, <1>3 DEF Order, InMail
  <2> QED
    BY <2>1, <2>2
<1>7. FramesRise(G)
  <2> SUFFICES ASSUME NEW i \in 1..Len(G), NEW j \in 1..Len(G), i < j,
                      G[i].kind = "value", G[j].kind = "value", G[i].pub = G[j].pub
               PROVE  G[i].n < G[j].n
      BY DEF FramesRise
  <2>1. CASE j \in 1..Len(F) /\ G[j] = F[j]
    <3>1. i \in 1..Len(F) /\ G[i] = F[i]
      BY <1>1, <1>4, <2>1
    <3> QED
      BY <2>1, <3>1 DEF Order, FramesRise
  <2>2. CASE /\ j > Len(F) /\ j - Len(F) \in 1..Len(r) /\ G[j] = r[j - Len(F)]
    <3>1. G[j].pub = M[1].pub /\ G[j].n = M[1].n
      BY <1>2, <2>2
    <3>2. CASE i \in 1..Len(F) /\ G[i] = F[i]
      BY <1>3, <3>1, <3>2 DEF Order, FramesFirst
    <3>3. CASE i > Len(F) /\ i - Len(F) \in 1..Len(r) /\ G[i] = r[i - Len(F)]
      <4>1. i - Len(F) = j - Len(F)
        BY <2>2, <3>3
      <4> QED
        BY <1>1, <4>1
    <3> QED
      BY <1>4, <3>2, <3>3
  <2> QED
    BY <1>4, <2>1, <2>2
<1>8. MailRises(N)
  <2> SUFFICES ASSUME NEW i \in 1..Len(N), NEW j \in 1..Len(N), i < j, N[i].pub = N[j].pub
               PROVE  N[i].n < N[j].n
      BY DEF MailRises
  <2>1. /\ N[i] = M[i + 1] /\ N[j] = M[j + 1] /\ i + 1 < j + 1
        /\ i + 1 \in 1..Len(M) /\ j + 1 \in 1..Len(M)
    BY <1>2, <1>3
  <2> QED
    BY <2>1 DEF Order, MailRises
<1>9. FramesFirst(G, N)
  <2> SUFFICES ASSUME NEW i \in 1..Len(G), NEW j \in 1..Len(N),
                      G[i].kind = "value", G[i].pub = N[j].pub
               PROVE  G[i].n < N[j].n
      BY DEF FramesFirst
  <2>1. N[j] = M[j + 1] /\ j + 1 \in 1..Len(M) /\ 1 < j + 1
    BY <1>2, <1>3
  <2>2. CASE i \in 1..Len(F) /\ G[i] = F[i]
    BY <2>1, <2>2 DEF Order, FramesFirst
  <2>3. CASE G[i].pub = M[1].pub /\ G[i].n = M[1].n
    BY <1>3, <2>1, <2>3 DEF Order, MailRises
  <2> QED
    BY <1>5, <2>2, <2>3
<1> QED
  BY <1>6, <1>7, <1>8, <1>9 DEF Order, G, N

\* The next value is later than all there are.
LEMMA OrderOfSent ==
    ASSUME NEW F \in Seq(FrameSet), NEW M \in Seq(Messages), NEW last \in [Publishers -> Nat],
           NEW made \in [Publishers -> Nat], Order(F, M, last, made), NEW m \in Messages,
           m.n = made[m.pub] + 1
    PROVE  Order(F, Append(M, m), last, [made EXCEPT ![m.pub] = @ + 1])
<1> DEFINE N == Append(M, m)
           more == [made EXCEPT ![m.pub] = @ + 1]
<1>1. m.pub \in Publishers /\ m.n \in Nat /\ made[m.pub] \in Nat
  BY DEF Messages
<1>2. /\ Len(M) \in Nat /\ Len(N) = Len(M) + 1 /\ N[Len(M) + 1] = m
      /\ \A i \in 1..Len(M) : N[i] = M[i] /\ M[i].pub \in Publishers /\ M[i].n \in Nat
  BY AppendProperties, MessageShape
<1>3. \A p \in Publishers : more[p] = IF p = m.pub THEN made[p] + 1 ELSE made[p]
  BY <1>1
<1>4. \A p \in Publishers : /\ made[p] \in Nat /\ last[p] \in Nat /\ more[p] \in Nat
                            /\ made[p] <= more[p] /\ last[p] <= more[p]
  <2> SUFFICES ASSUME NEW p \in Publishers
               PROVE  /\ made[p] \in Nat /\ last[p] \in Nat /\ more[p] \in Nat
                      /\ made[p] <= more[p] /\ last[p] <= more[p]
      OBVIOUS
  <2>1. made[p] \in Nat /\ last[p] \in Nat /\ last[p] <= made[p]
    BY DEF Order
  <2>2. CASE p = m.pub
    BY <1>3, <2>1, <2>2
  <2>3. CASE p # m.pub
    BY <1>3, <2>1, <2>3
  <2> QED
    BY <2>2, <2>3
<1>5. \A i \in 1..Len(F) : F[i] \in FrameSet
  OBVIOUS
<1>6. \A i \in 1..Len(N) : i \in 1..Len(M) \/ i = Len(M) + 1
  BY <1>2
<1> HIDE DEF N, more
<1>7. InFrames(F, last, more)
  <2> SUFFICES ASSUME NEW i \in 1..Len(F), F[i].kind = "value"
               PROVE  last[F[i].pub] < F[i].n /\ F[i].n <= more[F[i].pub]
      BY DEF InFrames
  <2>1. F[i].pub \in Publishers /\ F[i].n \in Nat
    BY <1>5, ValueShape
  <2> QED
    BY <1>3, <1>4, <2>1 DEF Order, InFrames
<1>8. InMail(N, last, more)
  <2> SUFFICES ASSUME NEW i \in 1..Len(N)
               PROVE  last[N[i].pub] < N[i].n /\ N[i].n <= more[N[i].pub]
      BY DEF InMail
  <2>1. CASE i \in 1..Len(M)
    <3>1. N[i] = M[i] /\ M[i].pub \in Publishers /\ M[i].n \in Nat
      BY <1>2, <2>1
    <3>2. last[M[i].pub] < M[i].n /\ M[i].n <= made[M[i].pub]
      BY <2>1 DEF Order, InMail
    <3>3. made[M[i].pub] \in Nat /\ more[M[i].pub] \in Nat /\ made[M[i].pub] <= more[M[i].pub]
      BY <1>4, <3>1
    <3> QED
      BY <3>1, <3>2, <3>3
  <2>2. CASE i = Len(M) + 1
    BY <1>1, <1>2, <1>3, <1>4, <2>2 DEF Order
  <2> QED
    BY <1>6, <2>1, <2>2
<1>9. MailRises(N)
  <2> SUFFICES ASSUME NEW i \in 1..Len(N), NEW j \in 1..Len(N), i < j, N[i].pub = N[j].pub
               PROVE  N[i].n < N[j].n
      BY DEF MailRises
  <2>1. i \in 1..Len(M)
    BY <1>2
  <2>2. CASE j \in 1..Len(M)
    BY <1>2, <2>1, <2>2 DEF Order, MailRises
  <2>3. CASE j = Len(M) + 1
    BY <1>1, <1>2, <2>1, <2>3 DEF Order, InMail
  <2> QED
    BY <1>6, <2>2, <2>3
<1>10. FramesFirst(F, N)
  <2> SUFFICES ASSUME NEW i \in 1..Len(F), NEW j \in 1..Len(N), F[i].kind = "value", F[i].pub = N[j].pub
               PROVE  F[i].n < N[j].n
      BY DEF FramesFirst
  <2>1. F[i].n \in Nat
    BY <1>5, ValueShape
  <2>2. CASE j \in 1..Len(M)
    BY <1>2, <2>2 DEF Order, FramesFirst
  <2>3. CASE j = Len(M) + 1
    BY <1>1, <1>2, <2>1, <2>3 DEF Order, InFrames
  <2> QED
    BY <1>6, <2>2, <2>3
<1> QED
  BY <1>4, <1>7, <1>8, <1>9, <1>10 DEF Order, N, more

\* The first value is seen: all others of its publisher are later.
LEMMA OrderOfSeen ==
    ASSUME NEW F \in Seq(FrameSet), NEW M \in Seq(Messages), NEW last \in [Publishers -> Nat],
           NEW made \in [Publishers -> Nat], Order(F, M, last, made), F # <<>>, Head(F).kind = "value"
    PROVE  Order(Tail(F), M, [last EXCEPT ![Head(F).pub] = Head(F).n], made)
<1> DEFINE f == Head(F)
           G == Tail(F)
           seen == [last EXCEPT ![f.pub] = f.n]
<1>1. /\ f \in FrameSet /\ Len(F) \in Nat \ {0} /\ f = F[1] /\ Len(G) = Len(F) - 1
      /\ \A i \in 1..Len(G) : G[i] = F[i + 1]
  BY HeadTailProperties, EmptySeq
<1>2. f.pub \in Publishers /\ f.n \in Nat
  BY <1>1, ValueShape
<1>3. /\ 1 \in 1..Len(F)
      /\ \A i \in 1..Len(G) : i + 1 \in 1..Len(F) /\ 1 < i + 1 /\ F[i + 1] \in FrameSet
  BY <1>1
<1>4. \A p \in Publishers : seen[p] = IF p = f.pub THEN f.n ELSE last[p]
  BY <1>2
<1>5. last[f.pub] < f.n /\ f.n <= made[f.pub]
  BY <1>1, <1>3 DEF Order, InFrames
<1> HIDE DEF f, G, seen
<1>6. InFrames(G, seen, made)
  <2> SUFFICES ASSUME NEW i \in 1..Len(G), G[i].kind = "value"
               PROVE  seen[G[i].pub] < G[i].n /\ G[i].n <= made[G[i].pub]
      BY DEF InFrames
  <2>1. G[i] = F[i + 1] /\ i + 1 \in 1..Len(F) /\ 1 < i + 1 /\ G[i].pub \in Publishers
    BY <1>1, <1>3, ValueShape
  <2>2. last[G[i].pub] < G[i].n /\ G[i].n <= made[G[i].pub]
    BY <2>1 DEF Order, InFrames
  <2>3. CASE G[i].pub = f.pub
    <3>1. f.n < G[i].n
      BY <1>1, <1>3, <2>1, <2>3 DEF Order, FramesRise, f
    <3> QED
      BY <1>4, <2>1, <2>2, <2>3, <3>1
  <2>4. CASE G[i].pub # f.pub
    BY <1>4, <2>1, <2>2, <2>4
  <2> QED
    BY <2>3, <2>4
<1>7. InMail(M, seen, made)
  <2> SUFFICES ASSUME NEW i \in 1..Len(M)
               PROVE  seen[M[i].pub] < M[i].n /\ M[i].n <= made[M[i].pub]
      BY DEF InMail
  <2>1. M[i].pub \in Publishers
    BY MessageShape
  <2>2. last[M[i].pub] < M[i].n /\ M[i].n <= made[M[i].pub]
    BY DEF Order, InMail
  <2>3. CASE M[i].pub = f.pub
    <3>1. f.n < M[i].n
      BY <1>1, <1>3, <2>3 DEF Order, FramesFirst, f
    <3> QED
      BY <1>4, <2>1, <2>2, <2>3, <3>1
  <2>4. CASE M[i].pub # f.pub
    BY <1>4, <2>1, <2>2, <2>4
  <2> QED
    BY <2>3, <2>4
<1>8. FramesRise(G)
  <2> SUFFICES ASSUME NEW i \in 1..Len(G), NEW j \in 1..Len(G), i < j,
                      G[i].kind = "value", G[j].kind = "value", G[i].pub = G[j].pub
               PROVE  G[i].n < G[j].n
      BY DEF FramesRise
  <2>1. /\ G[i] = F[i + 1] /\ G[j] = F[j + 1] /\ i + 1 < j + 1
        /\ i + 1 \in 1..Len(F) /\ j + 1 \in 1..Len(F)
    BY <1>1, <1>3
  <2> QED
    BY <2>1 DEF Order, FramesRise
<1>9. FramesFirst(G, M)
  BY <1>1, <1>3 DEF Order, FramesFirst
<1>10. \A p \in Publishers : seen[p] <= made[p]
  BY <1>4, <1>5 DEF Order
<1> QED
  BY <1>6, <1>7, <1>8, <1>9, <1>10 DEF Order, f, G, seen

LEMMA LastGotTypes == ASSUME NtTypeOK PROVE LastGot \in [Publishers -> Nat]
<1>1. ASSUME NEW p \in Publishers, got[p] # <<>> PROVE got[p][Len(got[p])] \in Nat
  <2>1. got[p] \in Seq(Nat) /\ Len(got[p]) \in 1..Len(got[p])
    BY <1>1, EmptySeq DEF NtTypeOK
  <2> QED
    BY <2>1
<1> QED
  BY <1>1 DEF LastGot

LEMMA ConcatAppend ==
    ASSUME NEW S, NEW s \in Seq(S), NEW r \in Seq(S), NEW e \in S
    PROVE  s \o Append(r, e) = Append(s \o r, e) /\ s \o r \in Seq(S)
<1>1. s \o r \in Seq(S) /\ <<e>> \in Seq(S)
  BY ConcatProperties
<1>2. Append(r, e) = r \o <<e>>
  BY AppendIsConcat
<1>3. Append(s \o r, e) = (s \o r) \o <<e>>
  BY <1>1, AppendIsConcat
<1>4. (s \o r) \o <<e>> = s \o (r \o <<e>>)
  BY <1>1, ConcatAssociative
<1> QED
  BY <1>1, <1>2, <1>3, <1>4

\* A batch and what stays in the channel are what was there.
LEMMA BatchConcat ==
    ASSUME NEW S, NEW s \in Seq(S), NEW k \in 1..Len(s)
    PROVE  SubSeq(s, 1, k) \o SubSeq(s, k + 1, Len(s)) = s
<1>1. SubSeq(s, 1, Len(s)) = s /\ Len(s) \in Nat
  BY SubSeqFull
<1>2. SubSeq(s, 1, k) \o SubSeq(s, k + 1, Len(s)) = SubSeq(s, 1, Len(s))
  <2>1. 1 \in 1..(Len(s) + 1) /\ k \in (1 - 1)..Len(s) /\ Len(s) \in k..Len(s)
    BY <1>1
  <2> QED
    BY <2>1, ConcatAdjacentSubSeq
<1> QED
  BY <1>1, <1>2

LEMMA OrderTypes ==
    ASSUME NtTypeOK
    PROVE  /\ Frames \in Seq(FrameSet) /\ Mail \in Seq(Messages)
           /\ LastGot \in [Publishers -> Nat] /\ sets \in [Publishers -> Nat]
<1>1. /\ wire \in Seq(FrameSet) /\ outgoing \in Seq(FrameSet)
      /\ messages \in Seq(Messages) /\ queue \in Seq(Messages) /\ sets \in [Publishers -> Nat]
  BY DEF NtTypeOK
<1> QED
  BY <1>1, ConcatProperties, LastGotTypes DEF Frames, Mail

\* A call of set() gives the next value.
LEMMA SendKeepsOrder ==
    ASSUME NtTypeOK, InOrder, NEW p \in Publishers, SetSend(p)
    PROVE  /\ Order(Frames', Mail', LastGot', sets')
           /\ sets' = [sets EXCEPT ![p] = @ + 1] /\ UNCHANGED LastGot
<1> DEFINE m == [pub |-> p, n |-> sets[p] + 1, id |-> setting[p][1]]
<1>1. m \in Messages /\ m.pub = p /\ m.n = sets[p] + 1
  BY DEF SetSend, NtTypeOK, Messages, Idle
<1>2. /\ queue' = Append(queue, m) /\ sets' = [sets EXCEPT ![p] = @ + 1]
      /\ UNCHANGED <<messages, wire, outgoing, got>>
  BY DEF SetSend, server
<1> HIDE DEF m
<1>3. Mail' = Append(Mail, m) /\ Frames' = Frames /\ LastGot' = LastGot
  <2>1. messages \in Seq(Messages) /\ queue \in Seq(Messages)
    BY DEF NtTypeOK
  <2>2. messages \o Append(queue, m) = Append(messages \o queue, m)
    BY <1>1, <2>1, ConcatAppend
  <2> QED
    BY <1>2, <2>2 DEF Mail, Frames, LastGot
<1>4. Order(Frames, Append(Mail, m), LastGot, [sets EXCEPT ![m.pub] = @ + 1])
  BY <1>1, OrderTypes, OrderOfSent DEF InOrder
<1> QED
  BY <1>1, <1>2, <1>3, <1>4

\* The frames of a message that is taken from the batch.
LEMMA DrainKeepsOrder ==
    ASSUME NtTypeOK, Numbering, InOrder, Drain
    PROVE  Order(Frames', Mail', LastGot, sets)
<1> DEFINE m == Head(messages)
           r == FramesFor(m)
<1>1. /\ messages # <<>> /\ messages' = Tail(messages) /\ outgoing' = outgoing \o r
      /\ UNCHANGED <<queue, wire>>
  BY DEF Drain
<1>2. /\ messages \in Seq(Messages) /\ queue \in Seq(Messages)
      /\ wire \in Seq(FrameSet) /\ outgoing \in Seq(FrameSet)
  BY DEF NtTypeOK
<1>3. m \in Messages /\ r \in Seq(FrameSet)
  BY DrainNumbers, FramesForTypes
<1>4. Mail' = Tail(Mail) /\ Mail # <<>> /\ Head(Mail) = m
  BY <1>1, <1>2, TailOfConcat DEF Mail
<1>5. Frames' = Frames \o r
  <2> HIDE DEF m, r
  <2>1. wire \in Seq(FrameSet) /\ outgoing \in Seq(FrameSet) /\ r \in Seq(FrameSet)
    BY <1>2, <1>3
  <2>2. wire \o (outgoing \o r) = (wire \o outgoing) \o r
    BY <2>1, ConcatAssociative
  <2> QED
    BY <1>1, <2>2 DEF Frames
<1>6. \A i \in 1..Len(r) : r[i].kind = "value" =>
          /\ r[i].pub = m.pub /\ r[i].n = m.n
          /\ \A j \in 1..Len(r) : r[j].kind = "value" => i = j
  <2> DEFINE v == Value(Number(m), m)
             a == Announcement({Entry(TopicOf[m.pub], Number(m), TypeOf[m.pub])})
  <2>1. v.kind = "value" /\ v.pub = m.pub /\ v.n = m.n /\ a.kind = "announce"
    BY DEF Value, Announcement
  <2>2. r = <<a, v>> \/ r = <<v>> \/ r = <<>>
    BY DEF FramesFor
  <2> HIDE DEF v, a, r
  <2>3. CASE r = <<a, v>>
    <3>1. Len(r) = 2 /\ r[1] = a /\ r[2] = v
      BY <2>3
    <3>2. \A i \in 1..Len(r) : r[i].kind = "value" => i = 2
      BY <2>1, <3>1
    <3> QED
      BY <2>1, <3>1, <3>2
  <2>4. CASE r = <<v>>
    <3>1. Len(r) = 1 /\ r[1] = v
      BY <2>4
    <3> QED
      BY <2>1, <3>1
  <2>5. CASE r = <<>>
    BY <2>5
  <2> QED
    BY <2>2, <2>3, <2>4, <2>5
<1> HIDE DEF m, r
<1>7. Order(Frames \o r, Tail(Mail), LastGot, sets)
  BY <1>3, <1>4, <1>6, OrderTypes, OrderOfDrained DEF InOrder
<1> QED
  BY <1>4, <1>5, <1>7

\* The other steps of the task, and a connection that breaks, leave frames out or add
\* an announcement.
LEMMA TaskKeepsOrder ==
    ASSUME NtTypeOK, Numbering, ServerInv, InOrder,
           Connect \/ Announce \/ (\E k \in 1..Most : Receive(k)) \/ Ping \/ Flush \/ Break
    PROVE  Order(Frames', Mail', LastGot, sets)
<1> DEFINE id == [i \in Nat |-> i]
<1>1. /\ wire \in Seq(FrameSet) /\ outgoing \in Seq(FrameSet) /\ queue \in Seq(Messages)
      /\ Len(wire) \in Nat /\ Len(outgoing) \in Nat
      /\ Frames \in Seq(FrameSet) /\ Len(Frames) = Len(wire) + Len(outgoing)
      /\ \A i \in 1..(Len(wire) + Len(outgoing)) :
            Frames[i] = IF i <= Len(wire) THEN wire[i] ELSE outgoing[i - Len(wire)]
  <2>1. wire \in Seq(FrameSet) /\ outgoing \in Seq(FrameSet) /\ queue \in Seq(Messages)
    BY DEF NtTypeOK
  <2> QED
    BY <2>1, ConcatProperties DEF Frames
<1>2. \A i \in 1..Len(wire) : i \in 1..Len(Frames) /\ wire[i] = Frames[i]
  BY <1>1
<1>3. Mail' = Mail
  <2>1. CASE \E k \in 1..Most : Receive(k)
    <3>1. PICK k \in 1..Most : Receive(k)
      BY <2>1
    <3>2. /\ messages = <<>> /\ messages' = SubSeq(queue, 1, k)
          /\ queue' = SubSeq(queue, k + 1, Len(queue)) /\ k \in 1..Len(queue)
      BY <1>1, <3>1, NtAssumption DEF Receive, ServerInv, Quiet
    <3>3. messages' \o queue' = queue
      BY <1>1, <3>2, BatchConcat
    <3>4. messages \o queue = queue
      BY <1>1, <3>2
    <3> QED
      BY <3>3, <3>4 DEF Mail
  <2>2. CASE Connect \/ Announce \/ Ping \/ Flush \/ Break
    BY <2>2 DEF Mail, Connect, Announce, Ping, Flush, Break, Fail, ServerInv, Quiet
  <2> QED
    BY <2>1, <2>2
<1>4. Order(Frames', Mail, LastGot, sets)
  <2>1. CASE Connect
    <3>1. Frames' = <<>>
      <4>1. <<>> \o <<>> = <<>>
        OBVIOUS
      <4> QED
        BY <2>1, <4>1 DEF Connect, ServerInv, Quiet, Frames
    <3>2. Order(<<>>, Mail, LastGot, sets)
      BY DEF InOrder, Order, InFrames, FramesRise, FramesFirst
    <3> QED
      BY <3>1, <3>2
  <2>2. CASE UNCHANGED <<wire, outgoing>>
    BY <2>2 DEF Frames, InOrder
  <2>3. CASE UNCHANGED wire /\ outgoing' = <<>>
    <3>1. Frames' = wire
      BY <1>1, <2>3 DEF Frames
    <3>2. \A i \in 1..Len(wire) : id[i] = i
      BY <1>1
    <3> HIDE DEF id
    <3>3. \A i \in 1..Len(wire) : wire[i].kind = "value" => id[i] \in 1..Len(Frames) /\ wire[i] = Frames[id[i]]
      BY <1>2, <3>2
    <3>4. \A i, j \in 1..Len(wire) : i < j => id[i] < id[j]
      BY <3>2
    <3>5. Order(wire, Mail, LastGot, sets)
      BY <3>3, <3>4, OrderOfSome DEF InOrder
    <3> QED
      BY <3>1, <3>5
  <2>4. CASE wire' = wire \o outgoing /\ outgoing' = <<>>
    <3>1. Frames' = Frames
      BY <1>1, <2>4, ConcatProperties DEF Frames
    <3> QED
      BY <3>1 DEF InOrder
  <2>5. CASE wire' = wire \o <<Announcement(Announced)>> /\ outgoing = <<>> /\ outgoing' = <<>>
    <3> DEFINE a == Announcement(Announced)
               G == wire \o <<a>>
    <3>1. a \in FrameSet /\ a.kind = "announce"
      BY AnnouncedTypes DEF Announcement, FrameSet
    <3>2. /\ G \in Seq(FrameSet) /\ Len(G) = Len(wire) + 1
          /\ \A i \in 1..Len(wire) : G[i] = wire[i]
          /\ G[Len(wire) + 1] = a
      <4>1. G = Append(wire, a)
        BY <1>1, <3>1, AppendIsConcat
      <4> QED
        BY <1>1, <3>1, <4>1, AppendProperties
    <3>3. Frames' = G
      BY <2>5, <3>2 DEF Frames
    <3> HIDE DEF a, G
    <3>4. \A i \in 1..Len(G) : id[i] = i
      BY <1>1, <3>2
    <3> HIDE DEF id
    <3>5. \A i \in 1..Len(G) : G[i].kind = "value" => id[i] \in 1..Len(Frames) /\ G[i] = Frames[id[i]]
      <4>1. ASSUME NEW i \in 1..Len(G), G[i].kind = "value" PROVE i \in 1..Len(wire)
        BY <1>1, <3>1, <3>2, <4>1
      <4> QED
        BY <1>2, <3>2, <3>4, <4>1
    <3>6. \A i, j \in 1..Len(G) : i < j => id[i] < id[j]
      BY <3>4
    <3>7. Order(G, Mail, LastGot, sets)
      BY <3>5, <3>6, OrderOfSome DEF InOrder
    <3> QED
      BY <3>3, <3>7
  <2>6. CASE Break
    <3>1. PICK k \in 0..Len(wire) : wire' = SubSeq(wire, 1, k)
      BY <2>6 DEF Break
    <3>2. outgoing' = outgoing
      BY <2>6 DEF Break
    <3> DEFINE s == SubSeq(wire, 1, k)
               G == s \o outgoing
               h == [i \in Nat |-> IF i <= k THEN i ELSE i + (Len(wire) - k)]
    <3>3. k \in Nat /\ k <= Len(wire) /\ s \in Seq(FrameSet) /\ Len(s) = k /\ \A i \in 1..k : s[i] = wire[i]
      BY <1>1, <3>1, SubSeqProperties
    <3> HIDE DEF s
    <3>4. /\ Len(G) = k + Len(outgoing)
          /\ \A i \in 1..(k + Len(outgoing)) : G[i] = IF i <= k THEN s[i] ELSE outgoing[i - k]
      <4>1. /\ Len(G) = Len(s) + Len(outgoing)
            /\ \A i \in 1..(Len(s) + Len(outgoing)) : G[i] = IF i <= Len(s) THEN s[i] ELSE outgoing[i - Len(s)]
        <5>1. outgoing \in Seq(FrameSet) /\ s \in Seq(FrameSet)
          BY <1>1, <3>3
        <5> QED
          BY <5>1, ConcatProperties
      <4> QED
        BY <3>3, <4>1
    <3> HIDE DEF G
    <3>5. \A i \in 1..Len(G) : h[i] = IF i <= k THEN i ELSE i + (Len(wire) - k)
      BY <1>1, <3>3, <3>4
    <3> HIDE DEF h
    <3>6. \A i \in 1..Len(G) : h[i] \in 1..Len(Frames) /\ G[i] = Frames[h[i]]
      <4>1. ASSUME NEW i \in 1..Len(G), i <= k PROVE h[i] \in 1..Len(Frames) /\ G[i] = Frames[h[i]]
        <5>1. i \in 1..k /\ h[i] = i
          BY <3>3, <3>5, <4>1
        <5>2. i \in 1..Len(wire)
          BY <1>1, <3>3, <5>1
        <5>3. G[i] = wire[i]
          BY <1>1, <3>3, <3>4, <4>1, <5>1
        <5> QED
          BY <1>2, <5>1, <5>2, <5>3
      <4>2. ASSUME NEW i \in 1..Len(G), i > k PROVE h[i] \in 1..Len(Frames) /\ G[i] = Frames[h[i]]
        <5>1. h[i] = i + (Len(wire) - k) /\ G[i] = outgoing[i - k]
          BY <1>1, <3>3, <3>4, <3>5, <4>2
        <5>2. h[i] \in 1..Len(Frames) /\ ~(h[i] <= Len(wire)) /\ h[i] - Len(wire) = i - k
          BY <1>1, <3>3, <3>4, <4>2, <5>1
        <5> QED
          BY <1>1, <5>1, <5>2
      <4> QED
        BY <1>1, <3>3, <3>4, <4>1, <4>2
    <3>7. ASSUME NEW i \in 1..Len(G), NEW j \in 1..Len(G), i < j PROVE h[i] < h[j]
      <4>1. i \in Nat /\ j \in Nat /\ Len(wire) - k \in Nat
        BY <1>1, <3>3, <3>4
      <4>2. h[i] \in {i, i + (Len(wire) - k)} /\ (i > k => h[j] = j + (Len(wire) - k))
        BY <3>3, <3>5, <3>7, <4>1
      <4>3. h[j] \in {j, j + (Len(wire) - k)} /\ (i <= k => h[i] = i)
        BY <3>5
      <4> QED
        BY <3>3, <3>7, <4>1, <4>2, <4>3
    <3>8. Order(G, Mail, LastGot, sets)
      BY <3>6, <3>7, OrderOfSome DEF InOrder
    <3>9. Frames' = G
      BY <3>1, <3>2 DEF Frames, G, s
    <3> QED
      BY <3>8, <3>9
  <2>7. (\E k \in 1..Most : Receive(k)) => UNCHANGED <<wire, outgoing>>
    BY DEF Receive
  <2>8. Ping \/ Announce => outgoing = <<>> /\ outgoing' = <<>>
    BY DEF Ping, Announce, Fail, ServerInv, Quiet
  <2>9. /\ Ping => UNCHANGED wire
        /\ Announce => wire' \in {wire, wire \o <<Announcement(Announced)>>}
        /\ Flush => outgoing' = <<>> /\ wire' \in {wire, wire \o outgoing}
    BY DEF Ping, Announce, Flush, Fail, Written
  <2> QED
    BY <2>1, <2>2, <2>3, <2>4, <2>5, <2>6, <2>7, <2>8, <2>9
<1> QED
  BY <1>3, <1>4

\* A frame arrives: a value is seen, later than the last of its publisher.
LEMMA ArriveKeepsOrder ==
    ASSUME NtTypeOK, InOrder, Arrive
    PROVE  /\ Order(Frames', Mail', LastGot', sets)
           /\ \/ UNCHANGED LastGot
              \/ \E p \in Publishers : \E n \in (LastGot[p] + 1)..sets[p] :
                    LastGot' = [LastGot EXCEPT ![p] = n]
<1> DEFINE f == Head(wire)
<1>1. /\ wire # <<>> /\ wire \in Seq(FrameSet) /\ outgoing \in Seq(FrameSet)
      /\ wire' = Tail(wire) /\ UNCHANGED <<outgoing, messages, queue>>
  BY DEF Arrive, NtTypeOK
<1>2. /\ Frames # <<>> /\ Head(Frames) = f /\ Frames' = Tail(Frames) /\ Mail' = Mail
  BY <1>1, TailOfConcat DEF Frames, Mail
<1>3. CASE f.kind = "value"
  <2>1. got' = [got EXCEPT ![f.pub] = Append(@, f.n)]
    BY <1>3 DEF Arrive
  <2> HIDE DEF f
  <2>2. f \in FrameSet /\ f = Frames[1] /\ 1 \in 1..Len(Frames)
    <3>1. f \in FrameSet
      BY <1>1, HeadTailProperties DEF f
    <3>2. Frames[1] = Head(Frames) /\ Len(Frames) \in Nat \ {0}
      BY <1>2, OrderTypes, EmptySeq
    <3> QED
      BY <1>2, <3>1, <3>2
  <2>3. f.pub \in Publishers /\ f.n \in Nat
    BY <1>3, <2>2, ValueShape
  <2>4. LastGot' = [LastGot EXCEPT ![f.pub] = f.n]
    <3>1. got \in [Publishers -> Seq(Nat)]
      BY DEF NtTypeOK
    <3>2. \A p \in Publishers : got'[p] = IF p = f.pub THEN Append(got[p], f.n) ELSE got[p]
      BY <2>1, <3>1
    <3>3. /\ Append(got[f.pub], f.n) # <<>>
          /\ Len(Append(got[f.pub], f.n)) = Len(got[f.pub]) + 1
          /\ Append(got[f.pub], f.n)[Len(got[f.pub]) + 1] = f.n
      BY <2>3, <3>1, AppendProperties
    <3>4. \A p \in Publishers : LastGot'[p] = IF p = f.pub THEN f.n ELSE LastGot[p]
      BY <3>2, <3>3 DEF LastGot
    <3>5. LastGot' = [p \in Publishers |-> LastGot'[p]]
      BY DEF LastGot
    <3>6. LastGot \in [Publishers -> Nat]
      BY LastGotTypes
    <3> QED
      BY <3>4, <3>5, <3>6
  <2>5. Order(Tail(Frames), Mail, [LastGot EXCEPT ![f.pub] = f.n], sets)
    BY <1>2, <1>3, OrderTypes, OrderOfSeen DEF InOrder
  <2>6. f.n \in (LastGot[f.pub] + 1)..sets[f.pub]
    <3>1. LastGot[f.pub] < f.n /\ f.n <= sets[f.pub]
      BY <1>3, <2>2 DEF InOrder, Order, InFrames
    <3>2. LastGot[f.pub] \in Nat /\ sets[f.pub] \in Nat
      BY <2>3, OrderTypes
    <3> QED
      BY <2>3, <3>1, <3>2
  <2> QED
    BY <1>2, <2>3, <2>4, <2>5, <2>6
<1>4. CASE f.kind # "value"
  <2>1. f \in FrameSet
    BY <1>1, HeadTailProperties
  <2>2. f.kind = "announce"
    BY <1>4, <2>1 DEF FrameSet
  <2>3. UNCHANGED LastGot
    BY <2>2 DEF Arrive, LastGot
  <2> DEFINE h == [i \in Nat |-> i + 1]
             G == Tail(Frames)
  <2>4. /\ Len(Frames) \in Nat \ {0} /\ Len(G) = Len(Frames) - 1
        /\ \A i \in 1..Len(G) : G[i] = Frames[i + 1]
    BY <1>2, OrderTypes, HeadTailProperties, EmptySeq
  <2> HIDE DEF G
  <2>5. \A i \in 1..Len(G) : h[i] = i + 1 /\ h[i] \in 1..Len(Frames)
    BY <2>4
  <2> HIDE DEF h
  <2>6. \A i \in 1..Len(G) : G[i].kind = "value" => h[i] \in 1..Len(Frames) /\ G[i] = Frames[h[i]]
    BY <2>4, <2>5
  <2>7. \A i, j \in 1..Len(G) : i < j => h[i] < h[j]
    BY <2>4, <2>5
  <2>8. Order(G, Mail, LastGot, sets)
    BY <2>6, <2>7, OrderOfSome DEF InOrder
  <2> QED
    BY <1>2, <2>3, <2>8 DEF G
<1> QED
  BY <1>3, <1>4

\* Every step keeps the order, and is one of the feed of values, or none.
LEMMA NextOrder ==
    ASSUME NtTypeOK, Numbering, ServerInv, InOrder, [NtNext]_ntVars
    PROVE  InOrder' /\ [Feed!Next]_<<sets, LastGot>>
<1>1. ASSUME NEW p \in Publishers, SetSend(p) PROVE InOrder' /\ [Feed!Next]_<<sets, LastGot>>
  <2>1. Feed!Give(p)
    BY <1>1, SendKeepsOrder DEF Feed!Give
  <2> QED
    BY <1>1, <2>1, SendKeepsOrder DEF InOrder, Order, Feed!Next
<1>2. CASE Arrive
  <2>1. UNCHANGED sets
    BY <1>2 DEF Arrive, setters
  <2>2. UNCHANGED LastGot \/ \E p \in Publishers : Feed!See(p)
    BY <1>2, <2>1, ArriveKeepsOrder DEF Feed!See
  <2>3. InOrder'
    BY <1>2, <2>1, ArriveKeepsOrder DEF InOrder, Order
  <2> QED
    BY <2>1, <2>2, <2>3 DEF Feed!Next
<1>3. CASE Connect \/ Announce \/ (\E k \in 1..Most : Receive(k)) \/ Ping \/ Flush \/ Break \/ Drain
  <2>1. UNCHANGED <<sets, got>>
    BY <1>3 DEF Connect, Announce, Receive, Ping, Flush, Break, Drain, setters, server
  <2>2. UNCHANGED <<sets, LastGot>>
    BY <2>1 DEF LastGot
  <2>3. Order(Frames', Mail', LastGot, sets)
    BY <1>3, TaskKeepsOrder, DrainKeepsOrder
  <2> QED
    BY <2>2, <2>3 DEF InOrder, Order
<1>4. CASE (\E p \in Publishers : SetLoad(p)) \/ UNCHANGED ntVars
  <2>1. UNCHANGED <<sets, got, wire, outgoing, messages, queue>>
    BY <1>4 DEF SetLoad, ntVars, server
  <2>2. UNCHANGED <<sets, LastGot, Frames, Mail>>
    BY <2>1 DEF LastGot, Frames, Mail
  <2> QED
    BY <2>2 DEF InOrder, Order
<1> QED
  BY <1>1, <1>2, <1>3, <1>4 DEF NtNext, Task

LEMMA InitOrder == NtInit => InOrder /\ Feed!Init
<1> SUFFICES ASSUME NtInit PROVE InOrder /\ Feed!Init
    OBVIOUS
<1>1. /\ wire = <<>> /\ outgoing = <<>> /\ messages = <<>> /\ queue = <<>>
      /\ got = [p \in Publishers |-> <<>>] /\ sets = [p \in Publishers |-> 0]
  BY DEF NtInit
<1>2. LastGot = [p \in Publishers |-> 0]
  BY <1>1 DEF LastGot
<1>3. Frames = <<>> /\ Mail = <<>>
  <2>1. <<>> \o <<>> = <<>>
    OBVIOUS
  <2> QED
    BY <1>1, <2>1 DEF Frames, Mail
<1>4. Order(<<>>, <<>>, LastGot, sets)
  BY <1>1, <1>2 DEF Order, InFrames, InMail, FramesRise, MailRises, FramesFirst
<1> QED
  BY <1>1, <1>2, <1>3, <1>4 DEF InOrder, Feed!Init

\* MovesForward: the client implements the feed of values.  Whatever is lost with a
\* connection, what the server sees of a publisher moves forward only, and was set:
\* the channel, the batch, the frames of it and the wire hold the values of a publisher
\* in the order of the calls, and no step passes one by another.
THEOREM ValuesMoveForward == NtSpec => MovesForward
<1> DEFINE I == NtTypeOK /\ Numbering /\ ServerInv /\ InOrder
<1>1. NtInit => I /\ Feed!Init
  BY InitTypes, InitNumbering, InitServer, InitOrder
<1>2. I /\ [NtNext]_ntVars => I' /\ [Feed!Next]_<<sets, LastGot>>
  BY NextTypes, NextNumbering, NextServer, NextOrder
<1> HIDE DEF I
<1> QED
  BY <1>1, <1>2, PTL DEF NtSpec, MovesForward, Feed!Spec

-----------------------------------------------------------------------------
(* Nothing is lost.                                                        *)

\* While no connection has broken, the first one is being made or it carries frames,
\* and the server has all of what was set or the rest is on its way.
Delivered(p) ==
    /\ got[p] = [n \in 1..Len(got[p]) |-> n]
    /\ \A n \in (Len(got[p]) + 1)..sets[p] : OnTheWay(p, n)
FirstLink ==
    breaks = 0 => /\ phase = "connect" => wire = <<>>
                  /\ phase # "connect" => link

LEMMA FramedConcat ==
    ASSUME NEW F \in Seq(FrameSet), NEW G \in Seq(FrameSet), NEW p, NEW n
    PROVE  Framed(F \o G, p, n) <=> Framed(F, p, n) \/ Framed(G, p, n)
<1>1. /\ Len(F) \in Nat /\ Len(G) \in Nat /\ Len(F \o G) = Len(F) + Len(G)
      /\ \A i \in 1..(Len(F) + Len(G)) : (F \o G)[i] = IF i <= Len(F) THEN F[i] ELSE G[i - Len(F)]
  BY ConcatProperties
<1>2. PICK H : H = F \o G
  OBVIOUS
<1>3. ASSUME NEW i \in 1..Len(F) PROVE i \in 1..Len(H) /\ H[i] = F[i]
  BY <1>1, <1>2
<1>4. ASSUME NEW i \in 1..Len(G) PROVE i + Len(F) \in 1..Len(H) /\ H[i + Len(F)] = G[i]
  BY <1>1, <1>2
<1>5. ASSUME NEW i \in 1..Len(H), ~(i \in 1..Len(F)) PROVE i - Len(F) \in 1..Len(G) /\ H[i] = G[i - Len(F)]
  BY <1>1, <1>2, <1>5
<1>6. Framed(F, p, n) \/ Framed(G, p, n) => Framed(H, p, n)
  BY <1>3, <1>4 DEF Framed
<1>7. Framed(H, p, n) => Framed(F, p, n) \/ Framed(G, p, n)
  BY <1>3, <1>5 DEF Framed
<1> QED
  BY <1>2, <1>6, <1>7

LEMMA MailedConcat ==
    ASSUME NEW M \in Seq(Messages), NEW N \in Seq(Messages), NEW p, NEW n
    PROVE  Mailed(M \o N, p, n) <=> Mailed(M, p, n) \/ Mailed(N, p, n)
<1>1. /\ Len(M) \in Nat /\ Len(N) \in Nat /\ Len(M \o N) = Len(M) + Len(N)
      /\ \A i \in 1..(Len(M) + Len(N)) : (M \o N)[i] = IF i <= Len(M) THEN M[i] ELSE N[i - Len(M)]
  BY ConcatProperties
<1>2. PICK H : H = M \o N
  OBVIOUS
<1>3. ASSUME NEW i \in 1..Len(M) PROVE i \in 1..Len(H) /\ H[i] = M[i]
  BY <1>1, <1>2
<1>4. ASSUME NEW i \in 1..Len(N) PROVE i + Len(M) \in 1..Len(H) /\ H[i + Len(M)] = N[i]
  BY <1>1, <1>2
<1>5. ASSUME NEW i \in 1..Len(H), ~(i \in 1..Len(M)) PROVE i - Len(M) \in 1..Len(N) /\ H[i] = N[i - Len(M)]
  BY <1>1, <1>2, <1>5
<1>6. Mailed(M, p, n) \/ Mailed(N, p, n) => Mailed(H, p, n)
  BY <1>3, <1>4 DEF Mailed
<1>7. Mailed(H, p, n) => Mailed(M, p, n) \/ Mailed(N, p, n)
  BY <1>3, <1>5 DEF Mailed
<1> QED
  BY <1>2, <1>6, <1>7

\* What is on its way is in the frames or in the mail.
LEMMA WayOfOrder ==
    ASSUME NtTypeOK, NEW p, NEW n
    PROVE  OnTheWay(p, n) <=> Framed(Frames, p, n) \/ Mailed(Mail, p, n)
<1>1. Framed(Frames, p, n) <=> Framed(wire, p, n) \/ Framed(outgoing, p, n)
  BY FramedConcat DEF NtTypeOK, Frames
<1>2. Mailed(Mail, p, n) <=> Mailed(messages, p, n) \/ Mailed(queue, p, n)
  BY MailedConcat DEF NtTypeOK, Mail
<1> QED
  BY <1>1, <1>2 DEF OnTheWay

\* A topic keeps its number and its type.
LEMMA TypesStay ==
    ASSUME NtTypeOK, Numbering, [NtNext]_ntVars, NEW p \in Publishers, OtherType(p)
    PROVE  OtherType(p)'
<1>1. CASE Drain
  <2>1. TopicOf[p] \in Topics /\ pubuids[TopicOf[p]] # 0
    BY NtAssumption DEF OtherType
  <2>2. EntryIn(pubuids', types', TopicOf[p]) = TheEntry(TopicOf[p])
    BY <1>1, <2>1, EntriesStay
  <2>3. pubuids'[TopicOf[p]] = pubuids[TopicOf[p]]
        /\ types'[pubuids'[TopicOf[p]]] = types[pubuids[TopicOf[p]]]
    BY <2>2 DEF EntryIn, TheEntry, Entry
  <2> QED
    BY <2>1, <2>3 DEF OtherType
<1>2. CASE UNCHANGED <<pubuids, types>>
  BY <1>2 DEF OtherType
<1> QED
  BY <1>1, <1>2 DEF NtNext, Task, Connect, Announce, Receive, Ping, Flush, SetLoad, SetSend,
                    Break, Arrive, ntVars, setters, table, server

\* set() puts the next value at the end of the channel.
LEMMA SendKeepsDelivered ==
    ASSUME NtTypeOK, NEW q \in Publishers, SetSend(q), NEW p \in Publishers, Delivered(p)
    PROVE  Delivered(p)'
<1> DEFINE m == [pub |-> q, n |-> sets[q] + 1, id |-> setting[q][1]]
<1>1. m \in Messages /\ m.pub = q /\ m.n = sets[q] + 1
  <2>1. sets[q] + 1 \in Nat
    BY DEF NtTypeOK
  <2>2. setting[q] \in Seq(Nat) /\ setting[q] # <<>>
    BY DEF NtTypeOK, SetSend, Idle
  <2>3. setting[q][1] \in Nat
    BY <2>2, EmptySeq
  <2> QED
    BY <2>1, <2>3 DEF Messages
<1>2. /\ queue' = Append(queue, m) /\ sets' = [sets EXCEPT ![q] = @ + 1]
      /\ UNCHANGED <<messages, wire, outgoing, got>>
  BY DEF SetSend, server
<1> HIDE DEF m
<1>3. /\ Len(queue') = Len(queue) + 1 /\ Len(queue) \in Nat
      /\ \A i \in 1..Len(queue) : queue'[i] = queue[i]
      /\ queue'[Len(queue) + 1] = m
  BY <1>1, <1>2, AppendProperties DEF NtTypeOK
<1>4. Mailed(queue', q, sets[q] + 1)
  BY <1>1, <1>3 DEF Mailed
<1>5. \A n : Mailed(queue, p, n) => Mailed(queue', p, n)
  BY <1>3 DEF Mailed
<1>6. sets[p] \in Nat /\ sets'[p] = IF p = q THEN sets[p] + 1 ELSE sets[p]
  BY <1>2 DEF NtTypeOK
<1>7. Len(got[p]) \in Nat
  BY DEF NtTypeOK
<1>8. ASSUME NEW n \in (Len(got[p]) + 1)..sets'[p]
      PROVE  \/ Framed(wire, p, n) \/ Framed(outgoing, p, n)
             \/ Mailed(messages, p, n) \/ Mailed(queue', p, n)
  <2>1. CASE n \in (Len(got[p]) + 1)..sets[p]
    BY <1>5, <2>1 DEF Delivered, OnTheWay
  <2>2. CASE p = q /\ n = sets[q] + 1
    BY <1>4, <2>2
  <2> QED
    BY <1>6, <1>7, <2>1, <2>2
<1> QED
  BY <1>2, <1>8 DEF Delivered, OnTheWay

\* A message that leaves the batch becomes a frame, or its topic has another type.
LEMMA DrainKeepsDelivered ==
    ASSUME NtTypeOK, Numbering, Drain, NEW p \in Publishers, Delivered(p), ~OtherType(p)
    PROVE  Delivered(p)'
<1>1. PICK m : m = Head(messages)
  OBVIOUS
<1>2. PICK r : r = FramesFor(m)
  OBVIOUS
<1>3. /\ messages # <<>> /\ messages' = Tail(messages) /\ outgoing' = outgoing \o r
      /\ UNCHANGED <<sets, got, queue, wire>>
  BY <1>1, <1>2 DEF Drain, setters, server
<1>4. m \in Messages /\ r \in Seq(FrameSet)
  BY <1>1, <1>2, DrainNumbers, FramesForTypes
<1>5. /\ Len(messages) \in Nat \ {0} /\ m = messages[1]
      /\ Len(messages') = Len(messages) - 1
      /\ \A i \in 1..Len(messages') : messages'[i] = messages[i + 1]
  BY <1>1, <1>3, HeadTailProperties, EmptySeq DEF NtTypeOK
<1>6. ASSUME m.pub = p PROVE Framed(r, p, m.n)
  <2>1. PICK v : v = Value(Number(m), m)
    OBVIOUS
  <2>2. v.kind = "value" /\ v.pub = m.pub /\ v.n = m.n
    BY <2>1 DEF Value
  <2>3. CASE ~Known(m)
    <3>1. PICK a : r = <<a, v>>
      BY <1>2, <2>1, <2>3 DEF FramesFor
    <3>2. 2 \in 1..Len(r) /\ r[2] = v
      BY <3>1
    <3> QED
      BY <1>6, <2>2, <3>2 DEF Framed
  <2>4. CASE Known(m)
    <3>1. pubuids[TopicOf[p]] # 0 /\ Number(m) = pubuids[TopicOf[p]]
      BY <1>1, <1>6, <2>4, DrainNumbers
    <3>2. types[Number(m)] = TypeOf[m.pub]
      BY <1>6, <3>1 DEF OtherType
    <3>3. r = <<v>>
      BY <1>2, <2>1, <2>4, <3>2 DEF FramesFor
    <3>4. 1 \in 1..Len(r) /\ r[1] = v
      BY <3>3
    <3> QED
      BY <1>6, <2>2, <3>4 DEF Framed
  <2> QED
    BY <2>3, <2>4
<1>7. \A n : Framed(outgoing', p, n) <=> Framed(outgoing, p, n) \/ Framed(r, p, n)
  BY <1>3, <1>4, FramedConcat DEF NtTypeOK
<1>8. ASSUME NEW n, Mailed(messages, p, n) PROVE Mailed(messages', p, n) \/ Framed(r, p, n)
  <2>1. PICK i \in 1..Len(messages) : messages[i].pub = p /\ messages[i].n = n
    BY <1>8 DEF Mailed
  <2>2. CASE i = 1
    BY <1>5, <1>6, <2>1, <2>2
  <2>3. CASE i # 1
    <3>1. i - 1 \in 1..Len(messages') /\ messages'[i - 1] = messages[i]
      BY <1>5, <2>3
    <3> QED
      BY <2>1, <3>1 DEF Mailed
  <2> QED
    BY <2>2, <2>3
<1> QED
  BY <1>3, <1>7, <1>8 DEF Delivered, OnTheWay

\* The other steps of the task move values, as long as the connection holds.
LEMMA TaskKeepsDelivered ==
    ASSUME NtTypeOK, Numbering, ServerInv, FirstLink, breaks = 0,
           Connect \/ Announce \/ (\E k \in 1..Most : Receive(k)) \/ Ping \/ Flush,
           NEW p \in Publishers, Delivered(p)
    PROVE  Delivered(p)'
<1>1. /\ wire \in Seq(FrameSet) /\ outgoing \in Seq(FrameSet) /\ queue \in Seq(Messages)
  BY DEF NtTypeOK
<1>2. UNCHANGED <<sets, got>>
  BY DEF Connect, Announce, Receive, Ping, Flush, setters, server
<1>3. ASSUME NEW n, OnTheWay(p, n) PROVE OnTheWay(p, n)'
  <2>1. CASE Connect
    <3>1. wire = <<>> /\ UNCHANGED <<wire, outgoing, messages, queue>>
      BY <2>1 DEF Connect, FirstLink
    <3> QED
      BY <1>3, <3>1 DEF OnTheWay
  <2>2. CASE Announce
    <3>1. /\ wire' = wire \o <<Announcement(Announced)>> /\ UNCHANGED <<outgoing, messages, queue>>
      BY <2>2 DEF Announce, Written, Fail, FirstLink
    <3>2. <<Announcement(Announced)>> \in Seq(FrameSet)
      BY AnnouncedTypes DEF Announcement, FrameSet
    <3>3. Framed(wire, p, n) => Framed(wire', p, n)
      BY <1>1, <3>1, <3>2, FramedConcat
    <3> QED
      BY <1>3, <3>1, <3>3 DEF OnTheWay
  <2>3. CASE \E k \in 1..Most : Receive(k)
    <3>1. PICK k \in 1..Most : Receive(k)
      BY <2>3
    <3>2. /\ messages = <<>> /\ messages' = SubSeq(queue, 1, k)
          /\ queue' = SubSeq(queue, k + 1, Len(queue)) /\ k \in 1..Len(queue)
          /\ UNCHANGED <<wire, outgoing>>
      BY <1>1, <3>1, NtAssumption DEF Receive, ServerInv, Quiet
    <3>3. messages' \o queue' = queue
      BY <1>1, <3>2, BatchConcat
    <3>4. messages' \in Seq(Messages) /\ queue' \in Seq(Messages)
      BY <1>1, <3>2, SubSeqProperties
    <3>5. Mailed(queue, p, n) => Mailed(messages', p, n) \/ Mailed(queue', p, n)
      BY <3>3, <3>4, MailedConcat
    <3>6. ~Mailed(messages, p, n)
      BY <3>2 DEF Mailed
    <3> QED
      BY <1>3, <3>2, <3>5, <3>6 DEF OnTheWay
  <2>4. CASE Ping
    BY <2>4 DEF Ping, Fail, FirstLink
  <2>5. CASE Flush
    <3>1. wire' = wire \o outgoing /\ messages' = messages /\ queue' = queue
      BY <2>5 DEF Flush, Written, Fail, FirstLink
    <3>2. Framed(wire, p, n) \/ Framed(outgoing, p, n) => Framed(wire', p, n)
      BY <1>1, <3>1, FramedConcat
    <3> QED
      BY <1>3, <3>1, <3>2 DEF OnTheWay
  <2> QED
    BY <2>1, <2>2, <2>3, <2>4, <2>5
<1> QED
  BY <1>2, <1>3 DEF Delivered

\* A value that arrives is the next of its publisher: whatever else is on its way comes
\* later.
LEMMA ArriveKeepsDelivered ==
    ASSUME NtTypeOK, InOrder, Arrive, NEW p \in Publishers, Delivered(p)
    PROVE  Delivered(p)'
<1>1. PICK f : f = Head(wire)
  OBVIOUS
<1>2. /\ wire # <<>> /\ wire \in Seq(FrameSet) /\ outgoing \in Seq(FrameSet)
      /\ wire' = Tail(wire) /\ UNCHANGED <<outgoing, messages, queue, sets>>
  BY DEF Arrive, NtTypeOK, setters
<1>3. /\ f \in FrameSet /\ Len(wire) \in Nat \ {0} /\ f = wire[1]
      /\ Len(wire') = Len(wire) - 1 /\ \A i \in 1..Len(wire') : wire'[i] = wire[i + 1]
  BY <1>1, <1>2, HeadTailProperties, EmptySeq
<1>4. ASSUME NEW n, Framed(wire, p, n)
      PROVE  Framed(wire', p, n) \/ (f.kind = "value" /\ f.pub = p /\ f.n = n)
  <2>1. PICK i \in 1..Len(wire) : wire[i].kind = "value" /\ wire[i].pub = p /\ wire[i].n = n
    BY <1>4 DEF Framed
  <2>2. CASE i = 1
    BY <1>3, <2>1, <2>2
  <2>3. CASE i # 1
    <3>1. i - 1 \in 1..Len(wire') /\ wire'[i - 1] = wire[i]
      BY <1>3, <2>3
    <3> QED
      BY <2>1, <3>1 DEF Framed
  <2> QED
    BY <2>2, <2>3
<1>5. CASE ~(f.kind = "value" /\ f.pub = p)
  <2>1. got'[p] = got[p]
    <3>1. got \in [Publishers -> Seq(Nat)]
      BY DEF NtTypeOK
    <3>2. f.kind = "announce" \/ f.kind = "value"
      BY <1>3 DEF FrameSet
    <3>3. f.kind = "announce" => got' = got
      BY <1>1 DEF Arrive
    <3>4. f.kind = "value" => got' = [got EXCEPT ![f.pub] = Append(@, f.n)]
      BY <1>1 DEF Arrive
    <3> QED
      BY <1>5, <3>1, <3>2, <3>3, <3>4
  <2> QED
    BY <1>2, <1>4, <1>5, <2>1 DEF Delivered, OnTheWay
<1>6. CASE f.kind = "value" /\ f.pub = p
  <2>1. PICK g \in Seq(Nat) : g = got[p]
    BY DEF NtTypeOK
  <2>2. PICK k \in Nat : k = Len(g)
    BY <2>1
  <2>3. g = [n \in 1..k |-> n] /\ \A n \in (k + 1)..sets[p] : OnTheWay(p, n)
    BY <2>1, <2>2 DEF Delivered
  <2>4. LastGot[p] = k
    <3>1. g = <<>> <=> k = 0
      BY <2>1, <2>2, EmptySeq
    <3>2. k # 0 => g[k] = k
      BY <2>3
    <3> QED
      BY <2>1, <2>2, <3>1, <3>2 DEF LastGot
  <2>5. Frames # <<>> /\ Head(Frames) = f
    BY <1>1, <1>2, TailOfConcat DEF Frames
  <2>6. Frames \in Seq(FrameSet) /\ Len(Frames) \in Nat \ {0} /\ Frames[1] = f /\ Mail \in Seq(Messages)
    BY <2>5, OrderTypes, EmptySeq, HeadTailProperties
  <2>7. f.n \in Nat /\ sets[p] \in Nat /\ k < f.n /\ f.n <= sets[p]
    <3>1. 1 \in 1..Len(Frames)
      BY <2>6
    <3> QED
      BY <1>3, <1>6, <2>4, <2>6, <3>1, ValueShape, OrderTypes DEF InOrder, Order, InFrames
  <2>8. ASSUME NEW n \in Nat, OnTheWay(p, n) PROVE f.n <= n
    <3>1. CASE Framed(Frames, p, n)
      <4>1. PICK i \in 1..Len(Frames) : Frames[i].kind = "value" /\ Frames[i].pub = p /\ Frames[i].n = n
        BY <3>1 DEF Framed
      <4>2. CASE i = 1
        BY <2>6, <2>7, <4>1, <4>2
      <4>3. CASE i # 1
        <5>1. 1 \in 1..Len(Frames) /\ 1 < i
          BY <2>6, <4>3
        <5>2. f.n < n
          BY <1>6, <2>6, <4>1, <5>1 DEF InOrder, Order, FramesRise
        <5> QED
          BY <2>7, <5>2
      <4> QED
        BY <4>2, <4>3
    <3>2. CASE Mailed(Mail, p, n)
      <4>1. PICK i \in 1..Len(Mail) : Mail[i].pub = p /\ Mail[i].n = n
        BY <3>2 DEF Mailed
      <4>2. 1 \in 1..Len(Frames)
        BY <2>6
      <4>3. f.n < n
        BY <1>6, <2>6, <4>1, <4>2 DEF InOrder, Order, FramesFirst
      <4> QED
        BY <2>7, <4>3
    <3> QED
      BY <2>8, <3>1, <3>2, WayOfOrder
  <2>9. f.n = k + 1
    <3>1. k + 1 \in (k + 1)..sets[p] /\ k + 1 \in Nat
      BY <2>7
    <3>2. f.n <= k + 1
      BY <2>3, <2>8, <3>1
    <3> QED
      BY <2>7, <3>2
  <2>10. got'[p] = Append(g, k + 1)
    <3>1. got \in [Publishers -> Seq(Nat)]
      BY DEF NtTypeOK
    <3>2. got' = [got EXCEPT ![p] = Append(@, k + 1)]
      BY <1>1, <1>6, <2>9 DEF Arrive
    <3> QED
      BY <2>1, <3>1, <3>2
  <2>11. PICK h \in Seq(Nat) : h = Append(g, k + 1)
    <3>1. k + 1 \in Nat
      OBVIOUS
    <3>2. Append(g, k + 1) \in Seq(Nat)
      BY <3>1, AppendProperties
    <3> QED
      BY <3>2
  <2>12. Len(h) = k + 1 /\ (\A i \in 1..k : h[i] = i) /\ h[k + 1] = k + 1
    <3>1. Len(h) = Len(g) + 1 /\ (\A i \in 1..Len(g) : h[i] = g[i]) /\ h[Len(g) + 1] = k + 1
      BY <2>11, AppendProperties
    <3> QED
      BY <2>2, <2>3, <3>1
  <2>13. h = [n \in 1..Len(h) |-> n]
    <3>1. h = [i \in 1..Len(h) |-> h[i]]
      BY <2>11
    <3>2. \A i \in 1..Len(h) : h[i] = i
      BY <2>12
    <3> QED
      BY <3>1, <3>2
  <2>14. ASSUME NEW n \in (Len(h) + 1)..sets[p]
         PROVE  Framed(wire', p, n) \/ Framed(outgoing, p, n) \/ Mailed(messages, p, n) \/ Mailed(queue, p, n)
    <3>1. n \in (k + 1)..sets[p] /\ n # f.n
      BY <2>7, <2>9, <2>12
    <3> QED
      BY <1>4, <2>3, <3>1 DEF OnTheWay
  <2> QED
    BY <1>2, <2>10, <2>11, <2>13, <2>14 DEF Delivered, OnTheWay
<1> QED
  BY <1>5, <1>6

\* Every step.
LEMMA NextDelivered ==
    ASSUME NtTypeOK, Numbering, ServerInv, InOrder, FirstLink, NothingLost, [NtNext]_ntVars
    PROVE  FirstLink' /\ NothingLost'
<1>1. breaks \in Nat /\ (breaks' = 0 => breaks = 0 /\ ~Break)
  <2>1. breaks \in Nat
    BY DEF NtTypeOK
  <2>2. Break => breaks' = breaks + 1
    BY DEF Break
  <2>3. ~Break => breaks' = breaks
    BY DEF NtNext, Task, Connect, Announce, Receive, Ping, Drain, Flush, SetLoad, SetSend,
           Arrive, ntVars
  <2> QED
    BY <2>1, <2>2, <2>3
<1>2. ASSUME breaks' = 0 PROVE FirstLink'
  <2>1. CASE Arrive
    <3>1. wire # <<>> /\ UNCHANGED <<phase, link>>
      BY <2>1 DEF Arrive
    <3> QED
      BY <1>1, <1>2, <3>1 DEF FirstLink
  <2>2. CASE ~Arrive
    BY <1>1, <1>2, <2>2 DEF FirstLink, NtNext, Task, Connect, Announce, Receive, Ping, Drain,
         Flush, SetLoad, SetSend, ntVars, Fail
  <2> QED
    BY <2>1, <2>2
<1>3. ASSUME breaks' = 0, NEW p \in Publishers PROVE OtherType(p)' \/ Delivered(p)'
  <2>1. OtherType(p) \/ Delivered(p)
    BY <1>1, <1>3 DEF NothingLost, Delivered
  <2>2. CASE OtherType(p)
    BY <2>2, TypesStay
  <2>3. CASE ~OtherType(p) /\ Delivered(p)
    <3>1. ASSUME NEW q \in Publishers, SetSend(q) PROVE Delivered(p)'
      BY <2>3, <3>1, SendKeepsDelivered
    <3>2. ASSUME NEW q \in Publishers, SetLoad(q) PROVE Delivered(p)'
      BY <2>3, <3>2 DEF SetLoad, server, Delivered, OnTheWay
    <3>3. CASE Connect \/ Announce \/ (\E k \in 1..Most : Receive(k)) \/ Ping \/ Flush
      BY <1>1, <1>3, <2>3, <3>3, TaskKeepsDelivered
    <3>4. CASE Drain
      BY <2>3, <3>4, DrainKeepsDelivered
    <3>5. CASE Arrive
      BY <2>3, <3>5, ArriveKeepsDelivered
    <3>6. CASE UNCHANGED ntVars
      BY <2>3, <3>6 DEF ntVars, Delivered, OnTheWay
    <3> QED
      BY <1>1, <1>3, <3>1, <3>2, <3>3, <3>4, <3>5, <3>6 DEF NtNext, Task
  <2> QED
    BY <2>1, <2>2, <2>3
<1> QED
  BY <1>2, <1>3 DEF FirstLink, NothingLost, Delivered

LEMMA InitDelivered == NtInit => FirstLink /\ NothingLost
<1> SUFFICES ASSUME NtInit PROVE FirstLink /\ NothingLost
    OBVIOUS
<1>1. FirstLink
  BY DEF NtInit, FirstLink
<1>2. \A p \in Publishers : got[p] = <<>> /\ sets[p] = 0
  BY DEF NtInit
<1>3. <<>> = [n \in 1..Len(<<>>) |-> n] /\ Len(<<>>) = 0 /\ (0 + 1)..0 = {}
  OBVIOUS
<1>4. NothingLost
  BY <1>2, <1>3 DEF NothingLost
<1> QED
  BY <1>1, <1>4

\* SetsAreDelivered: as long as no connection has broken, nothing that was set is lost
\* on its way through the channel, the batch, the frames and the wire, and the server
\* can tell what it is.  The invariant is that the first connection holds, and that the
\* values on their way come later than those that arrived, in their order.
THEOREM SetsDelivered == NtSpec => []SetsAreDelivered
<1> DEFINE I == NtTypeOK /\ Numbering /\ ServerInv /\ InOrder /\ FirstLink /\ NothingLost
<1>1. NtInit => I
  BY InitTypes, InitNumbering, InitServer, InitOrder, InitDelivered
<1>2. I /\ [NtNext]_ntVars => I'
  BY NextTypes, NextNumbering, NextServer, NextOrder, NextDelivered
<1>3. NtSpec => [](Understood /\ NumbersAreUnique)
  BY ServerUnderstands
<1>4. I => NothingLost
  OBVIOUS
<1>5. NtSpec => []I
  <2> HIDE DEF I
  <2> QED
    BY <1>1, <1>2, PTL DEF NtSpec
<1>6. SetsAreDelivered <=> Understood /\ NumbersAreUnique /\ NothingLost
  BY DEF SetsAreDelivered
<1> HIDE DEF I
<1> QED
  BY <1>3, <1>4, <1>5, <1>6, PTL
=============================================================================
