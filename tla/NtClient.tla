------------------------------ MODULE NtClient ------------------------------
(***************************************************************************)
(* The NetworkTables client (src/libs/vv-ntable/src/lib.rs): publishers in *)
(* any thread put values into a channel that has no bound; one task takes  *)
(* them out in batches, gives every topic a number the first time it sees  *)
(* it, and writes announcements and values to a connection that may break  *)
(* at any time, after which it connects and announces everything again.    *)
(* A value is the number of the set() call of its publisher.               *)
(***************************************************************************)
EXTENDS Naturals, Sequences

CONSTANTS
    Publishers,
    Topics,
    Types,
    TopicOf,    \* the topic of a publisher
    TypeOf,     \* the type of its values
    Cached,     \* the publishers that are a GenericPublisher, not an NtHandle
    Most,       \* how many messages recv_many takes at most
    MaxSets,    \* bound: calls of set() of a publisher
    MaxBreaks   \* bound: broken connections

ASSUME NtAssumption ==
    /\ TopicOf \in [Publishers -> Topics] /\ TypeOf \in [Publishers -> Types]
    /\ Cached \subseteq Publishers
    /\ Most \in Nat \ {0} /\ MaxSets \in [Publishers -> Nat] /\ MaxBreaks \in Nat

VARIABLES
    sets,       \* calls of set() that have put their message into the channel
    setting,    \* what a call that is under way has read from the cache, or Idle
    cache,      \* GenericPublisher.cache: the number of its topic, or 0
    queue,      \* the channel
    pubuids,    \* the numbers of the topics, or 0
    types,      \* the type of each number
    phase,      \* the task: "connect", "announce", "receive", "drain"
    messages,   \* the batch
    outgoing,   \* the frames to write for it
    link,       \* does the connection carry frames?
    wire,       \* the frames under way
    announced,  \* the server: the announcements in this connection
    got,        \* and the values it received, of all connections
    breaks

ntVars == <<sets, setting, cache, queue, pubuids, types, phase, messages, outgoing, link,
            wire, announced, got, breaks>>
setters == <<sets, setting>>
table == <<cache, pubuids, types>>
server == <<announced, got>>

Idle == <<>>

\* The frames: an announcement of one or more topics, or a value.
Announcement(entries) == [kind |-> "announce", entries |-> entries]
Value(id, m) == [kind |-> "value", id |-> id, pub |-> m.pub, n |-> m.n]

Entry(topic, id, type) == [topic |-> topic, id |-> id, type |-> type]

NtInit ==
    /\ sets = [p \in Publishers |-> 0] /\ setting = [p \in Publishers |-> Idle]
    /\ cache = [p \in Publishers |-> 0] /\ queue = <<>>
    /\ pubuids = [t \in Topics |-> 0] /\ types = <<>>
    /\ phase = "connect" /\ messages = <<>> /\ outgoing = <<>>
    /\ link = FALSE /\ wire = <<>> /\ announced = {}
    /\ got = [p \in Publishers |-> <<>>] /\ breaks = 0

---------------------------------------------------------------------------
(* The publishers. *)

\* set() reads the cache, if it has one...
SetLoad(p) ==
    /\ setting[p] = Idle /\ sets[p] < MaxSets[p]
    /\ setting' = [setting EXCEPT ![p] = <<IF p \in Cached THEN cache[p] ELSE 0>>]
    /\ UNCHANGED <<sets, table, queue, phase, messages, outgoing, link, wire, server, breaks>>

\* ... and sends the number it found there, or the topic's name (0).
SetSend(p) ==
    /\ setting[p] # Idle
    /\ queue' = Append(queue, [pub |-> p, n |-> sets[p] + 1, id |-> setting[p][1]])
    /\ sets' = [sets EXCEPT ![p] = @ + 1]
    /\ setting' = [setting EXCEPT ![p] = Idle]
    /\ UNCHANGED <<table, phase, messages, outgoing, link, wire, server, breaks>>

---------------------------------------------------------------------------
(* The task. *)

\* connect_req: a connection, and the announcements of all topics if there are any.
Connect ==
    /\ phase = "connect"
    /\ link' = TRUE /\ wire' = <<>> /\ announced' = {}
    /\ phase' = IF types = <<>> THEN "receive" ELSE "announce"
    /\ UNCHANGED <<setters, table, queue, messages, outgoing, got, breaks>>

\* What is written to a broken connection goes nowhere; if that is an error, the
\* locals of connect_req are gone and it is called again.
Written(frames) == IF link THEN wire \o frames ELSE wire

Fail ==
    /\ ~link
    /\ phase' = "connect" /\ messages' = <<>> /\ outgoing' = <<>>

Announced == {Entry(t, pubuids[t], types[pubuids[t]]) : t \in {u \in Topics : pubuids[u] # 0}}

Announce ==
    /\ phase = "announce"
    /\ \/ /\ wire' = Written(<<Announcement(Announced)>>)
          /\ phase' = "receive"
          /\ UNCHANGED <<messages, outgoing>>
       \/ Fail /\ UNCHANGED wire
    /\ UNCHANGED <<setters, table, queue, link, server, breaks>>

\* Mutated form: the newest messages are taken.
ReceiveNewest(k) ==
    /\ phase = "receive" /\ k \in 1..Most /\ k <= Len(queue)
    /\ messages' = SubSeq(queue, Len(queue) - k + 1, Len(queue))
    /\ queue' = SubSeq(queue, 1, Len(queue) - k)
    /\ phase' = "drain"
    /\ UNCHANGED <<setters, table, outgoing, link, wire, server, breaks>>

\* Mutated form: one message too many leaves the channel.
ReceiveTooMany(k) ==
    /\ phase = "receive" /\ k \in 1..Most /\ k <= Len(queue)
    /\ messages' = SubSeq(queue, 1, k)
    /\ queue' = SubSeq(queue, k + 2, Len(queue))
    /\ phase' = "drain"
    /\ UNCHANGED <<setters, table, outgoing, link, wire, server, breaks>>

\* Mutated form: a batch has to be full.
ReceiveFull(k) ==
    /\ phase = "receive" /\ k = Most /\ k <= Len(queue)
    /\ messages' = SubSeq(queue, 1, k)
    /\ queue' = SubSeq(queue, k + 1, Len(queue))
    /\ phase' = "drain"
    /\ UNCHANGED <<setters, table, outgoing, link, wire, server, breaks>>

\* recv_many with its timeout, which writes a ping.
Receive(k) ==
    /\ phase = "receive" /\ k \in 1..Most /\ k <= Len(queue)
    /\ messages' = SubSeq(queue, 1, k)
    /\ queue' = SubSeq(queue, k + 1, Len(queue))
    /\ phase' = "drain"
    /\ UNCHANGED <<setters, table, outgoing, link, wire, server, breaks>>

Ping ==
    /\ phase = "receive" /\ queue = <<>> /\ Fail
    /\ UNCHANGED <<setters, table, queue, link, wire, server, breaks>>

\* The number of a message's topic: the one it came with, the one the topic has, or
\* the next, under which the topic is announced.  The cache it came with is filled.
Number(m) ==
    IF m.id # 0 THEN m.id
    ELSE IF pubuids[TopicOf[m.pub]] # 0 THEN pubuids[TopicOf[m.pub]]
    ELSE Len(types) + 1

Known(m) == Number(m) <= Len(types)

Register(m) ==
    /\ pubuids' = [pubuids EXCEPT ![TopicOf[m.pub]] = IF Known(m) THEN @ ELSE Number(m)]
    /\ types' = IF Known(m) THEN types ELSE Append(types, TypeOf[m.pub])
    /\ cache' = [cache EXCEPT ![m.pub] =
                    IF m.id = 0 /\ m.pub \in Cached THEN Number(m) ELSE @]

\* A value of another type than the topic has is dropped.
FramesFor(m) ==
    LET id == Number(m)
    IN  IF ~Known(m)
        THEN <<Announcement({Entry(TopicOf[m.pub], id, TypeOf[m.pub])}), Value(id, m)>>
        ELSE IF types[id] = TypeOf[m.pub] THEN <<Value(id, m)>> ELSE <<>>

Drain ==
    /\ phase = "drain" /\ messages # <<>>
    /\ Register(Head(messages))
    /\ outgoing' = outgoing \o FramesFor(Head(messages))
    /\ messages' = Tail(messages)
    /\ UNCHANGED <<setters, queue, phase, link, wire, server, breaks>>

\* The frames are fed and flushed.
Flush ==
    /\ phase = "drain" /\ messages = <<>>
    /\ \/ /\ wire' = Written(outgoing)
          /\ outgoing' = <<>> /\ phase' = "receive" /\ UNCHANGED messages
       \/ Fail /\ UNCHANGED wire
    /\ UNCHANGED <<setters, table, queue, link, server, breaks>>

Task == Connect \/ Announce \/ (\E k \in 1..Most : Receive(k)) \/ Ping \/ Drain \/ Flush

---------------------------------------------------------------------------
(* The network and the server. *)

\* The frames that are under way still arrive, up to some of them.
Break ==
    /\ link /\ breaks < MaxBreaks
    /\ breaks' = breaks + 1
    /\ link' = FALSE
    /\ \E k \in 0..Len(wire) : wire' = SubSeq(wire, 1, k)
    /\ UNCHANGED <<setters, table, queue, phase, messages, outgoing, server>>

Arrive ==
    /\ wire # <<>>
    /\ wire' = Tail(wire)
    /\ LET f == Head(wire)
       IN  IF f.kind = "announce"
           THEN announced' = announced \cup f.entries /\ UNCHANGED got
           ELSE /\ got' = [got EXCEPT ![f.pub] = Append(@, f.n)]
                /\ UNCHANGED announced
    /\ UNCHANGED <<setters, table, queue, phase, messages, outgoing, link, breaks>>

NtNext ==
    \/ \E p \in Publishers : SetLoad(p) \/ SetSend(p)
    \/ Task \/ Break \/ Arrive

\* The task is polled, a connection succeeds at last, and the server reads.
NtFairness ==
    /\ \A p \in Publishers : WF_ntVars(SetSend(p))
    /\ WF_ntVars(Task) /\ WF_ntVars(Arrive)

NtSpec == NtInit /\ [][NtNext]_ntVars /\ NtFairness

---------------------------------------------------------------------------
(* Properties. *)

Messages == [pub : Publishers, n : Nat, id : Nat]
Entries == [topic : Topics, id : Nat, type : Types]
FrameSet == [kind : {"announce"}, entries : SUBSET Entries]
            \cup [kind : {"value"}, id : Nat, pub : Publishers, n : Nat]

NtTypeOK ==
    /\ sets \in [Publishers -> Nat] /\ setting \in [Publishers -> Seq(Nat)]
    /\ cache \in [Publishers -> Nat] /\ queue \in Seq(Messages)
    /\ pubuids \in [Topics -> Nat] /\ types \in Seq(Types)
    /\ phase \in {"connect", "announce", "receive", "drain"}
    /\ messages \in Seq(Messages) /\ outgoing \in Seq(FrameSet)
    /\ link \in BOOLEAN /\ wire \in Seq(FrameSet) /\ announced \in SUBSET Entries
    /\ got \in [Publishers -> Seq(Nat)] /\ breaks \in Nat

\* The server can place every value that is under way: its number was announced
\* before it in the same connection, as the topic and the type of its publisher.
\* The numbers come from a cache that outlives connections, from the table, or from
\* the batch in which they were given.
Understood ==
    \A i \in DOMAIN wire : wire[i].kind = "value" =>
        LET entry == Entry(TopicOf[wire[i].pub], wire[i].id, TypeOf[wire[i].pub])
        IN  \/ entry \in announced
            \/ \E j \in 1..(i - 1) : wire[j].kind = "announce" /\ entry \in wire[j].entries

\* A number stands for one topic and one type, in every announcement there has been
\* in this connection.
NumbersAreUnique ==
    \A e, f \in announced : e.id = f.id \/ e.topic = f.topic => e = f

\* The topic has another type than the publisher's values.
OtherType(p) == pubuids[TopicOf[p]] # 0 /\ types[pubuids[TopicOf[p]]] # TypeOf[p]

\* As long as no connection has broken, whatever was set has arrived, each value once
\* and in its order, or is still on its way, however long the first connection takes:
\* only values of another type than their topic's are dropped.
Mailed(M, p, n) == \E i \in 1..Len(M) : M[i].pub = p /\ M[i].n = n
Framed(F, p, n) == \E i \in 1..Len(F) : F[i].kind = "value" /\ F[i].pub = p /\ F[i].n = n
OnTheWay(p, n) == \/ Framed(wire, p, n) \/ Framed(outgoing, p, n)
                  \/ Mailed(messages, p, n) \/ Mailed(queue, p, n)
NothingLost ==
    breaks = 0 =>
        \A p \in Publishers :
            \/ OtherType(p)
            \/ /\ got[p] = [n \in 1..Len(got[p]) |-> n]
               /\ \A n \in (Len(got[p]) + 1)..sets[p] : OnTheWay(p, n)

\* What is set reaches the server, and the server can tell what it is.
SetsAreDelivered == Understood /\ NumbersAreUnique /\ NothingLost

\* With or without broken connections: what the server sees of a publisher moves
\* forward only.
LastGot == [p \in Publishers |-> IF got[p] = <<>> THEN 0 ELSE got[p][Len(got[p])]]
Feed == INSTANCE ValueFeed WITH given <- sets, seen <- LastGot
MovesForward == Feed!Spec

\* A value that is in the channel while the connection holds arrives, unless its
\* topic has another type.
QueuedArrives ==
    \A p \in Publishers : \A n \in 1..MaxSets[p] :
        [](Mailed(queue, p, n) /\ []link => <>(LastGot[p] >= n \/ OtherType(p)))
=============================================================================
