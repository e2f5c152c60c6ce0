------------------------- MODULE EventClientsProofs -------------------------
(***************************************************************************)
(* No client ever misses or repeats a byte, for any clients, any length of *)
(* lines and any room of the sockets.  Seen from one client, every action  *)
(* leaves its wire alone or writes a line to it (SentBuf), writes what was *)
(* queued (Flushed), turns output events on or off, or reads from it.      *)
(*                                                                         *)
(* And the references to a client's data are exact, however many of its    *)
(* requests run the event loop inside one another: one for each of them    *)
(* and one for the set; an event client's data goes with the last of them. *)
(***************************************************************************)
EXTENDS EventClients, FiniteSetTheorems, SequenceTheorems, TLAPS

WireRecord ==
  [sent : Nat, taken : Seq(Nat), sendbuf : Seq(Nat), read : Nat, armed : BOOLEAN]

\* the first n bytes sent to a client
UpTo(n) == [i \in 1 .. n |-> i]

\* What is true of the wire of a client: the socket holds no more than it has
\* room for, and took, with what is queued, all that was sent, in order.
WireInv(w) ==
  /\ w \in WireRecord
  /\ w.read <= Len(w.taken) /\ Len(w.taken) - w.read <= Room
  /\ w.taken \o w.sendbuf = UpTo(w.sent)

IInv ==
  /\ DOMAIN wire = Peers
  /\ \A c \in Peers : WireInv(wire[c])

USE ClientsAssumption

-----------------------------------------------------------------------------
(* The operators on a wire *)

LEMMA Associative ==
  ASSUME NEW s \in Seq(Nat), NEW t \in Seq(Nat), NEW u \in Seq(Nat)
  PROVE  (s \o t) \o u = s \o (t \o u)
  <1> DEFINE a == s \o t
             b == t \o u
             l == a \o u
             r == s \o b
  <1>1. /\ a \in Seq(Nat) /\ Len(a) = Len(s) + Len(t)
        /\ \A i \in 1 .. Len(s) + Len(t) :
             a[i] = IF i <= Len(s) THEN s[i] ELSE t[i - Len(s)]
    BY ConcatProperties, Zenon
  <1>2. /\ b \in Seq(Nat) /\ Len(b) = Len(t) + Len(u)
        /\ \A i \in 1 .. Len(t) + Len(u) :
             b[i] = IF i <= Len(t) THEN t[i] ELSE u[i - Len(t)]
    BY ConcatProperties, Zenon
  <1> HIDE DEF a, b
  <1>3. /\ l \in Seq(Nat) /\ Len(l) = Len(a) + Len(u)
        /\ \A i \in 1 .. Len(a) + Len(u) :
             l[i] = IF i <= Len(a) THEN a[i] ELSE u[i - Len(a)]
    BY <1>1, ConcatProperties, Zenon
  <1>4. /\ r \in Seq(Nat) /\ Len(r) = Len(s) + Len(b)
        /\ \A i \in 1 .. Len(s) + Len(b) :
             r[i] = IF i <= Len(s) THEN s[i] ELSE b[i - Len(s)]
    BY <1>2, ConcatProperties, Zenon
  <1> HIDE DEF l, r
  <1>5. PICK m \in Nat, n \in Nat, k \in Nat : m = Len(s) /\ n = Len(t) /\ k = Len(u)
    OBVIOUS
  <1>6. Len(l) = m + n + k /\ Len(r) = m + n + k
    BY <1>1, <1>2, <1>3, <1>4, <1>5
  <1>7. ASSUME NEW i \in 1 .. m + n + k PROVE l[i] = r[i]
    <2>1. i \in Nat /\ i \in 1 .. Len(a) + Len(u) /\ i \in 1 .. Len(s) + Len(b)
      BY <1>1, <1>2, <1>5
    <2>2. l[i] = IF i <= m + n THEN a[i] ELSE u[i - (m + n)]
      BY <1>1, <1>3, <1>5, <2>1
    <2>3. r[i] = IF i <= m THEN s[i] ELSE b[i - m]
      BY <1>4, <1>5, <2>1
    <2>4. i <= m + n => a[i] = IF i <= m THEN s[i] ELSE t[i - m]
      <3>1. i <= m + n => i \in 1 .. Len(s) + Len(t)
        BY <1>5, <2>1
      <3>. QED
        BY <1>1, <1>5, <3>1
    <2>5. ASSUME ~(i <= m)
          PROVE  b[i - m] = IF i <= m + n THEN t[i - m] ELSE u[i - (m + n)]
      <3> DEFINE j == i - m
      <3>1. j \in 1 .. Len(t) + Len(u) /\ (j <= n <=> i <= m + n)
            /\ j - n = i - (m + n)
        BY <1>5, <2>1, <2>5
      <3> HIDE DEF j
      <3>2. b[j] = IF j <= n THEN t[j] ELSE u[j - n]
        BY <1>2, <1>5, <3>1
      <3>3. b[j] = IF i <= m + n THEN t[j] ELSE u[i - (m + n)]
        BY <3>1, <3>2
      <3>. QED
        BY <3>3 DEF j
    <2>6. CASE i <= m
      <3>1. i <= m + n
        BY <2>1, <2>6
      <3>. QED
        BY <2>2, <2>3, <2>4, <2>6, <3>1
    <2>7. CASE ~(i <= m)
      BY <2>2, <2>3, <2>4, <2>5, <2>7
    <2>. QED
      BY <2>6, <2>7
  <1>8. l = r
    BY <1>3, <1>4, <1>6, <1>7, SeqEqual
  <1>. QED
    BY <1>8 DEF a, b, l, r

LEMMA UpToSeq ==
  ASSUME NEW n \in Nat
  PROVE  UpTo(n) \in Seq(Nat) /\ Len(UpTo(n)) = n /\ \A i \in 1 .. n : UpTo(n)[i] = i
  BY DEF UpTo

\* m more bytes after the first n
LEMMA UpToExtends ==
  ASSUME NEW n \in Nat, NEW m \in Nat, NEW t \in Seq(Nat), Len(t) = m,
         \A i \in 1 .. m : t[i] = n + i
  PROVE  UpTo(n) \o t = UpTo(n + m)
  <1> DEFINE s == UpTo(n)
             u == UpTo(n + m)
  <1>1. s \in Seq(Nat) /\ Len(s) = n /\ \A i \in 1 .. n : s[i] = i
    BY UpToSeq, Zenon
  <1>2. n + m \in Nat
    OBVIOUS
  <1>3. u \in Seq(Nat) /\ Len(u) = n + m /\ \A i \in 1 .. n + m : u[i] = i
    BY <1>2, UpToSeq, Zenon
  <1> HIDE DEF s, u
  <1>4. /\ s \o t \in Seq(Nat) /\ Len(s \o t) = Len(s) + Len(t)
        /\ \A i \in 1 .. Len(s) + Len(t) :
             (s \o t)[i] = IF i <= Len(s) THEN s[i] ELSE t[i - Len(s)]
    BY <1>1, ConcatProperties, Zenon
  <1>5. ASSUME NEW i \in 1 .. n + m PROVE (s \o t)[i] = u[i]
    <2>1. i \in 1 .. Len(s) + Len(t) /\ u[i] = i
      BY <1>1, <1>3
    <2>2. (s \o t)[i] = IF i <= n THEN s[i] ELSE t[i - n]
      BY <1>1, <1>4, <2>1
    <2>3. CASE i <= n
      <3>1. i \in 1 .. n
        BY <2>3
      <3>. QED
        BY <1>1, <2>1, <2>2, <2>3, <3>1
    <2>4. CASE i > n
      <3>1. i - n \in 1 .. m /\ n + (i - n) = i /\ ~(i <= n)
        BY <2>4
      <3>2. t[i - n] = n + (i - n)
        BY <3>1
      <3>. QED
        BY <2>1, <2>2, <3>1, <3>2
    <2>5. i <= n \/ i > n
      BY <1>2
    <2>. QED
      BY <2>3, <2>4, <2>5
  <1>6. Len(s \o t) = Len(u)
    BY <1>1, <1>3, <1>4
  <1>7. \A i \in 1 .. Len(s \o t) : (s \o t)[i] = u[i]
    BY <1>3, <1>5, <1>6
  <1>8. s \o t = u
    BY <1>3, <1>4, <1>6, <1>7, SeqEqual, Zenon
  <1>. QED
    BY <1>8 DEF s, u

LEMMA NextLineSeq ==
  ASSUME NEW w \in WireRecord
  PROVE  /\ NextLine(w) \in Seq(Nat)
         /\ UpTo(w.sent) \o NextLine(w) = UpTo(w.sent + LineBytes)
  <1>1. w.sent \in Nat /\ LineBytes \in Nat
    BY DEF WireRecord
  <1>2. /\ NextLine(w) \in Seq(Nat) /\ Len(NextLine(w)) = LineBytes
        /\ \A i \in 1 .. LineBytes : NextLine(w)[i] = w.sent + i
    BY <1>1 DEF NextLine
  <1>. QED
    BY <1>1, <1>2, UpToExtends

\* A sequence cut in two is the concatenation of its parts.
LEMMA CutSeq ==
  ASSUME NEW s \in Seq(Nat), NEW n \in 0 .. Len(s)
  PROVE  /\ SubSeq(s, 1, n) \in Seq(Nat) /\ Len(SubSeq(s, 1, n)) = n
         /\ SubSeq(s, n + 1, Len(s)) \in Seq(Nat)
         /\ SubSeq(s, 1, n) \o SubSeq(s, n + 1, Len(s)) = s
  <1>1. Len(s) \in Nat /\ \A i \in 1 .. Len(s) : s[i] \in Nat
    OBVIOUS
  <1>2. SubSeq(s, 1, n) \in Seq(Nat) /\ Len(SubSeq(s, 1, n)) = n
    BY <1>1
  <1>3. SubSeq(s, n + 1, Len(s)) \in Seq(Nat)
    BY <1>1
  <1>4. SubSeq(s, 1, n) \o SubSeq(s, n + 1, Len(s)) = SubSeq(s, 1, Len(s))
    <2>1. 1 \in 1 .. Len(s) + 1 /\ n \in 1 - 1 .. Len(s) /\ Len(s) \in n .. Len(s)
      BY <1>1
    <2>. QED
      BY <2>1, ConcatAdjacentSubSeq, Zenon
  <1>5. SubSeq(s, 1, Len(s)) = s
    BY SubSeqFull, Zenon
  <1>. QED
    BY <1>2, <1>3, <1>4, <1>5, Zenon

\* A write cuts the bytes in two and loses none of them.
LEMMA WrittenSplits ==
  ASSUME NEW w \in WireRecord, NEW bytes \in Seq(Nat),
         w.read <= Len(w.taken), Len(w.taken) - w.read <= Room
  PROVE  LET v == Written(w, bytes)
         IN /\ v \in WireRecord /\ v.sent = w.sent /\ v.read = w.read
            /\ v.read <= Len(v.taken) /\ Len(v.taken) - v.read <= Room
            /\ v.taken \o v.sendbuf = w.taken \o bytes
  <1> DEFINE n == Accepted(w, bytes)
             first == SubSeq(bytes, 1, n)
             rest == SubSeq(bytes, n + 1, Len(bytes))
  <1>1. /\ w.taken \in Seq(Nat) /\ w.sendbuf \in Seq(Nat) /\ w.read \in Nat
        /\ Len(w.taken) \in Nat /\ Len(bytes) \in Nat /\ Room \in Nat
    BY DEF WireRecord
  <1>2. n \in 0 .. Len(bytes) /\ n <= Room - (Len(w.taken) - w.read)
    BY <1>1 DEF Accepted, Least, RoomFor
  <1>3. Written(w, bytes) = [w EXCEPT !.taken = w.taken \o first, !.sendbuf = rest]
    BY DEF Written
  <1> HIDE DEF n
  <1>4. /\ first \in Seq(Nat) /\ Len(first) = n
        /\ rest \in Seq(Nat) /\ first \o rest = bytes
    BY <1>1, <1>2, CutSeq
  <1> HIDE DEF first, rest
  <1>5. w.taken \o first \in Seq(Nat) /\ Len(w.taken \o first) = Len(w.taken) + Len(first)
    BY <1>1, <1>4, ConcatProperties, Zenon
  <1>6. (w.taken \o first) \o rest = w.taken \o (first \o rest)
    <2> DEFINE t == w.taken
    <2>1. t \in Seq(Nat)
      BY <1>1
    <2> HIDE DEF t
    <2>2. (t \o first) \o rest = t \o (first \o rest)
      BY <1>4, <2>1, Associative, Zenon
    <2>. QED
      BY <2>2 DEF t
  <1> DEFINE taken == w.taken \o first
  <1>7. /\ taken \in Seq(Nat) /\ Len(taken) = Len(w.taken) + n
        /\ taken \o rest = w.taken \o bytes
    BY <1>4, <1>5, <1>6
  <1>8. Written(w, bytes) = [w EXCEPT !.taken = taken, !.sendbuf = rest]
    BY <1>3
  <1> HIDE DEF taken
  <1>9. /\ Written(w, bytes) \in WireRecord
        /\ Written(w, bytes).sent = w.sent /\ Written(w, bytes).read = w.read
        /\ Written(w, bytes).taken = taken
        /\ Written(w, bytes).sendbuf = rest
    BY <1>4, <1>7, <1>8 DEF WireRecord
  <1>10. w.read <= Len(taken) /\ Len(taken) - w.read <= Room
    <2> DEFINE l == Len(w.taken)
    <2>1. l \in Nat /\ n \in Nat /\ w.read <= l
      BY <1>1, <1>2
    <2> HIDE DEF l
    <2>2. Len(taken) = l + n /\ n <= Room - (l - w.read)
      BY <1>2, <1>7 DEF l
    <2>. QED
      BY SMTT(30), <1>1, <2>1, <2>2
  <1>. QED
    BY <1>7, <1>9, <1>10

LEMMA SentBufKeeps ==
  ASSUME NEW w, WireInv(w)
  PROVE  WireInv(SentBuf(w))
  <1> DEFINE line == NextLine(w)
  <1>1. /\ w \in WireRecord /\ w.sent \in Nat /\ w.taken \in Seq(Nat)
        /\ w.sendbuf \in Seq(Nat) /\ LineBytes \in Nat /\ w.armed \in BOOLEAN
        /\ w.read \in Nat /\ w.sent + LineBytes \in Nat
    BY DEF WireInv, WireRecord
  <1>2. /\ line \in Seq(Nat)
        /\ UpTo(w.sent) \o line = UpTo(w.sent + LineBytes)
    BY <1>1, NextLineSeq
  <1> HIDE DEF line
  <1>3. CASE w.sendbuf # <<>>
    <2> DEFINE v == [w EXCEPT !.sent = w.sent + LineBytes, !.sendbuf = w.sendbuf \o line]
    <2>1. SentBuf(w) = v
      BY <1>3 DEF SentBuf, line
    <2>2. w.sendbuf \o line \in Seq(Nat)
      BY <1>1, <1>2, ConcatProperties
    <2>3. w.taken \o (w.sendbuf \o line) = UpTo(w.sent + LineBytes)
      <3>1. (w.taken \o w.sendbuf) \o line = w.taken \o (w.sendbuf \o line)
        BY <1>1, <1>2, Associative, Zenon
      <3>. QED
        BY <1>2, <3>1 DEF WireInv
    <2>4. /\ v \in WireRecord /\ v.read = w.read /\ v.taken = w.taken
          /\ v.sendbuf = w.sendbuf \o line /\ v.sent = w.sent + LineBytes
      BY <1>1, <2>2 DEF WireRecord
    <2>. QED
      BY <2>1, <2>3, <2>4 DEF WireInv
  <1>4. CASE w.sendbuf = <<>>
    <2> DEFINE u == Written(w, line)
               armed == w.armed \/ Accepted(w, line) < LineBytes
               v == [u EXCEPT !.sent = u.sent + LineBytes, !.armed = armed]
    <2>1. SentBuf(w) = v
      BY <1>4 DEF SentBuf, line
    <2>2. /\ u \in WireRecord /\ u.sent = w.sent /\ u.read = w.read
          /\ u.read <= Len(u.taken) /\ Len(u.taken) - u.read <= Room
          /\ u.taken \o u.sendbuf = w.taken \o line
      BY <1>1, <1>2, WrittenSplits DEF WireInv
    <2>3. w.taken \o line = UpTo(w.sent + LineBytes)
      BY <1>1, <1>2, <1>4, ConcatEmptySeq DEF WireInv
    <2> HIDE DEF u
    <2>4. armed \in BOOLEAN
      BY <1>1
    <2> HIDE DEF armed
    <2>5. /\ v \in WireRecord /\ v.read = u.read /\ v.taken = u.taken
          /\ v.sendbuf = u.sendbuf /\ v.sent = w.sent + LineBytes
      BY <1>1, <2>2, <2>4 DEF WireRecord
    <2>. QED
      BY <2>1, <2>2, <2>3, <2>5 DEF WireInv
  <1>. QED
    BY <1>3, <1>4

LEMMA FlushedKeeps ==
  ASSUME NEW w, WireInv(w)
  PROVE  WireInv(Flushed(w))
  <1>1. w \in WireRecord /\ w.sendbuf \in Seq(Nat)
    BY DEF WireInv, WireRecord
  <1>. QED
    BY <1>1, WrittenSplits DEF WireInv, Flushed

LEMMA ArmedKeeps ==
  ASSUME NEW w, WireInv(w), NEW b \in BOOLEAN
  PROVE  WireInv([w EXCEPT !.armed = b])
  BY DEF WireInv, WireRecord

LEMMA ReadKeeps ==
  ASSUME NEW w, WireInv(w), w.read < Len(w.taken)
  PROVE  WireInv([w EXCEPT !.read = @ + 1])
  <1> DEFINE v == [w EXCEPT !.read = @ + 1]
  <1>1. w \in WireRecord /\ w.read \in Nat /\ w.taken \in Seq(Nat) /\ Room \in Nat
    BY DEF WireInv, WireRecord
  <1>2. Len(w.taken) \in Nat
    BY <1>1
  <1>3. /\ v \in WireRecord /\ v.read = w.read + 1 /\ v.taken = w.taken
        /\ v.sendbuf = w.sendbuf /\ v.sent = w.sent
    <2>1. w.read + 1 \in Nat
      BY <1>1
    <2>. QED
      BY <1>1, <2>1 DEF WireRecord
  <1>4. w.read + 1 <= Len(w.taken) /\ Len(w.taken) - (w.read + 1) <= Room
    BY <1>1, <1>2 DEF WireInv
  <1> HIDE DEF v
  <1>5. WireInv(v)
    BY <1>3, <1>4 DEF WireInv
  <1>. QED
    BY <1>5 DEF v

-----------------------------------------------------------------------------
(* The actions *)

\* one client's wire is replaced by one that is as good
LEMMA OneWire ==
  ASSUME IInv, NEW c, NEW w, c \in Peers => WireInv(w),
         wire' = [wire EXCEPT ![c] = w]
  PROVE  IInv'
  BY DEF IInv

LEMMA SendStep ==
  ASSUME IInv, NEW c, wire' = [wire EXCEPT ![c] = SentBuf(@)]
  PROVE  IInv'
  <1>1. c \in Peers => WireInv(SentBuf(wire[c]))
    BY SentBufKeeps DEF IInv
  <1>. QED
    BY <1>1, OneWire

LEMMA SocketEventStep ==
  ASSUME IInv, NEW c \in Peers, SocketEvent(c)
  PROVE  IInv'
  <1>. WireInv(wire[c])
    BY DEF IInv
  <1>1. CASE AcceptEvent(c)
    BY <1>1, SendStep DEF AcceptEvent
  <1>2. CASE AcceptHttp(c)
    <2>1. WireInv([wire[c] EXCEPT !.armed = TRUE])
      BY ArmedKeeps
    <2>2. wire' = [wire EXCEPT ![c] = [wire[c] EXCEPT !.armed = TRUE]]
      BY <1>2 DEF AcceptHttp, IInv
    <2>. QED
      BY <2>1, <2>2, OneWire
  <1>3. CASE Lost(c) \/ InputEvent(c) \/ InputHttp(c)
    BY <1>3 DEF Lost, InputEvent, InputHttp, IInv
  <1>4. CASE OutputEvent(c)
    <2> DEFINE w == Flushed(wire[c])
    <2>1. WireInv([w EXCEPT !.armed = w.sendbuf # <<>>])
      BY FlushedKeeps, ArmedKeeps
    <2>2. wire' = [wire EXCEPT ![c] = [w EXCEPT !.armed = w.sendbuf # <<>>]]
      BY <1>4 DEF OutputEvent
    <2>. QED
      BY <2>1, <2>2, OneWire
  <1>5. CASE OutputHttp(c)
    <2>1. wire' = [wire EXCEPT ![c] = Flushed(wire[c])]
      BY <1>5 DEF OutputHttp
    <2>. QED
      BY <2>1, FlushedKeeps, OneWire
  <1>. QED
    BY <1>1, <1>2, <1>3, <1>4, <1>5 DEF SocketEvent

LEMMA PeerStepStep ==
  ASSUME IInv, NEW c \in Peers, PeerStep(c)
  PROVE  IInv'
  <1>1. CASE PeerRead(c)
    <2>1. WireInv([wire[c] EXCEPT !.read = @ + 1])
      BY <1>1, ReadKeeps DEF PeerRead, IInv
    <2>2. wire' = [wire EXCEPT ![c] = [wire[c] EXCEPT !.read = @ + 1]]
      BY <1>1 DEF PeerRead
    <2>. QED
      BY <2>1, <2>2, OneWire
  <1>2. CASE Connect(c) \/ PeerSend(c) \/ PeerClose(c)
    BY <1>2 DEF Connect, PeerSend, PeerClose, IInv
  <1>. QED
    BY <1>1, <1>2 DEF PeerStep

LEMMA RespondStep == ASSUME IInv, Respond PROVE IInv'
  <1>1. CASE wire' = wire
    BY <1>1 DEF IInv
  <1>2. CASE wire' = [wire EXCEPT ![Innermost] = SentBuf(@)]
    BY <1>2, SendStep
  <1>. QED
    BY <1>1, <1>2 DEF Respond, RespondEvent, RespondHttp

LEMMA NotifyStep == ASSUME IInv, Notify PROVE IInv'
  BY SentBufKeeps DEF Notify, IInv

LEMMA WorkerNotifyStep == ASSUME IInv, WorkerBegin \/ WorkerSend PROVE IInv'
  <1>1. CASE wire' = wire
    BY <1>1 DEF IInv
  <1>2. CASE wire' = [wire EXCEPT ![worker.at] = SentBuf(@)]
    BY <1>2, SendStep
  <1>. QED
    BY <1>1, <1>2 DEF WorkerBegin, WorkerSend

-----------------------------------------------------------------------------
(* The theorem *)

LEMMA InitInv == Init => IInv
  <1> SUFFICES ASSUME Init PROVE IInv
    OBVIOUS
  <1> SUFFICES ASSUME NEW c \in Peers PROVE WireInv(wire[c])
    BY DEF Init, IInv
  <1>1. wire[c] = [sent |-> 0, taken |-> <<>>, sendbuf |-> <<>>, read |-> 0, armed |-> FALSE]
    BY DEF Init
  <1>2. wire[c] \in WireRecord
    BY <1>1 DEF WireRecord
  <1>3. UpTo(0) = <<>>
    BY DEF UpTo
  <1>4. <<>> \o <<>> = <<>>
    BY ConcatEmptySeq, EmptySeq
  <1>. QED
    BY <1>1, <1>2, <1>3, <1>4 DEF WireInv

LEMMA NextInv == IInv /\ [Next]_vars => IInv'
  <1> SUFFICES ASSUME IInv, [Next]_vars PROVE IInv'
    OBVIOUS
  <1>1. ASSUME NEW c \in Peers, SocketEvent(c) PROVE IInv'
    BY <1>1, SocketEventStep
  <1>2. ASSUME NEW c \in Peers, PeerStep(c) PROVE IInv'
    BY <1>2, PeerStepStep
  <1>3. CASE Respond
    BY <1>3, RespondStep
  <1>4. CASE Notify
    BY <1>4, NotifyStep
  <1>5. CASE WorkerBegin \/ WorkerSend
    BY <1>5, WorkerNotifyStep
  <1>6. CASE UNCHANGED vars
    BY <1>6 DEF vars, IInv
  <1>. QED
    BY <1>1, <1>2, <1>3, <1>4, <1>5, <1>6 DEF Next

\* Whatever is written, queued, flushed or read, by whichever thread, a client
\* gets every byte that was sent to it once and in order (send_buf,
\* flush_event_pending, do_notify).
THEOREM NothingIsLost == Spec => []Lossless
  <1>1. IInv => Lossless
    BY DEF IInv, WireInv, UpTo, Lossless
  <1>. QED
    BY <1>1, InitInv, NextInv, PTL DEF Spec

-----------------------------------------------------------------------------
(* References *)

PeerRecord ==
  [state : {"new", "up", "gone", "lost"}, parts : Nat, unread : Int]
DataRecord ==
  [life : {"none", "live", "deleted"}, refs : Int, recv : Int,
   closing : BOOLEAN, runs : Int]

\* The data of a member is referenced by the set and by its n requests, and
\* there are none of a client that was not accepted yet.
Counted(d, member, n) ==
  /\ member => d.life = "live" /\ d.refs = n + 1
  /\ d.life = "none" => n = 0

RefInv ==
  /\ stack \in Seq(Peers) /\ members \subseteq Peers
  /\ peer \in [Peers -> PeerRecord] /\ data \in [Peers -> DataRecord]
  /\ \A c \in Peers : Counted(data[c], c \in members, Handlers(stack, c))

LEMMA HandlersFinite ==
  ASSUME NEW s \in Seq(Peers), NEW c
  PROVE  /\ IsFiniteSet({i \in DOMAIN s : s[i] = c})
         /\ Handlers(s, c) \in Nat
  <1>1. IsFiniteSet(1 .. Len(s))
    BY FS_Interval
  <1>2. IsFiniteSet({i \in DOMAIN s : s[i] = c})
    BY <1>1, FS_Subset
  <1>. QED
    BY <1>2, FS_CardinalityType DEF Handlers

\* The innermost request is one of its client's.
LEMMA HandlersOuter ==
  ASSUME NEW s \in Seq(Peers), s # <<>>
  PROVE  LET o == SubSeq(s, 1, Len(s) - 1)
         IN /\ o \in Seq(Peers) /\ s[Len(s)] \in Peers
            /\ \A c : Handlers(s, c) =
                        Handlers(o, c) + (IF s[Len(s)] = c THEN 1 ELSE 0)
  <1> DEFINE o == SubSeq(s, 1, Len(s) - 1)
             l == Len(s)
  <1>1. /\ l \in Nat /\ l >= 1 /\ DOMAIN s = 1 .. l /\ s[l] \in Peers
    OBVIOUS
  <1>2. /\ o \in Seq(Peers) /\ DOMAIN o = 1 .. l - 1
        /\ \A i \in 1 .. l - 1 : o[i] = s[i]
    BY <1>1
  <1> HIDE DEF o, l
  <1>3. ASSUME NEW c
        PROVE  Handlers(s, c) = Handlers(o, c) + (IF s[l] = c THEN 1 ELSE 0)
    <2> DEFINE A == {i \in DOMAIN o : o[i] = c}
               B == {i \in DOMAIN s : s[i] = c}
    <2>1. IsFiniteSet(A) /\ Cardinality(A) \in Nat
      BY <1>2, HandlersFinite DEF Handlers
    <2>2. l \notin A /\ B = IF s[l] = c THEN A \cup {l} ELSE A
      BY <1>1, <1>2
    <2> HIDE DEF A, B
    <2>3. l \notin A => Cardinality(A \cup {l}) = Cardinality(A) + 1
      BY <2>1, FS_AddElement
    <2>4. Cardinality(B) = Cardinality(A) + (IF s[l] = c THEN 1 ELSE 0)
      BY <2>1, <2>2, <2>3
    <2>. QED
      BY <2>4 DEF A, B, Handlers
  <1>. QED
    BY <1>1, <1>2, <1>3 DEF o, l

LEMMA HandlersAppend ==
  ASSUME NEW s \in Seq(Peers), NEW c \in Peers
  PROVE  /\ Append(s, c) \in Seq(Peers)
         /\ \A d : Handlers(Append(s, c), d) =
                     Handlers(s, d) + (IF c = d THEN 1 ELSE 0)
  <1> DEFINE t == Append(s, c)
  <1>1. /\ t \in Seq(Peers) /\ t # <<>> /\ Len(t) = Len(s) + 1 /\ t[Len(t)] = c
        /\ Len(s) \in Nat
    OBVIOUS
  <1>2. SubSeq(t, 1, Len(t) - 1) = s
    BY <1>1
  <1> HIDE DEF t
  <1>. QED
    BY <1>1, <1>2, HandlersOuter DEF t

\* Actions disturb the data of one client, and the stack by a request of it.
LEMMA OneClient ==
  ASSUME RefInv, NEW c \in Peers, NEW d \in DataRecord, NEW n,
         data' = [data EXCEPT ![c] = d],
         members' \subseteq Peers, peer' \in [Peers -> PeerRecord],
         stack' \in Seq(Peers),
         \A e \in Peers \ {c} : /\ e \in members' <=> e \in members
                                /\ Handlers(stack', e) = Handlers(stack, e),
         Handlers(stack', c) = n,
         Counted(d, c \in members', n)
  PROVE  RefInv'
  <1>1. data' \in [Peers -> DataRecord]
    BY DEF RefInv
  <1>2. ASSUME NEW e \in Peers
        PROVE  Counted(data'[e], e \in members', Handlers(stack', e))
    <2>1. CASE e = c
      BY <2>1 DEF RefInv
    <2>2. CASE e # c
      <3>1. data'[e] = data[e]
        BY <2>2 DEF RefInv
      <3>2. (e \in members') = (e \in members) /\ Handlers(stack', e) = Handlers(stack, e)
        BY <2>2
      <3>. QED
        BY <3>1, <3>2 DEF RefInv, Counted
    <2>. QED
      BY <2>1, <2>2
  <1>. QED
    BY <1>1, <1>2 DEF RefInv, Counted

LEMMA ReleasedData ==
  ASSUME NEW d \in DataRecord
  PROVE  /\ Released(d) \in DataRecord
         /\ Released(d).refs = d.refs - 1
         /\ Released(d).life = IF d.refs = 1 THEN "deleted" ELSE d.life
  <1> DEFINE refs == d.refs - 1
             life == IF d.refs = 1 THEN "deleted" ELSE d.life
             r == [d EXCEPT !.refs = refs, !.life = life]
  <1>1. refs \in Int /\ life \in {"none", "live", "deleted"}
    BY DEF DataRecord
  <1>2. Released(d) = r
    BY DEF Released, DataRecord
  <1> HIDE DEF refs, life
  <1>3. r \in DataRecord /\ r.refs = refs /\ r.life = life
    BY <1>1 DEF DataRecord
  <1> HIDE DEF r
  <1>. QED
    BY <1>2, <1>3 DEF refs, life

\* Edits of one client's peer and data, field by field, keep their types.
WithUnread(p, c, n) == [p EXCEPT ![c].unread = n]
WithState(p, c, n) == [p EXCEPT ![c].state = n]
WithSent(p, c) == [p EXCEPT ![c].parts = @ + 1, ![c].unread = @ + 1]
WithLife(f, c) == [f EXCEPT ![c].life = "live", ![c].refs = 1]
WithRecv(f, c, r) == [f EXCEPT ![c].recv = r]
WithRun(f, c) == [f EXCEPT ![c].refs = @ + 1, ![c].runs = @ + 1]
WithRunOf(f, c, r) == [f EXCEPT ![c].recv = r, ![c].refs = @ + 1, ![c].runs = @ + 1]

LEMMA EditedPeer ==
  ASSUME NEW p \in [Peers -> PeerRecord], NEW c \in Peers
  PROVE  /\ \A n \in Int : WithUnread(p, c, n) \in [Peers -> PeerRecord]
         /\ \A n \in {"new", "up", "gone", "lost"} :
              WithState(p, c, n) \in [Peers -> PeerRecord]
         /\ WithSent(p, c) \in [Peers -> PeerRecord]
  <1>1. p[c] \in PeerRecord
    OBVIOUS
  <1>2. ASSUME NEW r \in PeerRecord
        PROVE  [p EXCEPT ![c] = r] \in [Peers -> PeerRecord]
    OBVIOUS
  <1>3. ASSUME NEW n \in Int
        PROVE  WithUnread(p, c, n) \in [Peers -> PeerRecord]
    <2> DEFINE r == [p[c] EXCEPT !.unread = n]
    <2>1. r \in PeerRecord
      BY <1>1 DEF PeerRecord
    <2>2. WithUnread(p, c, n) = [p EXCEPT ![c] = r]
      BY DEF WithUnread
    <2> HIDE DEF r
    <2>. QED
      BY <1>2, <2>1, <2>2
  <1>4. ASSUME NEW n \in {"new", "up", "gone", "lost"}
        PROVE  WithState(p, c, n) \in [Peers -> PeerRecord]
    <2> DEFINE r == [p[c] EXCEPT !.state = n]
    <2>1. r \in PeerRecord
      BY <1>1 DEF PeerRecord
    <2>2. WithState(p, c, n) = [p EXCEPT ![c] = r]
      BY DEF WithState
    <2> HIDE DEF r
    <2>. QED
      BY <1>2, <2>1, <2>2
  <1>5. WithSent(p, c) \in [Peers -> PeerRecord]
    <2> DEFINE parts == p[c].parts + 1
               unread == p[c].unread + 1
               r == [p[c] EXCEPT !.parts = parts, !.unread = unread]
    <2>1. parts \in Nat /\ unread \in Int
      BY <1>1 DEF PeerRecord
    <2>2. WithSent(p, c) = [p EXCEPT ![c] = r]
      BY DEF WithSent
    <2> HIDE DEF parts, unread
    <2>3. r \in PeerRecord
      BY <1>1, <2>1 DEF PeerRecord
    <2> HIDE DEF r
    <2>. QED
      BY <1>2, <2>2, <2>3
  <1>. QED
    BY <1>3, <1>4, <1>5

\* the same for one record
Accepting(d) == [d EXCEPT !.life = "live", !.refs = 1]
Received(d, r) == [d EXCEPT !.recv = r]
Running(d, r) == [d EXCEPT !.recv = r, !.refs = @ + 1, !.runs = @ + 1]

LEMMA EditedData ==
  ASSUME NEW f \in [Peers -> DataRecord], NEW c \in Peers
  PROVE  /\ WithLife(f, c) = [f EXCEPT ![c] = Accepting(f[c])]
         /\ WithRun(f, c) = [f EXCEPT ![c] = Running(f[c], f[c].recv)]
         /\ \A r : /\ WithRunOf(f, c, r) = [f EXCEPT ![c] = Running(f[c], r)]
                   /\ WithRecv(f, c, r) = [f EXCEPT ![c] = Received(f[c], r)]
  <1>1. WithLife(f, c) = [f EXCEPT ![c] = Accepting(f[c])]
    BY DEF WithLife, Accepting
  <1>2. WithRun(f, c) = [f EXCEPT ![c] = Running(f[c], f[c].recv)]
    <2> DEFINE d == [f[c] EXCEPT !.refs = @ + 1, !.runs = @ + 1]
    <2>1. WithRun(f, c) = [f EXCEPT ![c] = d]
      BY DEF WithRun
    <2>2. f[c] \in DataRecord
      OBVIOUS
    <2>3. d = Running(f[c], f[c].recv)
      BY <2>2 DEF Running, DataRecord
    <2>. QED
      BY <2>1, <2>3
  <1>3. ASSUME NEW r
        PROVE  /\ WithRunOf(f, c, r) = [f EXCEPT ![c] = Running(f[c], r)]
               /\ WithRecv(f, c, r) = [f EXCEPT ![c] = Received(f[c], r)]
    BY DEF WithRunOf, WithRecv, Running, Received
  <1>. QED
    BY <1>1, <1>2, <1>3

LEMMA EditedRecord ==
  ASSUME NEW d \in DataRecord
  PROVE  /\ /\ Accepting(d) \in DataRecord
            /\ Accepting(d).life = "live" /\ Accepting(d).refs = 1
         /\ \A r \in Int :
              /\ Received(d, r) \in DataRecord
              /\ Received(d, r).life = d.life /\ Received(d, r).refs = d.refs
              /\ Running(d, r) \in DataRecord
              /\ Running(d, r).life = d.life /\ Running(d, r).refs = d.refs + 1
  <1>1. /\ Accepting(d) \in DataRecord
        /\ Accepting(d).life = "live" /\ Accepting(d).refs = 1
    <2> DEFINE live == "live"
               one == 1
    <2>1. Accepting(d) = [d EXCEPT !.life = live, !.refs = one]
      BY DEF Accepting
    <2>2. live \in {"none", "live", "deleted"} /\ one \in Int
      OBVIOUS
    <2> HIDE DEF live, one
    <2>3. /\ Accepting(d) \in DataRecord
          /\ Accepting(d).life = live /\ Accepting(d).refs = one
      BY <2>1, <2>2 DEF DataRecord
    <2>. QED
      BY <2>3 DEF live, one
  <1>2. ASSUME NEW r \in Int
        PROVE  /\ Received(d, r) \in DataRecord
               /\ Received(d, r).life = d.life /\ Received(d, r).refs = d.refs
    BY DEF Received, DataRecord
  <1>3. ASSUME NEW r \in Int
        PROVE  /\ Running(d, r) \in DataRecord
               /\ Running(d, r).life = d.life /\ Running(d, r).refs = d.refs + 1
    <2> DEFINE refs == d.refs + 1
               runs == d.runs + 1
    <2>1. refs \in Int /\ runs \in Int
      BY DEF DataRecord
    <2>2. Running(d, r) = [d EXCEPT !.recv = r, !.refs = refs, !.runs = runs]
      BY DEF Running
    <2> HIDE DEF refs, runs
    <2>3. /\ Running(d, r) \in DataRecord
          /\ Running(d, r).life = d.life /\ Running(d, r).refs = refs
      BY <2>1, <2>2 DEF DataRecord
    <2>. QED
      BY <2>3 DEF refs
  <1>. QED
    BY <1>1, <1>2, <1>3

LEMMA AcceptRefs ==
  ASSUME RefInv, NEW c \in Peers, AcceptEvent(c) \/ AcceptHttp(c)
  PROVE  RefInv'
  <1> DEFINE d == Accepting(data[c])
  <1>1. /\ data[c] \in DataRecord /\ data[c].life = "none"
        /\ Handlers(stack, c) = 0
        /\ members' = members \cup {c} /\ UNCHANGED <<peer, stack>>
    BY DEF RefInv, Counted, AcceptEvent, AcceptHttp
  <1>2. data' = [data EXCEPT ![c] = d]
    <2>1. data' = WithLife(data, c)
      BY DEF AcceptEvent, AcceptHttp, WithLife
    <2>. QED
      BY <2>1, EditedData DEF RefInv
  <1>3. d \in DataRecord /\ d.life = "live" /\ d.refs = 1
    BY <1>1, EditedRecord
  <1> HIDE DEF d
  <1>4. Counted(d, c \in members', 0)
    BY <1>3 DEF Counted
  <1>. QED
    BY <1>1, <1>2, <1>3, <1>4, OneClient DEF RefInv

LEMMA LostRefs ==
  ASSUME RefInv, NEW c \in Peers, Lost(c)
  PROVE  RefInv'
  <1> DEFINE d == Released(data[c])
  <1>1. /\ data[c] \in DataRecord /\ data[c].life = "live"
        /\ members' = members \ {c} /\ UNCHANGED stack
        /\ data' = [data EXCEPT ![c] = d]
    BY DEF RefInv, Lost, Live
  <1>2. peer' \in [Peers -> PeerRecord]
    <2>1. peer' = WithState(peer, c, "lost")
      BY DEF Lost, WithState
    <2>. QED
      BY <2>1, EditedPeer DEF RefInv
  <1>3. d \in DataRecord /\ d.life # "none"
    BY <1>1, ReleasedData
  <1> HIDE DEF d
  <1>4. Counted(d, c \in members', Handlers(stack, c))
    BY <1>1, <1>3 DEF Counted
  <1>. QED
    BY <1>1, <1>2, <1>3, <1>4, OneClient DEF RefInv

LEMMA InputRefs ==
  ASSUME RefInv, NEW c \in Peers, InputEvent(c) \/ InputHttp(c)
  PROVE  RefInv'
  <1>1. /\ data[c] \in DataRecord /\ data[c].life = "live" /\ peer[c] \in PeerRecord
        /\ UNCHANGED members /\ Handlers(stack, c) \in Nat
        /\ c \in members => data[c].refs = Handlers(stack, c) + 1
    BY HandlersFinite DEF RefInv, Counted, InputEvent, InputHttp, Live
  <1>2. peer' \in [Peers -> PeerRecord]
    <2>1. peer[c].unread - 1 \in Int /\ 0 \in Int
      BY <1>1 DEF PeerRecord
    <2>2. \/ peer' = WithUnread(peer, c, peer[c].unread - 1)
          \/ peer' = WithUnread(peer, c, 0)
      BY DEF InputEvent, InputHttp, WithUnread
    <2>. QED
      BY <2>1, <2>2, EditedPeer DEF RefInv
  <1>3. ASSUME NEW r \in Int, stack' = Append(stack, c),
               data' = [data EXCEPT ![c] = Running(data[c], r)]
        PROVE  RefInv'
    <2> DEFINE d == Running(data[c], r)
    <2>1. d \in DataRecord /\ d.life = "live" /\ d.refs = data[c].refs + 1
      BY <1>1, EditedRecord
    <2>2. data' = [data EXCEPT ![c] = d]
      BY <1>3
    <2> HIDE DEF d
    <2>3. /\ stack' \in Seq(Peers)
          /\ Handlers(stack', c) = Handlers(stack, c) + 1
          /\ \A e \in Peers \ {c} : Handlers(stack', e) = Handlers(stack, e)
      <3>1. /\ stack' \in Seq(Peers)
            /\ \A e : Handlers(stack', e) =
                        Handlers(stack, e) + (IF c = e THEN 1 ELSE 0)
        BY <1>3, HandlersAppend DEF RefInv
      <3>2. \A e : Handlers(stack, e) \in Nat
        BY HandlersFinite DEF RefInv
      <3>. QED
        BY <3>1, <3>2
    <2>4. Counted(d, c \in members', Handlers(stack, c) + 1)
      BY <1>1, <2>1 DEF Counted
    <2>. QED
      BY <1>1, <1>2, <2>1, <2>2, <2>3, <2>4, OneClient DEF RefInv
  <1>4. ASSUME NEW r \in Int, UNCHANGED stack,
               data' = [data EXCEPT ![c] = Received(data[c], r)]
        PROVE  RefInv'
    <2> DEFINE d == Received(data[c], r)
    <2>1. d \in DataRecord /\ d.life = "live" /\ d.refs = data[c].refs
      BY <1>1, EditedRecord
    <2>2. data' = [data EXCEPT ![c] = d]
      BY <1>4
    <2> HIDE DEF d
    <2>3. Counted(d, c \in members', Handlers(stack, c))
      BY <1>1, <2>1 DEF Counted
    <2>. QED
      BY <1>1, <1>2, <1>4, <2>1, <2>2, <2>3, OneClient DEF RefInv
  <1>5. CASE InputEvent(c)
    <2>1. stack' = Append(stack, c) /\ data' = WithRun(data, c)
      BY <1>5 DEF InputEvent, BeginRequest, WithRun
    <2>2. data' = [data EXCEPT ![c] = Running(data[c], data[c].recv)]
      BY <2>1, EditedData DEF RefInv
    <2>3. data[c].recv \in Int
      BY <1>1 DEF DataRecord
    <2>. QED
      BY <1>3, <2>1, <2>2, <2>3
  <1>6. CASE InputHttp(c)
    <2> DEFINE got == data[c].recv + peer[c].unread
    <2>1. got \in Int
      BY <1>1 DEF DataRecord, PeerRecord
    <2>2. \/ /\ data' = WithRecv(data, c, got)
             /\ UNCHANGED stack
          \/ /\ data' = WithRunOf(data, c, got)
             /\ stack' = Append(stack, c)
      BY <1>6 DEF InputHttp, WithRecv, WithRunOf
    <2> HIDE DEF got
    <2>3. CASE data' = WithRecv(data, c, got) /\ UNCHANGED stack
      <3>1. data' = [data EXCEPT ![c] = Received(data[c], got)]
        BY <2>3, EditedData DEF RefInv
      <3>. QED
        BY <1>4, <2>1, <2>3, <3>1
    <2>4. CASE data' = WithRunOf(data, c, got) /\ stack' = Append(stack, c)
      <3>1. data' = [data EXCEPT ![c] = Running(data[c], got)]
        BY <2>4, EditedData DEF RefInv
      <3>. QED
        BY <1>3, <2>1, <2>4, <3>1
    <2>. QED
      BY <2>2, <2>3, <2>4
  <1>. QED
    BY <1>5, <1>6

\* A response, whether more lines are handled or the handler ends
LEMMA RespondEventRefs ==
  ASSUME RefInv, RespondEvent
  PROVE  RefInv'
  <1> DEFINE c == Innermost
             d == data[c]
             n == Handlers(Outer, c)
  <1>1. /\ stack \in Seq(Peers) /\ stack # <<>>
        /\ UNCHANGED members /\ members' \subseteq Peers
    BY DEF RefInv, RespondEvent
  <1>2. /\ Outer \in Seq(Peers) /\ c \in Peers /\ n \in Nat
        /\ Handlers(stack, c) = n + 1
        /\ \A e \in Peers \ {c} : Handlers(stack, e) = Handlers(Outer, e)
    <2>1. /\ Outer \in Seq(Peers) /\ c \in Peers
          /\ \A e : Handlers(stack, e) = Handlers(Outer, e) + (IF c = e THEN 1 ELSE 0)
      BY <1>1, HandlersOuter DEF Outer, Innermost
    <2>2. \A e : Handlers(Outer, e) \in Nat
      BY <2>1, HandlersFinite
    <2>. QED
      BY <2>1, <2>2
  <1>3. /\ d \in DataRecord /\ d.life # "none"
        /\ c \in members => d.life = "live" /\ d.refs = n + 2
    BY <1>2 DEF RefInv, Counted
  <1> HIDE DEF c, n
  <1>4. CASE /\ peer' = [peer EXCEPT ![c].unread = @ - 1]
             /\ data' = [data EXCEPT ![c].runs = @ + 1]
             /\ UNCHANGED stack
    <2> DEFINE b == [d EXCEPT !.runs = @ + 1]
    <2>1. b \in DataRecord /\ b.life = d.life /\ b.refs = d.refs
      BY <1>3 DEF DataRecord
    <2>2. data' = [data EXCEPT ![c] = b]
      BY <1>2, <1>4 DEF RefInv
    <2>3. peer' \in [Peers -> PeerRecord]
      <3>1. peer[c] \in PeerRecord
        BY <1>2 DEF RefInv
      <3>2. peer[c].unread - 1 \in Int
        BY <3>1 DEF PeerRecord
      <3>3. peer' = WithUnread(peer, c, peer[c].unread - 1)
        BY <1>4 DEF WithUnread
      <3>. QED
        BY <1>2, <3>2, <3>3, EditedPeer DEF RefInv
    <2> HIDE DEF b
    <2>4. Counted(b, c \in members', n + 1)
      BY <1>1, <1>2, <1>3, <2>1 DEF Counted
    <2> HIDE DEF d
    <2>. QED
      BY <1>1, <1>2, <1>4, <2>1, <2>2, <2>3, <2>4, OneClient DEF RefInv
  <1>5. CASE /\ stack' = Outer
             /\ data' = [data EXCEPT ![c] = Released(@)]
             /\ UNCHANGED peer
    <2> DEFINE b == Released(d)
    <2>1. /\ b \in DataRecord /\ b.refs = d.refs - 1
          /\ b.life = IF d.refs = 1 THEN "deleted" ELSE d.life
      BY <1>3, ReleasedData
    <2>2. data' = [data EXCEPT ![c] = b]
      BY <1>2, <1>5 DEF RefInv
    <2> HIDE DEF b
    <2>3. Counted(b, c \in members', n)
      BY <1>1, <1>2, <1>3, <2>1 DEF Counted
    <2> HIDE DEF d
    <2>4. Handlers(stack', c) = n
      BY <1>5 DEF n
    <2>. QED
      BY <1>1, <1>2, <1>5, <2>1, <2>2, <2>3, <2>4, OneClient DEF RefInv
  <1>. QED
    BY <1>4, <1>5 DEF RespondEvent, c

\* A response and the close after it
LEMMA RespondHttpRefs ==
  ASSUME RefInv, RespondHttp
  PROVE  RefInv'
  <1> DEFINE c == Innermost
             d == Released(data[c])
             n == Handlers(Outer, c)
  <1>1. /\ stack \in Seq(Peers) /\ stack # <<>> /\ stack' = Outer
        /\ UNCHANGED peer
    BY DEF RefInv, RespondHttp
  <1>2. /\ Outer \in Seq(Peers) /\ c \in Peers /\ n \in Nat
        /\ Handlers(stack, c) = n + 1
        /\ \A e \in Peers \ {c} : Handlers(Outer, e) = Handlers(stack, e)
    <2>1. /\ Outer \in Seq(Peers) /\ c \in Peers
          /\ \A e : Handlers(stack, e) = Handlers(Outer, e) + (IF c = e THEN 1 ELSE 0)
      BY <1>1, HandlersOuter DEF Outer, Innermost
    <2>2. \A e : Handlers(Outer, e) \in Nat
      BY <2>1, HandlersFinite
    <2>. QED
      BY <2>1, <2>2
  <1>3. /\ d \in DataRecord /\ d.life # "none"
        /\ c \in members => data[c].life = "live" /\ d.life = "live" /\ d.refs = n + 1
    <2>1. /\ data[c] \in DataRecord /\ data[c].life # "none" /\ data[c].refs \in Int
          /\ c \in members => data[c].life = "live" /\ data[c].refs = n + 2
      BY <1>2 DEF RefInv, Counted, DataRecord
    <2> DEFINE e == data[c]
               b == Released(e)
    <2>2. /\ b \in DataRecord /\ b.refs = e.refs - 1
          /\ b.life = IF e.refs = 1 THEN "deleted" ELSE e.life
      BY <2>1, ReleasedData
    <2> HIDE DEF b
    <2>3. b.life # "none"
      BY <2>1, <2>2
    <2>4. ASSUME c \in members
          PROVE  e.life = "live" /\ b.life = "live" /\ b.refs = n + 1
      <3>1. e.life = "live" /\ e.refs = n + 2
        BY <2>1, <2>4
      <3> HIDE DEF e, n
      <3>2. e.refs # 1 /\ e.refs - 1 = n + 1
        BY <1>2, <3>1
      <3>. QED
        BY <2>2, <3>1, <3>2
    <2>. QED
      BY <2>2, <2>3, <2>4 DEF b
  <1>4. Handlers(stack', c) = n
    BY <1>1
  <1>5. \/ /\ members' = members \ {c}
           /\ data' = [data EXCEPT ![c] = Released(d)]
        \/ /\ data' = [data EXCEPT ![c] = [d EXCEPT !.closing = TRUE]]
           /\ UNCHANGED members
        \/ ~Live(c) /\ UNCHANGED <<data, members>>
        \/ /\ d.life # "live" /\ data' = [data EXCEPT ![c] = d]
           /\ UNCHANGED members
    BY DEF RespondHttp
  <1> HIDE DEF c, d, n
  <1>6. CASE /\ members' = members \ {c}
             /\ data' = [data EXCEPT ![c] = Released(d)]
    <2> DEFINE b == Released(d)
    <2>1. b \in DataRecord /\ b.life # "none"
      BY <1>3, ReleasedData
    <2>2. data' = [data EXCEPT ![c] = b]
      BY <1>6
    <2> HIDE DEF b
    <2>3. Counted(b, c \in members', n)
      BY <1>6, <2>1 DEF Counted
    <2>. QED
      BY <1>1, <1>2, <1>4, <1>6, <2>1, <2>2, <2>3, OneClient DEF RefInv
  <1>7. CASE /\ data' = [data EXCEPT ![c] = [d EXCEPT !.closing = TRUE]]
             /\ UNCHANGED members
    <2> DEFINE b == [d EXCEPT !.closing = TRUE]
    <2>1. b \in DataRecord /\ b.life = d.life /\ b.refs = d.refs
      BY <1>3 DEF DataRecord
    <2>2. data' = [data EXCEPT ![c] = b]
      BY <1>7
    <2> HIDE DEF b
    <2>3. Counted(b, c \in members', n)
      BY <1>3, <1>7, <2>1 DEF Counted
    <2>. QED
      BY <1>1, <1>2, <1>4, <1>7, <2>1, <2>2, <2>3, OneClient DEF RefInv
  <1>8. CASE ~Live(c) /\ UNCHANGED <<data, members>>
    <2>1. c \notin members
      BY <1>3, <1>8 DEF Live
    <2>2. data[c] \in DataRecord /\ data[c].life # "none"
      BY <1>2 DEF RefInv, Counted
    <2>3. data' = [data EXCEPT ![c] = data[c]]
      BY <1>8 DEF RefInv
    <2>4. Counted(data[c], c \in members', n)
      BY <1>8, <2>1, <2>2 DEF Counted
    <2>. QED
      BY <1>1, <1>2, <1>4, <1>8, <2>2, <2>3, <2>4, OneClient DEF RefInv
  <1>9. CASE /\ d.life # "live" /\ data' = [data EXCEPT ![c] = d]
             /\ UNCHANGED members
    <2>1. Counted(d, c \in members', n)
      BY <1>3, <1>9 DEF Counted
    <2>. QED
      BY <1>1, <1>2, <1>3, <1>4, <1>9, <2>1, OneClient DEF RefInv
  <1>. QED
    BY <1>5, <1>6, <1>7, <1>8, <1>9

LEMMA OutputRefs ==
  ASSUME RefInv, NEW c \in Peers, OutputEvent(c) \/ OutputHttp(c)
  PROVE  RefInv'
  <1>1. UNCHANGED <<stack, peer>>
    BY DEF OutputEvent, OutputHttp
  <1>2. CASE UNCHANGED <<members, data>>
    BY <1>1, <1>2 DEF RefInv, Counted
  <1>3. CASE Live(c) /\ members' = members \ {c} /\ data' = [data EXCEPT ![c] = Released(@)]
    <2> DEFINE d == Released(data[c])
    <2>1. data[c] \in DataRecord /\ data[c].life = "live" /\ data' = [data EXCEPT ![c] = d]
      BY <1>3 DEF RefInv, Live
    <2>2. d \in DataRecord /\ d.life # "none"
      BY <2>1, ReleasedData
    <2> HIDE DEF d
    <2>3. Counted(d, c \in members', Handlers(stack, c))
      BY <1>3, <2>2 DEF Counted
    <2>. QED
      BY <1>1, <1>3, <2>1, <2>2, <2>3, OneClient DEF RefInv
  <1>. QED
    BY <1>2, <1>3 DEF OutputEvent, OutputHttp

LEMMA PeerRefs ==
  ASSUME RefInv, NEW c \in Peers, PeerStep(c)
  PROVE  RefInv'
  <1>1. UNCHANGED <<members, data, stack>>
    BY DEF PeerStep, Connect, PeerSend, PeerRead, PeerClose
  <1>2. peer' \in [Peers -> PeerRecord]
    <2>1. peer \in [Peers -> PeerRecord] /\ peer[c] \in PeerRecord
      BY DEF RefInv
    <2>2. \/ \E n \in {"up", "gone"} : peer' = WithState(peer, c, n)
          \/ peer' = WithSent(peer, c)
          \/ peer' = peer
      BY DEF PeerStep, Connect, PeerSend, PeerRead, PeerClose, WithState, WithSent
    <2>. QED
      BY <2>1, <2>2, EditedPeer
  <1>. QED
    BY <1>1, <1>2 DEF RefInv, Counted

LEMMA InitRefs == Init => RefInv
  <1> SUFFICES ASSUME Init PROVE RefInv
    OBVIOUS
  <1>1. peer \in [Peers -> PeerRecord] /\ data \in [Peers -> DataRecord]
    BY DEF Init, PeerRecord, DataRecord
  <1>2. stack \in Seq(Peers) /\ members \subseteq Peers
    BY DEF Init
  <1>3. ASSUME NEW c \in Peers PROVE Counted(data[c], c \in members, Handlers(stack, c))
    <2>1. {i \in DOMAIN stack : stack[i] = c} = {}
      BY DEF Init
    <2>2. Handlers(stack, c) = 0
      BY <2>1, FS_EmptySet DEF Handlers
    <2>. QED
      BY <2>2 DEF Init, Counted
  <1>. QED
    BY <1>1, <1>2, <1>3 DEF RefInv

LEMMA NextRefs == RefInv /\ [Next]_vars => RefInv'
  <1> SUFFICES ASSUME RefInv, [Next]_vars PROVE RefInv'
    OBVIOUS
  <1>1. ASSUME NEW c \in Peers, SocketEvent(c) PROVE RefInv'
    BY <1>1, AcceptRefs, LostRefs, InputRefs, OutputRefs DEF SocketEvent
  <1>2. ASSUME NEW c \in Peers, PeerStep(c) PROVE RefInv'
    BY <1>2, PeerRefs
  <1>3. CASE Respond
    BY <1>3, RespondEventRefs, RespondHttpRefs DEF Respond
  <1>4. CASE UNCHANGED <<peer, members, data, stack>>
    BY <1>4 DEF RefInv, Counted
  <1>. QED
    BY <1>1, <1>2, <1>3, <1>4 DEF Next, Notify, WorkerBegin, WorkerSend, vars

-----------------------------------------------------------------------------
(* Event clients that are gone *)

\* An event client out of the set was lost, and has its requests' references.
Held(e) ==
  e \notin members =>
    /\ data[e].refs = Handlers(stack, e)
    /\ Live(e) <=> Handlers(stack, e) > 0
    /\ data[e].life # "none" => peer[e].state = "lost"

HeldInv == RefInv /\ \A e \in EventPeers : Held(e)

\* Steps of other clients leave it so.
LEMMA HeldFrame ==
  ASSUME NEW e, Held(e), data'[e] = data[e], Handlers(stack', e) = Handlers(stack, e),
         data[e].life # "none" => peer'[e].state = peer[e].state,
         e \in members' <=> e \in members
  PROVE  Held(e)'
  BY DEF Held, Live

\* Data that is used is a member's.
LEMMA HeldMember ==
  ASSUME HeldInv, NEW e \in EventPeers, Live(e), peer[e].state # "lost"
  PROVE  e \in members
  BY DEF HeldInv, Held, Live

\* A step that gives back a reference: the last takes the data with it.
LEMMA HeldReleased ==
  ASSUME RefInv, NEW e \in Peers, NEW n \in Nat, Handlers(stack', e) = n,
         data[e].refs = n + 1, data[e].life = "live",
         data' = [data EXCEPT ![e] = Released(@)], peer'[e].state = "lost"
  PROVE  Held(e)'
  <1> DEFINE d == Released(data[e])
  <1>1. d.refs = data[e].refs - 1 /\ d.life = IF data[e].refs = 1 THEN "deleted" ELSE data[e].life
    BY ReleasedData DEF RefInv
  <1>2. data'[e] = d
    BY DEF RefInv
  <1> HIDE DEF d
  <1>3. data'[e].refs = n /\ (data'[e].life = "live" <=> n > 0)
    BY <1>1, <1>2
  <1>. QED
    BY <1>3 DEF Held, Live

LEMMA SocketHeld ==
  ASSUME HeldInv, NEW c \in Peers, SocketEvent(c), NEW e \in EventPeers
  PROVE  Held(e)'
  <1>1. RefInv /\ Held(e) /\ e \in Peers /\ data \in [Peers -> DataRecord]
        /\ peer \in [Peers -> PeerRecord] /\ stack \in Seq(Peers)
    BY DEF HeldInv, RefInv, Peers
  <1>2. CASE AcceptEvent(c) \/ AcceptHttp(c)
    <2>1. CASE e = c
      BY <1>2, <2>1 DEF AcceptEvent, AcceptHttp, Held
    <2>2. CASE e # c
      BY <1>1, <1>2, <2>2, HeldFrame DEF AcceptEvent, AcceptHttp
    <2>. QED
      BY <2>1, <2>2
  <1>3. CASE Lost(c)
    <2>1. CASE e = c
      <3>1. Live(e) /\ e \in members /\ stack' = stack
        BY <1>3, <2>1, HeldMember DEF Lost
      <3>2. data[e].refs = Handlers(stack, e) + 1 /\ Handlers(stack', e) = Handlers(stack, e)
            /\ Handlers(stack, e) \in Nat
        BY <1>1, <3>1, HandlersFinite DEF RefInv, Counted
      <3>3. data' = [data EXCEPT ![e] = Released(@)] /\ peer'[e].state = "lost"
        BY <1>1, <1>3, <2>1 DEF Lost, PeerRecord
      <3>. QED
        BY <1>1, <3>1, <3>2, <3>3, HeldReleased DEF Live
    <2>2. CASE e # c
      BY <1>1, <1>3, <2>2, HeldFrame DEF Lost
    <2>. QED
      BY <2>1, <2>2
  <1>4. CASE InputEvent(c) \/ InputHttp(c)
    <2>1. CASE e = c
      <3>1. Live(e) /\ peer[e].state # "lost"
        BY <1>4, <2>1 DEF InputEvent, InputHttp, Readable
      <3>2. e \in members /\ members' = members
        BY <1>4, <3>1, HeldMember DEF InputEvent, InputHttp
      <3>. QED
        BY <3>2 DEF Held
    <2>2. CASE e # c
      <3>1. data'[e] = data[e] /\ peer'[e] = peer[e] /\ members' = members
        BY <1>1, <1>4, <2>2 DEF InputEvent, InputHttp, BeginRequest
      <3>2. stack' \in {stack, Append(stack, c)}
        BY <1>4 DEF InputEvent, InputHttp, BeginRequest
      <3>3. Handlers(stack', e) = Handlers(stack, e)
        <4>1. PICK n \in Nat : n = Handlers(stack, e)
          BY <1>1, HandlersFinite
        <4>2. Handlers(Append(stack, c), e) = n + (IF c = e THEN 1 ELSE 0)
          BY <1>1, <4>1, HandlersAppend
        <4>3. Handlers(Append(stack, c), e) = n
          BY <2>2, <4>1, <4>2
        <4>. QED
          BY <3>2, <4>1, <4>3
      <3>. QED
        BY <1>1, <3>1, <3>3, HeldFrame
    <2>. QED
      BY <2>1, <2>2
  <1>5. CASE OutputEvent(c)
    BY <1>1, <1>5, HeldFrame DEF OutputEvent
  <1>6. CASE OutputHttp(c)
    <2>1. e # c
      BY <1>6 DEF OutputHttp
    <2>. QED
      BY <1>1, <1>6, <2>1, HeldFrame DEF OutputHttp
  <1>. QED
    BY <1>2, <1>3, <1>4, <1>5, <1>6 DEF SocketEvent

LEMMA RespondHeld ==
  ASSUME HeldInv, Respond, NEW e \in EventPeers
  PROVE  Held(e)'
  <1> DEFINE c == Innermost
  <1>1. RefInv /\ Held(e) /\ e \in Peers /\ data \in [Peers -> DataRecord]
        /\ peer \in [Peers -> PeerRecord] /\ stack \in Seq(Peers) /\ stack # <<>>
    BY DEF HeldInv, RefInv, Peers, Respond, RespondEvent, RespondHttp
  <1>2. /\ \A b : Handlers(stack, b) = Handlers(Outer, b) + (IF c = b THEN 1 ELSE 0)
        /\ \A b : Handlers(Outer, b) \in Nat
    <2>1. /\ Outer \in Seq(Peers)
          /\ \A b : Handlers(stack, b) = Handlers(Outer, b) + (IF c = b THEN 1 ELSE 0)
      BY <1>1, HandlersOuter DEF Outer, Innermost
    <2>. QED
      BY <2>1, HandlersFinite
  <1> HIDE DEF c
  <1>3. ASSUME e # c PROVE Handlers(Outer, e) = Handlers(stack, e)
    BY <1>2, <1>3
  <1>4. CASE RespondEvent
    <2>1. CASE e # c
      <3>1. data'[e] = data[e] /\ peer'[e] = peer[e] /\ members' = members
            /\ stack' \in {stack, Outer}
        BY <1>1, <1>4, <2>1 DEF RespondEvent, c
      <3>2. Handlers(stack', e) = Handlers(stack, e)
        BY <1>3, <2>1, <3>1
      <3>. QED
        BY <1>1, <3>1, <3>2, HeldFrame
    <2>2. CASE e = c
      <3>1. SUFFICES ASSUME e \notin members PROVE Held(e)'
        BY <1>4 DEF RespondEvent, Held
      <3>2. /\ Handlers(stack, e) = Handlers(Outer, e) + 1 /\ Handlers(Outer, e) \in Nat
        BY <1>2, <2>2
      <3>3. /\ data[e].refs = Handlers(Outer, e) + 1 /\ Live(e)
            /\ peer[e].state = "lost"
        BY <1>1, <3>1, <3>2 DEF Held, Live
      <3>4. ~Readable(e)
        BY <3>3 DEF Readable
      <3>5. /\ stack' = Outer /\ data' = [data EXCEPT ![e] = Released(@)]
            /\ peer' = peer
        BY <1>4, <2>2, <3>4 DEF RespondEvent, c
      <3>. QED
        BY <1>1, <3>2, <3>3, <3>5, HeldReleased DEF Live
    <2>. QED
      BY <2>1, <2>2
  <1>5. CASE RespondHttp
    <2>1. e # c
      BY <1>5, ClientsAssumption DEF RespondHttp, c
    <2>2. stack' = Outer /\ peer' = peer
      BY <1>5 DEF RespondHttp
    <2>3. data'[e] = data[e] /\ (e \in members' <=> e \in members)
      BY <1>1, <1>5, <2>1 DEF RespondHttp, c
    <2>. QED
      BY <1>1, <1>3, <2>1, <2>2, <2>3, HeldFrame
  <1>. QED
    BY <1>4, <1>5 DEF Respond

LEMMA PeerHeld ==
  ASSUME HeldInv, NEW c \in Peers, PeerStep(c), NEW e \in EventPeers
  PROVE  Held(e)'
  <1>1. Held(e) /\ e \in Peers /\ peer \in [Peers -> PeerRecord]
    BY DEF HeldInv, RefInv, Peers
  <1>2. UNCHANGED <<members, data, stack>>
    BY DEF PeerStep, Connect, PeerSend, PeerRead, PeerClose
  <1>3. peer[e].state = "lost" => peer'[e].state = "lost"
    BY <1>1 DEF PeerStep, Connect, PeerSend, PeerRead, PeerClose, PeerRecord
  <1>. QED
    BY <1>1, <1>2, <1>3 DEF Held, Live

LEMMA NextHeld == HeldInv /\ [Next]_vars => HeldInv'
  <1> SUFFICES ASSUME HeldInv, [Next]_vars PROVE HeldInv'
    OBVIOUS
  <1>1. RefInv'
    BY NextRefs DEF HeldInv
  <1>2. ASSUME NEW e \in EventPeers PROVE Held(e)'
    <2>1. ASSUME NEW c \in Peers, SocketEvent(c) PROVE Held(e)'
      BY <2>1, SocketHeld
    <2>2. ASSUME NEW c \in Peers, PeerStep(c) PROVE Held(e)'
      BY <2>2, PeerHeld
    <2>3. CASE Respond
      BY <2>3, RespondHeld
    <2>4. CASE UNCHANGED <<peer, members, data, stack>>
      BY <2>4 DEF HeldInv, Held, Live
    <2>. QED
      BY <2>1, <2>2, <2>3, <2>4 DEF Next, Notify, WorkerBegin, WorkerSend, vars
  <1>. QED
    BY <1>1, <1>2 DEF HeldInv

LEMMA InitHeld == Init => HeldInv
  <1> SUFFICES ASSUME Init PROVE HeldInv
    OBVIOUS
  <1>1. RefInv
    BY InitRefs
  <1>2. ASSUME NEW e \in EventPeers PROVE Held(e)
    <2>1. e \in Peers /\ data[e].refs = 0 /\ data[e].life = "none"
      BY DEF Peers, Init
    <2>2. {i \in DOMAIN stack : stack[i] = e} = {}
      BY DEF Init
    <2>3. Handlers(stack, e) = 0
      BY <2>2, FS_EmptySet DEF Handlers
    <2>. QED
      BY <2>1, <2>3 DEF Held, Live
  <1>. QED
    BY <1>1, <1>2 DEF HeldInv

\* Whatever comes and goes while its requests run the event loop, a client in
\* the set has its data and a reference more than requests, and an event
\* client that was lost has its data as long as it has requests
\* (OnEventServerClientEvent, OnHttpServerClientEvent, ClientDataGuard).
THEOREM ReferencesAreExact == Spec => []DataIsHeld
  <1>1. HeldInv => DataIsHeld
    <2> SUFFICES ASSUME HeldInv PROVE DataIsHeld
      OBVIOUS
    <2>1. ASSUME NEW c \in members
          PROVE  Live(c) /\ data[c].refs = Handlers(stack, c) + 1
      BY DEF HeldInv, RefInv, Counted, Live
    <2>. QED
      BY <2>1 DEF HeldInv, Held, DataIsHeld
  <1>. QED
    BY <1>1, InitHeld, NextHeld, PTL DEF Spec
=============================================================================
