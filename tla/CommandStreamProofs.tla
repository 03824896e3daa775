------------------------ MODULE CommandStreamProofs -------------------------
(***************************************************************************)
(* Proofs about CommandStream, for streams, sizes and chunks of any length.*)
(***************************************************************************)
EXTENDS CommandStream, RmdirProofs, SequenceTheorems, TLAPS

(* The payload of h, of which `done' units have been received, stands at   *)
(* the front of s as far as s goes, and a header behind it.                *)
Pending(h, s, done) ==
    /\ \A k \in 1 .. h.size - done :
        k <= Len(s) => s[k] = Payload(h)[done + k]
    /\ h.size - done < Len(s) => s[h.size - done + 1].no = 0

(* Between commands the next unit is a header, unless a command was        *)
(* dropped or a recv was short; then a MEMSET is received by its first     *)
(* recv, or the stream is at its end.                                      *)
InStep ==
    /\ pc = "recv" /\ ~ refused /\ ~ short /\ net # <<>> => Header.no = 0
    /\ pc = "astray" => refused \/ short
    /\ pc = "memset" => cur.size < MaxSet
    /\ pc = "memset" /\ ~ refused /\ ~ short =>
        \/ net = <<>>
        \/ n_bytes = 0 /\ Pending(cur, net, 0)
        \/ n_bytes = cur.size /\ Header.no = 0

(* The loop of WRITE_FILE: at its top there is something to receive, and   *)
(* room for it.                                                            *)
WriteInv ==
    pc = "write" =>
        /\ received < cur.size
        /\ Len(chunk) < CHUNK
        /\ Pending(cur, net, received)

(* m has p from its b-th unit on.                                          *)
PartOf(p, m, b) ==
    /\ b + Len(p) <= Len(m)
    /\ \A i \in 1 .. Len(p) : p[i] = m[b + i]

(* The file and the chunk are what is meant for them; during a WRITE_FILE  *)
(* they lack the rest of its payload.                                      *)
FileInv ==
    /\ PartOf(file, meant, 0)
    /\ PartOf(chunk, meant, Len(file))
    /\ pc \in {"recv", "memset"} => chunk = <<>> /\ Len(file) = Len(meant)
    /\ pc = "write" =>
        /\ Len(meant) = Len(file) + Len(chunk) + (cur.size - received)
        /\ \A k \in 1 .. cur.size - received :
            meant[Len(file) + Len(chunk) + k] = Payload(cur)[received + k]

IndInv == TypeOK /\ WriteInv /\ FileInv /\ Framed(net)
-----------------------------------------------------------------------------
(* Taking units from the front of a sequence.                              *)
LEMMA AfterFirst ==
    ASSUME NEW S, NEW s \in Seq(S), NEW n \in 0 .. Len(s)
    PROVE  /\ After(s, n) \in Seq(S) /\ First(s, n) \in Seq(S)
           /\ Len(After(s, n)) = Len(s) - n /\ Len(First(s, n)) = n
           /\ \A i \in 1 .. Len(s) - n : After(s, n)[i] = s[n + i]
           /\ \A i \in 1 .. n : First(s, n)[i] = s[i]
  BY DEF After, First, Lesser

(* A first part of any length is a sequence of the same things.            *)
LEMMA FirstType ==
    ASSUME NEW S, NEW s \in Seq(S), NEW n \in Nat
    PROVE  First(s, n) \in Seq(S)
  BY DEF First, Lesser

(* Taking the first unit.                                                  *)
LEMMA TailIsAfter ==
    ASSUME NEW S, NEW s \in Seq(S), s # <<>>
    PROVE  Tail(s) = After(s, 1) /\ Head(s) = s[1] /\ Head(s) \in S /\ Len(s) >= 1
  BY DEF After

(* A recv returns no more than it is asked for, nor than there is; it      *)
(* returns something where there is something and something is asked for.  *)
LEMMA PiecesBound ==
    ASSUME NEW S, NEW s \in Seq(S), NEW n \in Nat, NEW k \in Pieces(n, s)
    PROVE  /\ k \in 0 .. Len(s) /\ k <= n
           /\ n > 0 /\ s # <<>> => k > 0
           /\ ~ (k < n) => k = n /\ n <= Len(s)
  BY DEF Pieces, Lesser

(* A stream stays framed while units are taken from it.                    *)
LEMMA FramedAfter ==
    ASSUME NEW s \in Seq(Unit), NEW n \in 0 .. Len(s), Framed(s)
    PROVE  Framed(After(s, n))
<1> DEFINE a == After(s, n)
<1>1. /\ Len(a) = Len(s) - n
      /\ \A i \in 1 .. Len(a) : a[i] = s[n + i]
  <2>1. /\ Len(After(s, n)) = Len(s) - n
        /\ \A i \in 1 .. Len(s) - n : After(s, n)[i] = s[n + i]
    BY AfterFirst, Zenon
  <2>. HIDE DEF a
  <2>2. a = After(s, n) => Len(a) = Len(s) - n
    BY <2>1
  <2>. QED
    BY <2>1, <2>2, Zenon DEF a
<1> SUFFICES ASSUME NEW i \in 1 .. Len(a), a[i].no = 0
             PROVE  /\ a[i].cmd \in Bare => a[i].size = 0
                    /\ \A k \in 1 .. a[i].size :
                        i + k <= Len(a) => a[i + k] = Payload(a[i])[k]
                    /\ i + a[i].size < Len(a) => a[i + a[i].size + 1].no = 0
  BY DEF Framed
<1> DEFINE u == s[n + i]
<1>2. n \in Nat /\ i \in Nat /\ Len(s) \in Nat /\ n + i \in 1 .. Len(s)
  BY <1>1
<1>6. a[i] = u /\ u \in Unit
  BY <1>1, <1>2
<1>7. u.size \in Nat
  BY <1>6 DEF Unit
<1>8. u.cmd \in Bare => u.size = 0
  BY <1>2, <1>6 DEF Framed
<1>3. /\ \A k \in 1 .. u.size : n + i + k <= Len(s) => s[n + i + k] = Payload(u)[k]
      /\ n + i + u.size < Len(s) => s[n + i + u.size + 1].no = 0
  BY <1>2, <1>6 DEF Framed
<1>4. ASSUME NEW k \in 1 .. u.size, i + k <= Len(a)
      PROVE  a[i + k] = Payload(u)[k]
  <2>1. k \in Nat /\ k > 0
    BY <1>7
  <2>2. i + k \in 1 .. Len(a) /\ n + (i + k) = n + i + k /\ n + i + k <= Len(s)
    BY <1>1, <1>2, <1>4, <2>1
  <2>3. a[i + k] = s[n + (i + k)]
    BY <1>1, <2>2
  <2>. QED
    BY <1>3, <1>4, <2>2, <2>3
<1>5. ASSUME i + u.size < Len(a)
      PROVE  a[i + u.size + 1].no = 0
  <2>1. PICK m \in Nat : m = u.size
    BY <1>7
  <2>6. i + m < Len(a)
    BY <1>5, <2>1, Zenon
  <2>2. /\ i + m + 1 \in 1 .. Len(a)
        /\ n + (i + m + 1) = n + i + m + 1 /\ n + i + m < Len(s)
    BY <1>1, <1>2, <2>6
  <2>3. a[i + m + 1] = s[n + (i + m + 1)]
    BY <1>1, <2>2
  <2>4. s[n + i + m + 1].no = 0
    BY <1>3, <2>1, <2>2
  <2>. QED
    BY <2>1, <2>2, <2>3, <2>4
<1>. QED
  BY <1>4, <1>5, <1>6, <1>8

(* Behind a header comes its payload.                                      *)
LEMMA HeaderPending ==
    ASSUME NEW s \in Seq(Unit), s # <<>>, Framed(s), Head(s).no = 0
    PROVE  Pending(Head(s), Tail(s), 0)
<1> DEFINE h == Head(s)
<1>1. /\ h = s[1] /\ h \in Unit /\ 1 \in 1 .. Len(s) /\ Tail(s) \in Seq(Unit)
      /\ Len(Tail(s)) = Len(s) - 1 /\ \A i \in 1 .. Len(s) - 1 : Tail(s)[i] = s[i + 1]
  OBVIOUS
<1>2. PICK m \in Nat : m = h.size
  BY <1>1 DEF Unit
<1>3. /\ \A k \in 1 .. m : 1 + k <= Len(s) => s[1 + k] = Payload(h)[k]
      /\ 1 + m < Len(s) => s[1 + m + 1].no = 0
  BY <1>1, <1>2 DEF Framed
<1>4. \A k \in 1 .. m : k <= Len(Tail(s)) => Tail(s)[k] = Payload(h)[k]
  BY <1>1, <1>3
<1>5. m < Len(Tail(s)) => Tail(s)[m + 1].no = 0
  <2>1. SUFFICES ASSUME m < Len(Tail(s)) PROVE Tail(s)[m + 1] = s[1 + m + 1] /\ 1 + m < Len(s)
    BY <1>3
  <2>. QED
    BY <1>1, <2>1
<1>6. /\ \A k \in 1 .. m - 0 : k <= Len(Tail(s)) => Tail(s)[k] = Payload(h)[0 + k]
      /\ m - 0 < Len(Tail(s)) => Tail(s)[m - 0 + 1].no = 0
  BY <1>4, <1>5
<1>. QED
  BY <1>2, <1>6 DEF Pending

(* Of a payload that is received in part the rest is pending; behind one   *)
(* that is received whole stands a header.                                 *)
LEMMA PendingAfter ==
    ASSUME NEW s \in Seq(Unit), NEW h, NEW m \in Nat, m = h.size,
           NEW done \in 0 .. m, NEW k \in 0 .. Len(s),
           done + k <= m, Pending(h, s, done)
    PROVE  /\ Pending(h, After(s, k), done + k)
           /\ done + k = m /\ After(s, k) # <<>> => Head(After(s, k)).no = 0
<1> DEFINE a == After(s, k)
<1>1. /\ a \in Seq(Unit) /\ Len(a) = Len(s) - k
      /\ \A i \in 1 .. Len(s) - k : a[i] = s[k + i]
  BY AfterFirst
<1>2. /\ \A i \in 1 .. m - done : i <= Len(s) => s[i] = Payload(h)[done + i]
      /\ m - done < Len(s) => s[m - done + 1].no = 0
  BY DEF Pending
<1>3. ASSUME NEW i \in 1 .. m - (done + k), i <= Len(a)
      PROVE  a[i] = Payload(h)[done + k + i]
  <2>1. i \in 1 .. m - (done + k) /\ i <= Len(s) - k
    BY <1>1, <1>3
  <2>4. k + i \in 1 .. m - done /\ k + i <= Len(s) /\ done + (k + i) = done + k + i
    BY <2>1
  <2>2. a[i] = s[k + i]
    BY <1>1, <2>1
  <2>3. s[k + i] = Payload(h)[done + (k + i)]
    BY <1>2, <2>4
  <2>. QED
    BY <2>2, <2>3, <2>4
<1>4. ASSUME m - (done + k) < Len(a)
      PROVE  a[m - (done + k) + 1].no = 0
  <2>3. m - (done + k) < Len(s) - k
    BY <1>1, <1>4
  <2>1. /\ m - (done + k) + 1 \in 1 .. Len(s) - k
        /\ k + (m - (done + k) + 1) = m - done + 1 /\ m - done < Len(s)
    BY <2>3
  <2>2. a[m - (done + k) + 1] = s[m - done + 1]
    BY <1>1, <2>1
  <2>. QED
    BY <1>2, <2>1, <2>2
<1>5. Pending(h, a, done + k)
  BY <1>3, <1>4 DEF Pending
<1>6. ASSUME done + k = m, a # <<>>
      PROVE  Head(a).no = 0
  <2>1. m - (done + k) < Len(a) /\ m - (done + k) + 1 = 1 /\ Head(a) = a[1]
    BY <1>1, <1>6
  <2>. QED
    BY <1>4, <2>1
<1>. QED
  BY <1>5, <1>6

(* Parts that follow each other make a part.                               *)
LEMMA PartConcat ==
    ASSUME NEW S, NEW m \in Seq(S), NEW p \in Seq(S), NEW q \in Seq(S), NEW b \in Nat,
           PartOf(p, m, b), PartOf(q, m, b + Len(p))
    PROVE  p \o q \in Seq(S) /\ Len(p \o q) = Len(p) + Len(q) /\ PartOf(p \o q, m, b)
<1>1. /\ p \o q \in Seq(S) /\ Len(p \o q) = Len(p) + Len(q)
      /\ Len(p) \in Nat /\ Len(q) \in Nat /\ Len(m) \in Nat
  OBVIOUS
<1>2. /\ b + Len(p) + Len(q) <= Len(m)
      /\ \A i \in 1 .. Len(p) : p[i] = m[b + i]
      /\ \A i \in 1 .. Len(q) : q[i] = m[b + Len(p) + i]
  BY DEF PartOf
<1>3. ASSUME NEW i \in 1 .. Len(p) + Len(q)
      PROVE  (p \o q)[i] = m[b + i]
  <2>1. CASE i <= Len(p)
    <3>1. (p \o q)[i] = p[i] /\ i \in 1 .. Len(p)
      BY <1>1, <2>1
    <3>. QED
      BY <1>2, <3>1
  <2>2. CASE i > Len(p)
    <3>1. (p \o q)[i] = q[i - Len(p)]
      BY <1>1, <2>2
    <3>2. i - Len(p) \in 1 .. Len(q) /\ b + Len(p) + (i - Len(p)) = b + i
      BY <1>1, <2>2
    <3>3. q[i - Len(p)] = m[b + Len(p) + (i - Len(p))]
      BY <1>2, <3>2
    <3>. QED
      BY <3>1, <3>2, <3>3
  <2>. QED
    BY <1>1, <2>1, <2>2
<1>4. b + (Len(p) + Len(q)) <= Len(m)
  BY <1>1, <1>2
<1>. QED
  BY <1>1, <1>3, <1>4 DEF PartOf

(* What begins a part is one.                                              *)
LEMMA PartFirst ==
    ASSUME NEW S, NEW m \in Seq(S), NEW p \in Seq(S), NEW b \in Nat, NEW n \in Nat,
           PartOf(p, m, b)
    PROVE  PartOf(First(p, n), m, b)
<1>1. PICK l \in 0 .. Len(p) : l = Lesser(n, Len(p))
  BY DEF Lesser
<1>2. First(p, n) = SubSeq(p, 1, l)
  BY <1>1 DEF First
<1>3. /\ Len(First(p, n)) = l
      /\ \A i \in 1 .. l : First(p, n)[i] = p[i]
  BY <1>2
<1>4. b + Len(p) <= Len(m) /\ \A i \in 1 .. Len(p) : p[i] = m[b + i]
  BY DEF PartOf
<1>5. b + l <= Len(m) /\ \A i \in 1 .. l : i \in 1 .. Len(p)
  BY <1>1, <1>4
<1>6. \A i \in 1 .. l : First(p, n)[i] = m[b + i]
  BY <1>3, <1>4, <1>5
<1>. QED
  BY <1>3, <1>5, <1>6 DEF PartOf

(* A part stays one when more follows.                                     *)
LEMMA PartGrows ==
    ASSUME NEW S, NEW m \in Seq(S), NEW t \in Seq(S), NEW p \in Seq(S), NEW b \in Nat,
           PartOf(p, m, b)
    PROVE  PartOf(p, m \o t, b)
<1>1. /\ Len(m \o t) = Len(m) + Len(t) /\ Len(p) \in Nat
      /\ \A i \in 1 .. Len(m) : (m \o t)[i] = m[i]
  OBVIOUS
<1>2. b + Len(p) <= Len(m) /\ \A i \in 1 .. Len(p) : p[i] = m[b + i]
  BY DEF PartOf
<1>3. b + Len(p) <= Len(m \o t)
  BY <1>1, <1>2
<1>4. ASSUME NEW i \in 1 .. Len(p)
      PROVE  p[i] = (m \o t)[b + i]
  <2>1. b + i \in 1 .. Len(m)
    BY <1>1, <1>2
  <2>. QED
    BY <1>1, <1>2, <2>1
<1>. QED
  BY <1>3, <1>4 DEF PartOf

(* A first part is one of its length, and all when nothing is lacking.     *)
LEMMA PartIsFirst ==
    ASSUME NEW S, NEW m \in Seq(S), NEW p \in Seq(S), PartOf(p, m, 0)
    PROVE  p = First(m, Len(p)) /\ (Len(p) = Len(m) => p = m)
<1>1. /\ Len(p) \in 0 .. Len(m)
      /\ \A i \in 1 .. Len(p) : p[i] = m[i]
  BY DEF PartOf
<1>2. /\ First(m, Len(p)) \in Seq(S) /\ Len(First(m, Len(p))) = Len(p)
      /\ \A i \in 1 .. Len(p) : First(m, Len(p))[i] = m[i]
  BY <1>1, AfterFirst
<1>. QED
  BY <1>1, <1>2
-----------------------------------------------------------------------------
(* What a remainder is good for.                                           *)
LEMMA Remainder ==
    ASSUME NEW n \in Nat
    PROVE  n % U32 \in 0 .. U32 - 1 /\ (n < U32 => n % U32 = n)
  BY StreamAssumption

(* What is left after a recv, whatever it was told to take.                *)
LEMMA AfterType ==
    ASSUME NEW S, NEW s \in Seq(S), NEW n \in Nat
    PROVE  After(s, n) \in Seq(S)
<1>1. CASE n <= Len(s)
  BY <1>1, AfterFirst
<1>2. CASE n > Len(s)
  <2>1. After(s, n) = <<>>
    BY <1>2 DEF After
  <2>. QED
    BY <2>1
<1>. QED
  BY <1>1, <1>2

(* A payload is as long as its header says.                                *)
LEMMA PayloadType ==
    ASSUME NEW h \in Unit
    PROVE  /\ Payload(h) \in Seq(Unit) /\ Len(Payload(h)) = h.size
           /\ h.size \in Nat
<1>1. h.size \in Nat
  BY DEF Unit
<1>2. \A k \in 1 .. h.size : [h EXCEPT !.no = k] \in Unit
  BY <1>1 DEF Unit
<1>3. PICK m \in Nat : m = h.size
  BY <1>1
<1>4. Payload(h) = [k \in 1 .. m |-> [h EXCEPT !.no = k]]
  BY <1>3 DEF Payload
<1> DEFINE e(k) == [h EXCEPT !.no = k]
<1>6. \A k \in 1 .. m : e(k) \in Unit
  BY <1>2, <1>3
<1>7. Payload(h) = [k \in 1 .. m |-> e(k)]
  BY <1>4
<1> HIDE DEF e
<1>5. Payload(h) \in Seq(Unit) /\ Len(Payload(h)) = m
  BY <1>6, <1>7
<1>. QED
  BY <1>3, <1>5

(* A header is taken.                                                      *)
LEMMA CommandTakes ==
    ASSUME TypeOK, Framed(net), NEW cs, Command(cs)
    PROVE  /\ Header \in Unit /\ Header.size \in Nat
           /\ Tail(net) \in Seq(Unit) /\ Framed(Tail(net))
           /\ Pending(Header, Tail(net), 0)
           /\ Header.cmd \in Bare => Header.size = 0
           /\ \A n \in 0 .. Len(Tail(net)) : After(Tail(net), n) = After(net, 1 + n)
<1>1. net \in Seq(Unit) /\ net # <<>> /\ Header.no = 0
  BY DEF TypeOK, Command
<1>2. Tail(net) = After(net, 1) /\ Header \in Unit /\ 1 \in 0 .. Len(net)
  BY <1>1, TailIsAfter DEF Header
<1>3. Tail(net) \in Seq(Unit) /\ Framed(Tail(net))
  <2>1. Framed(After(net, 1))
    BY <1>1, <1>2, FramedAfter
  <2>2. After(net, 1) \in Seq(Unit)
    BY <1>1, <1>2, AfterFirst
  <2>. QED
    BY <1>2, <2>1, <2>2, Zenon
<1>4. Pending(Header, Tail(net), 0)
  BY <1>1, HeaderPending DEF Header
<1>5. Header.size \in Nat
  BY <1>2 DEF Unit
<1>7. Header.cmd \in Bare => Header.size = 0
  <2>1. Header = net[1] /\ 1 \in 1 .. Len(net)
    BY <1>1 DEF Header
  <2>. QED
    BY <1>1, <2>1 DEF Framed
<1>6. ASSUME NEW n \in 0 .. Len(Tail(net))
      PROVE  After(Tail(net), n) = After(net, 1 + n)
  BY <1>1 DEF After
<1>. QED
  BY <1>2, <1>3, <1>4, <1>5, <1>6, <1>7

(* A recv takes part of the stream.                                        *)
LEMMA RecvTakes ==
    ASSUME TypeOK, Framed(net), NEW k \in 0 .. Len(net)
    PROVE  After(net, k) \in Seq(Unit) /\ Framed(After(net, k))
  BY AfterFirst, FramedAfter DEF TypeOK
-----------------------------------------------------------------------------
(* What the recv of WRITE_FILE returns fits the chunk and the payload.     *)
LEMMA ReceivedFits ==
    ASSUME IndInv, Receiving, NEW k \in Pieces(Want, net)
    PROVE  /\ k \in 1 .. Len(net) /\ cur \in Unit /\ cur.size \in Nat
           /\ received + k <= cur.size /\ Len(chunk) + k <= CHUNK
           /\ received + k \in Nat
<1>1. /\ net \in Seq(Unit) /\ net # <<>> /\ cur \in Unit /\ received \in Nat
      /\ chunk \in Seq(Unit) /\ received < cur.size /\ Len(chunk) < CHUNK
      /\ CHUNK \in Nat
  BY StreamAssumption DEF IndInv, TypeOK, Receiving, WriteInv
<1>2. PICK m \in Nat : m = cur.size
  BY <1>1 DEF Unit
<1>3. received < m
  BY <1>1, <1>2, Zenon
<1>4. Want = Lesser(CHUNK - Len(chunk), m - received)
  BY <1>2 DEF Want
<1>5. /\ Want \in Nat /\ Want > 0
      /\ Want <= CHUNK - Len(chunk) /\ Want <= m - received
  BY <1>1, <1>3, <1>4 DEF Lesser
<1>6. k \in 0 .. Len(net) /\ k <= Want /\ k > 0
  BY <1>1, <1>5, PiecesBound
<1>7. /\ received + k <= m /\ Len(chunk) + k <= CHUNK
      /\ received + k \in Nat /\ k \in 1 .. Len(net)
  BY <1>1, <1>5, <1>6
<1>. QED
  BY <1>1, <1>2, <1>7, Zenon

(* And it is the part of what is meant that follows the chunk.             *)
LEMMA ReceivedFollows ==
    ASSUME IndInv, Receiving, NEW k \in Pieces(Want, net)
    PROVE  /\ Got(k) \in Seq(Unit) /\ Len(Got(k)) = Len(chunk) + k
           /\ PartOf(Got(k), meant, Len(file))
           /\ After(net, k) \in Seq(Unit) /\ Framed(After(net, k))
           /\ Pending(cur, After(net, k), received + k)
           /\ received + k = cur.size /\ After(net, k) # <<>>
                => Head(After(net, k)).no = 0
<1>1. /\ k \in 1 .. Len(net) /\ cur \in Unit /\ received + k <= cur.size
  BY ReceivedFits
<1>2. /\ net \in Seq(Unit) /\ Framed(net) /\ received \in Nat
      /\ chunk \in Seq(Unit) /\ file \in Seq(Unit) /\ meant \in Seq(Unit)
      /\ Pending(cur, net, received) /\ PartOf(chunk, meant, Len(file))
      /\ Len(meant) = Len(file) + Len(chunk) + (cur.size - received)
      /\ \A j \in 1 .. cur.size - received :
            meant[Len(file) + Len(chunk) + j] = Payload(cur)[received + j]
  BY DEF IndInv, TypeOK, Receiving, WriteInv, FileInv
<1>3. PICK m \in Nat : m = cur.size
  BY <1>1 DEF Unit
<1>4. received + k <= m /\ k \in 0 .. Len(net) /\ received \in 0 .. m /\ k \in Nat
  <2>1. received + k <= m
    BY <1>1, <1>3, Zenon
  <2>. QED
    BY <1>1, <1>2, <2>1
<1>5. /\ Len(meant) = Len(file) + Len(chunk) + (m - received)
      /\ \A j \in 1 .. m - received :
            meant[Len(file) + Len(chunk) + j] = Payload(cur)[received + j]
  BY <1>2, <1>3, Zenon
<1>6. \A j \in 1 .. m - received : j <= Len(net) => net[j] = Payload(cur)[received + j]
  BY <1>2, <1>3 DEF Pending
<1>7. /\ First(net, k) \in Seq(Unit) /\ Len(First(net, k)) = k
      /\ \A j \in 1 .. k : First(net, k)[j] = net[j]
  BY <1>2, <1>4, AfterFirst
<1>8. PartOf(First(net, k), meant, Len(file) + Len(chunk))
  <2>1. Len(file) + Len(chunk) + k <= Len(meant)
    BY <1>2, <1>4, <1>5
  <2>2. ASSUME NEW j \in 1 .. k
        PROVE  First(net, k)[j] = meant[Len(file) + Len(chunk) + j]
    <3>1. j \in 1 .. m - received /\ j <= Len(net)
      BY <1>4
    <3>. QED
      BY <1>5, <1>6, <1>7, <3>1
  <2>. QED
    BY <1>7, <2>1, <2>2 DEF PartOf
<1>9. /\ Got(k) \in Seq(Unit) /\ Len(Got(k)) = Len(chunk) + k
      /\ PartOf(Got(k), meant, Len(file))
  <2>1. PICK f \in Seq(Unit) : f = First(net, k) /\ Len(f) = k
    BY <1>7, Zenon
  <2>2. PartOf(f, meant, Len(file) + Len(chunk)) /\ Len(file) \in Nat
    BY <1>2, <1>8, <2>1
  <2>3. /\ chunk \o f \in Seq(Unit) /\ Len(chunk \o f) = Len(chunk) + Len(f)
        /\ PartOf(chunk \o f, meant, Len(file))
    BY <1>2, <2>2, PartConcat
  <2>. QED
    BY <2>1, <2>3, Zenon DEF Got
<1>10. After(net, k) \in Seq(Unit) /\ Framed(After(net, k))
  BY <1>2, <1>4, AfterFirst, FramedAfter
<1>11. /\ Pending(cur, After(net, k), received + k)
       /\ received + k = m /\ After(net, k) # <<>> => Head(After(net, k)).no = 0
  BY <1>2, <1>3, <1>4, PendingAfter
<1>. QED
  BY <1>3, <1>9, <1>10, <1>11, Zenon

(* Every variable keeps its kind.                                          *)
LEMMA TypeKept ==
    ASSUME IndInv, Next
    PROVE  TypeOK' /\ Framed(net')
<1> USE DEF IndInv, causes
<1>1. CASE Stray
  BY <1>1 DEF Stray, TypeOK, memsetVars, fileVars
<1>2. CASE Torn \/ Leave
  BY <1>2, CommandTakes DEF Torn, Leave, TypeOK, memsetVars, fileVars
<1>3. CASE Refuse
  BY <1>3, CommandTakes DEF Refuse, TypeOK, memsetVars, fileVars
<1>4. CASE Accepts
  <2>1. Command({"NOTIFY", "SUB_MEM"})
    BY <1>4 DEF Accepts
  <2>2. PICK k \in Pieces(Header.size, Tail(net)) :
            net' = After(net, 1 + k) /\ short' = (short \/ k < Header.size)
    BY <1>4 DEF Accepts
  <2>3. /\ Tail(net) \in Seq(Unit) /\ Framed(Tail(net)) /\ Header.size \in Nat
        /\ \A n \in 0 .. Len(Tail(net)) : After(Tail(net), n) = After(net, 1 + n)
    BY <2>1, CommandTakes
  <2>4. k \in 0 .. Len(Tail(net))
    BY <2>3, PiecesBound
  <2>5. net' = After(Tail(net), k)
    BY <2>2, <2>3, <2>4
  <2>6. net' \in Seq(Unit) /\ Framed(net')
    BY <2>3, <2>4, <2>5, AfterFirst, FramedAfter
  <2>7. short' \in BOOLEAN
    BY <2>2 DEF TypeOK
  <2>. QED
    BY <1>4, <2>6, <2>7 DEF Accepts, TypeOK, memsetVars, fileVars
<1>5. CASE Default
  BY <1>5, CommandTakes DEF Default, TypeOK, memsetVars, fileVars
<1>6. CASE Query
  BY <1>6, CommandTakes DEF Query, TypeOK, memsetVars, fileVars
<1>7. CASE DeleteDir
  <2>1. PICK t \in Trees : deleted' = Rmdir(t, Dir)
    BY <1>7 DEF DeleteDir
  <2>2. deleted' \in [err : {0, -1}, tree : Tree, left : SUBSET Nodes]
    BY <2>1, StreamAssumption DEF Rmdir
  <2>. QED
    BY <1>7, <2>2, CommandTakes DEF DeleteDir, TypeOK, memsetVars, fileVars
<1>8. CASE File
  <2>1. CASE OpenFile
    BY <2>1, CommandTakes DEF OpenFile, TypeOK, memsetVars
  <2>2. CASE OpenFails
    <3>1. /\ Command({"OPEN_FILE"}) /\ net' = Tail(net) /\ fd' = FALSE
          /\ UNCHANGED <<broken, pc, cur, n_bytes, memory, pieces, turn, patched, chunk,
                         received, file, meant, deleted, refused, short>>
      BY <2>2 DEF OpenFails, memsetVars
    <3>2. net' \in Seq(Unit) /\ Framed(net')
      BY <3>1, CommandTakes
    <3>. QED
      BY <3>1, <3>2 DEF TypeOK
  <2>3. CASE CloseFile
    <3>1. /\ Command({"WRITE_FILE"}) /\ net' = Tail(net) /\ fd' = FALSE
          /\ UNCHANGED <<broken, pc, cur, n_bytes, memory, pieces, turn, patched, chunk,
                         received, file, meant, deleted, refused, short>>
      BY <2>3 DEF CloseFile, memsetVars
    <3>2. net' \in Seq(Unit) /\ Framed(net')
      BY <3>1, CommandTakes
    <3>. QED
      BY <3>1, <3>2 DEF TypeOK
  <2>. QED
    BY <1>8, <2>1, <2>2, <2>3 DEF File
<1>9. CASE WriteNoMemory
  BY <1>9, CommandTakes DEF WriteNoMemory, TypeOK, memsetVars, fileVars
<1>10. CASE WriteBegin
  <2>1. /\ Header \in Unit /\ Tail(net) \in Seq(Unit) /\ Framed(Tail(net))
        /\ Payload(Header) \in Seq(Unit)
    BY <1>10, CommandTakes, PayloadType DEF WriteBegin
  <2>2. meant' \in Seq(Unit)
    BY <1>10, <2>1 DEF WriteBegin, TypeOK
  <2>. QED
    BY <1>10, <2>1, <2>2 DEF WriteBegin, TypeOK, memsetVars
<1>11. CASE WriteFill
  <2>1. PICK k \in Pieces(Want, net) :
            /\ Receive(k) /\ chunk' = Got(k)
            /\ UNCHANGED <<broken, pc, cur, memsetVars, fd, file, meant, deleted,
                           causes>>
    BY <1>11 DEF WriteFill
  <2>2. /\ net' \in Seq(Unit) /\ Framed(net') /\ received' \in Nat
        /\ chunk' \in Seq(Unit)
    BY <1>11, <2>1, ReceivedFits, ReceivedFollows DEF WriteFill, Receive
  <2>. QED
    BY <2>1, <2>2 DEF TypeOK, memsetVars
<1>12. CASE WriteChunk
  <2>1. PICK k \in Pieces(Want, net) :
            /\ Receive(k) /\ chunk' = <<>> /\ file' = file \o Got(k)
            /\ pc' \in {"recv", "write"}
            /\ UNCHANGED <<broken, cur, memsetVars, fd, meant, deleted, causes>>
    BY <1>12 DEF WriteChunk
  <2>2. /\ net' \in Seq(Unit) /\ Framed(net') /\ received' \in Nat
        /\ Got(k) \in Seq(Unit)
    BY <1>12, <2>1, ReceivedFits, ReceivedFollows DEF WriteChunk, Receive
  <2>3. file' \in Seq(Unit) /\ cur \in Unit
    BY <1>12, <2>1, <2>2 DEF TypeOK, WriteChunk, Receiving
  <2>. QED
    BY <2>1, <2>2, <2>3 DEF TypeOK, memsetVars
<1>13. CASE WriteFails
  <2>1. PICK k \in Pieces(Want, net) :
            /\ Receive(k) /\ chunk' = <<>> /\ pc' = "ended"
            /\ \E n \in 0 .. (IF fd THEN Len(chunk) + k - 1 ELSE 0) :
                file' = file \o First(Got(k), n)
            /\ UNCHANGED <<broken, cur, memsetVars, fd, meant, deleted, causes>>
    BY <1>13 DEF WriteFails
  <2>2. PICK n \in Nat : file' = file \o First(Got(k), n)
    <3>1. \A n \in 0 .. (IF fd THEN Len(chunk) + k - 1 ELSE 0) : n \in Nat
      OBVIOUS
    <3>. QED
      BY <2>1, <3>1, Zenon
  <2>3. /\ net' \in Seq(Unit) /\ Framed(net') /\ received' \in Nat
        /\ Got(k) \in Seq(Unit)
    BY <1>13, <2>1, ReceivedFits, ReceivedFollows DEF WriteFails, Receive
  <2>4. First(Got(k), n) \in Seq(Unit)
    BY <2>3, FirstType
  <2>5. file' \in Seq(Unit)
    BY <2>2, <2>4 DEF TypeOK
  <2>. QED
    BY <2>1, <2>3, <2>5 DEF TypeOK, memsetVars
<1>14. CASE WriteLost
  BY <1>14 DEF WriteLost, TypeOK, memsetVars
<1>15. CASE MemsetBegin
  <2>1. 0 \in 0 .. U32 - 1
    BY StreamAssumption
  <2>. QED
    BY <1>15, <2>1, CommandTakes DEF MemsetBegin, TypeOK, fileVars
<1>16. CASE MemsetRecv
  <2>1. PICK k \in Pieces(cur.size, net) :
            /\ memory' = First(net, k) \o After(memory, k)
            /\ n_bytes' = (n_bytes + k) % U32
            /\ net' = After(net, k)
            /\ short' = (short \/ k < cur.size)
    BY <1>16 DEF MemsetRecv
  <2>2. cur \in Unit /\ cur.size \in Nat /\ net \in Seq(Unit) /\ memory \in Seq(Unit)
        /\ n_bytes \in Nat
    BY <1>16 DEF MemsetRecv, TypeOK, Unit
  <2>3. k \in 0 .. Len(net)
    BY <2>2, PiecesBound
  <2>4. net' \in Seq(Unit) /\ Framed(net')
    BY <2>1, <2>2, <2>3, AfterFirst, FramedAfter
  <2>5. First(net, k) \in Seq(Unit) /\ After(memory, k) \in Seq(Unit)
    BY <2>2, <2>3, FirstType, AfterType
  <2>6. memory' \in Seq(Unit)
    BY <2>1, <2>5
  <2>7. n_bytes' \in 0 .. U32 - 1
    <3>1. n_bytes + k \in Nat
      BY <2>2, <2>3
    <3>. QED
      BY <2>1, <3>1, Remainder
  <2>8. short' \in BOOLEAN /\ pieces' \in Nat
    BY <1>16, <2>1 DEF MemsetRecv, TypeOK
  <2>. QED
    BY <1>16, <2>4, <2>6, <2>7, <2>8 DEF MemsetRecv, TypeOK, fileVars
<1>17. CASE MemsetError
  <2>1. n_bytes + U32 - 1 \in Nat
    BY StreamAssumption DEF TypeOK
  <2>2. n_bytes' \in 0 .. U32 - 1
    BY <1>17, <2>1, Remainder DEF MemsetError
  <2>. QED
    BY <1>17, <2>2 DEF MemsetError, TypeOK, fileVars
<1>18. CASE MemsetSpin
  BY <1>18 DEF MemsetSpin, TypeOK, fileVars
<1>19. CASE MemsetDone
  <2>1. cur \in Unit /\ cur.size \in Nat /\ memory \in Seq(Unit)
    BY <1>19 DEF MemsetDone, TypeOK, Unit
  <2>2. First(memory, cur.size) \in Seq(Unit)
    BY <2>1, FirstType
  <2>3. patched' \in [header : Unit, bytes : Seq(Unit), pieces : Nat] \cup {None}
    BY <1>19, <2>1, <2>2 DEF MemsetDone, Patch, TypeOK
  <2>. QED
    BY <1>19, <2>3 DEF MemsetDone, TypeOK, fileVars
<1>. QED
  BY <1>1, <1>2, <1>3, <1>4, <1>5, <1>6, <1>7, <1>8, <1>9, <1>10, <1>11, <1>12,
     <1>13, <1>14, <1>15, <1>16, <1>17, <1>18, <1>19 DEF Next, Write, Memset
-----------------------------------------------------------------------------
(* Nothing is part of anything.                                            *)
LEMMA EmptyPart ==
    ASSUME NEW S, NEW m \in Seq(S), NEW b \in 0 .. Len(m)
    PROVE  PartOf(<<>>, m, b)
  BY DEF PartOf

(* Actions that leave a file and its chunk alone, outside WRITE_FILE.      *)
LEMMA FileAlone ==
    ASSUME FileInv, pc # "write", pc' # "write",
           pc' \in {"recv", "memset"} => pc \in {"recv", "memset"},
           UNCHANGED <<chunk, file, meant>>
    PROVE  WriteInv' /\ FileInv'
  BY DEF WriteInv, FileInv

(* A WRITE_FILE that begins lacks all of its payload.                      *)
LEMMA BeginKeeps ==
    ASSUME IndInv, WriteBegin
    PROVE  WriteInv' /\ FileInv'
<1> DEFINE p == Payload(Header)
<1>1. /\ Command({"WRITE_FILE"}) /\ net' = Tail(net) /\ cur' = Header
      /\ chunk' = <<>> /\ received' = 0 /\ meant' = meant \o p
      /\ pc' = "write" /\ file' = file /\ Header.size > 0 /\ pc = "recv"
  BY DEF WriteBegin, Command
<1>2. /\ meant \in Seq(Unit) /\ file \in Seq(Unit) /\ PartOf(file, meant, 0)
      /\ Len(file) = Len(meant)
  BY <1>1 DEF IndInv, TypeOK, FileInv
<1>3. /\ p \in Seq(Unit) /\ Len(p) = Header.size /\ Pending(Header, Tail(net), 0)
      /\ Header \in Unit
  BY <1>1, CommandTakes, PayloadType DEF IndInv
<1>4. PICK m \in Nat : m = Header.size
  BY <1>3 DEF Unit
<1>5. /\ Len(meant \o p) = Len(file) + m /\ m > 0 /\ meant \o p \in Seq(Unit)
      /\ \A k \in 1 .. m : (meant \o p)[Len(file) + k] = p[k]
  <2>1. Len(p) = m /\ m > 0
    BY <1>1, <1>3, <1>4, Zenon
  <2>. HIDE DEF p
  <2>. QED
    BY <1>2, <1>3, <2>1
<1>6. PartOf(file, meant \o p, 0)
  BY <1>2, <1>3, PartGrows
<1>7. PartOf(<<>>, meant \o p, Len(file))
  <2>1. Len(file) \in 0 .. Len(meant \o p)
    BY <1>2, <1>5
  <2>. QED
    BY <1>5, <2>1, EmptyPart
<1>8. FileInv'
  <2>1. /\ Len(meant \o p) = Len(file) + Len(<<>>) + (m - 0)
        /\ \A k \in 1 .. m - 0 :
            (meant \o p)[Len(file) + Len(<<>>) + k] = p[0 + k]
    <3>. HIDE DEF p
    <3>. QED
      BY <1>2, <1>5
  <2>. QED
    BY <1>1, <1>4, <1>6, <1>7, <2>1 DEF FileInv
<1>9. WriteInv'
  <2>1. 0 < m /\ Len(<<>>) < CHUNK
    BY <1>5, StreamAssumption
  <2>. QED
    BY <1>1, <1>3, <1>4, <2>1 DEF WriteInv
<1>. QED
  BY <1>8, <1>9

(* A chunk that is not full is received further.                           *)
LEMMA FillKeeps ==
    ASSUME IndInv, WriteFill
    PROVE  WriteInv' /\ FileInv'
<1>1. PICK k \in Pieces(Want, net) :
        /\ Receiving /\ Receive(k) /\ ~ IsFull(k) /\ chunk' = Got(k)
        /\ UNCHANGED <<pc, cur, file, meant>>
  BY DEF WriteFill
<1>2. /\ k \in 1 .. Len(net) /\ cur \in Unit
      /\ received + k \in Nat /\ received \in Nat /\ pc = "write"
      /\ chunk \in Seq(Unit) /\ file \in Seq(Unit) /\ meant \in Seq(Unit)
      /\ net \in Seq(Unit)
      /\ PartOf(file, meant, 0)
      /\ Len(meant) = Len(file) + Len(chunk) + (cur.size - received)
      /\ \A j \in 1 .. cur.size - received :
            meant[Len(file) + Len(chunk) + j] = Payload(cur)[received + j]
  BY <1>1, ReceivedFits DEF Receiving, IndInv, TypeOK, FileInv
<1>3. PICK m \in Nat : m = cur.size
  BY <1>2 DEF Unit
<1>4. /\ Got(k) \in Seq(Unit) /\ Len(Got(k)) = Len(chunk) + k
      /\ PartOf(Got(k), meant, Len(file))
      /\ Pending(cur, After(net, k), received + k)
  BY <1>1, ReceivedFollows
<1>11. /\ k \in Nat /\ k > 0 /\ received \in Nat
       /\ Len(chunk) \in Nat /\ Len(file) \in Nat /\ Len(meant) \in Nat
  BY <1>2
<1>5. Len(chunk) + k < CHUNK /\ received + k < m
  <2>1. ~ (Len(chunk) + k >= CHUNK) /\ ~ (received + k >= m)
    BY <1>1, <1>3, Zenon DEF IsFull
  <2>. QED
    BY <1>11, <2>1, StreamAssumption
<1>6. /\ Len(meant) = Len(file) + Len(chunk) + (m - received)
      /\ \A j \in 1 .. m - received :
            meant[Len(file) + Len(chunk) + j] = Payload(cur)[received + j]
  BY <1>2, <1>3, Zenon
<1>7. Len(meant) = Len(file) + (Len(chunk) + k) + (m - (received + k))
  BY <1>5, <1>6, <1>11
<1>8. ASSUME NEW j \in 1 .. m - (received + k)
      PROVE  meant[Len(file) + (Len(chunk) + k) + j] = Payload(cur)[received + k + j]
  <2>1. /\ k + j \in 1 .. m - received
        /\ Len(file) + Len(chunk) + (k + j) = Len(file) + (Len(chunk) + k) + j
        /\ received + (k + j) = received + k + j
    BY <1>5, <1>11
  <2>2. meant[Len(file) + Len(chunk) + (k + j)] = Payload(cur)[received + (k + j)]
    BY <1>6, <2>1
  <2>. QED
    BY <2>1, <2>2
<1>9. WriteInv'
  BY <1>1, <1>3, <1>4, <1>5 DEF WriteInv, Receive
<1>10. FileInv'
  BY <1>1, <1>2, <1>3, <1>4, <1>7, <1>8 DEF FileInv, Receive
<1>. QED
  BY <1>9, <1>10

(* A full chunk goes to the file.                                          *)
LEMMA ChunkKeeps ==
    ASSUME IndInv, WriteChunk
    PROVE  WriteInv' /\ FileInv'
<1>1. PICK k \in Pieces(Want, net) :
        /\ Receiving /\ Receive(k) /\ file' = file \o Got(k) /\ chunk' = <<>>
        /\ pc' = IF received + k >= cur.size THEN "recv" ELSE "write"
        /\ UNCHANGED <<cur, meant>>
  BY DEF WriteChunk
<1>2. /\ k \in 1 .. Len(net) /\ cur \in Unit
      /\ received + k \in Nat /\ received \in Nat
      /\ chunk \in Seq(Unit) /\ file \in Seq(Unit) /\ meant \in Seq(Unit)
      /\ net \in Seq(Unit) /\ PartOf(file, meant, 0)
      /\ Len(meant) = Len(file) + Len(chunk) + (cur.size - received)
      /\ \A j \in 1 .. cur.size - received :
            meant[Len(file) + Len(chunk) + j] = Payload(cur)[received + j]
      /\ received + k <= cur.size
  BY <1>1, ReceivedFits DEF Receiving, IndInv, TypeOK, FileInv
<1>3. PICK m \in Nat : m = cur.size
  BY <1>2 DEF Unit
<1>4. /\ Got(k) \in Seq(Unit) /\ Len(Got(k)) = Len(chunk) + k
      /\ PartOf(Got(k), meant, Len(file))
      /\ Pending(cur, After(net, k), received + k)
  BY <1>1, ReceivedFollows
<1>5. /\ Len(meant) = Len(file) + Len(chunk) + (m - received)
      /\ \A j \in 1 .. m - received :
            meant[Len(file) + Len(chunk) + j] = Payload(cur)[received + j]
      /\ received + k <= m
      /\ pc' = IF received + k >= m THEN "recv" ELSE "write"
  BY <1>1, <1>2, <1>3, Zenon
<1>11. /\ k \in Nat /\ k > 0 /\ received \in Nat
       /\ Len(chunk) \in Nat /\ Len(file) \in Nat /\ Len(meant) \in Nat
  BY <1>2
<1>6. /\ PartOf(file', meant, 0) /\ file' \in Seq(Unit)
      /\ Len(file') = Len(file) + (Len(chunk) + k)
  <2>1. PartOf(Got(k), meant, 0 + Len(file))
    BY <1>2, <1>4
  <2>3. /\ file \in Seq(Unit) /\ meant \in Seq(Unit) /\ Got(k) \in Seq(Unit)
        /\ PartOf(file, meant, 0) /\ 0 \in Nat
    BY <1>2, <1>4
  <2>2. /\ PartOf(file \o Got(k), meant, 0) /\ file \o Got(k) \in Seq(Unit)
        /\ Len(file \o Got(k)) = Len(file) + Len(Got(k))
    BY <2>1, <2>3, PartConcat
  <2>. QED
    BY <1>1, <1>4, <2>2
<1>7. Len(file') \in 0 .. Len(meant)
  BY <1>5, <1>6, <1>11
<1>8. PartOf(<<>>, meant, Len(file'))
  BY <1>2, <1>7, EmptyPart
<1>9. CASE received + k >= m
  <2>1. pc' = "recv" /\ Len(file') = Len(meant)
    BY <1>5, <1>6, <1>9, <1>11
  <2>. QED
    BY <1>1, <1>6, <1>8, <2>1 DEF WriteInv, FileInv
<1>10. CASE received + k < m
  <2>1. pc' = "write"
    BY <1>5, <1>10, <1>11
  <2>2. Len(meant) = Len(file') + Len(<<>>) + (m - (received + k))
    BY <1>5, <1>6, <1>11
  <2>3. ASSUME NEW j \in 1 .. m - (received + k)
        PROVE  meant[Len(file') + Len(<<>>) + j] = Payload(cur)[received + k + j]
    <3>1. /\ k + j \in 1 .. m - received
          /\ Len(file) + Len(chunk) + (k + j) = Len(file') + Len(<<>>) + j
          /\ received + (k + j) = received + k + j
      BY <1>6, <1>11
    <3>2. meant[Len(file) + Len(chunk) + (k + j)] = Payload(cur)[received + (k + j)]
      BY <1>5, <3>1
    <3>. QED
      BY <3>1, <3>2
  <2>4. Len(<<>>) < CHUNK
    BY StreamAssumption
  <2>5. WriteInv'
    BY <1>1, <1>3, <1>4, <1>10, <2>4 DEF WriteInv, Receive
  <2>6. FileInv'
    BY <1>1, <1>3, <1>6, <1>8, <2>1, <2>2, <2>3 DEF FileInv, Receive
  <2>. QED
    BY <2>5, <2>6
<1>. QED
  BY <1>3, <1>9, <1>10, <1>11

(* Of a chunk that is not written whole a first part may be.               *)
LEMMA FailsKeeps ==
    ASSUME IndInv, WriteFails
    PROVE  WriteInv' /\ FileInv'
<1>1. PICK k \in Pieces(Want, net) :
        /\ Receiving /\ chunk' = <<>> /\ pc' = "ended" /\ meant' = meant
        /\ \E n \in 0 .. (IF fd THEN Len(chunk) + k - 1 ELSE 0) :
            file' = file \o First(Got(k), n)
  BY DEF WriteFails
<1>2. PICK n \in Nat : file' = file \o First(Got(k), n)
  <2>1. \A n \in 0 .. (IF fd THEN Len(chunk) + k - 1 ELSE 0) : n \in Nat
    OBVIOUS
  <2>. QED
    BY <1>1, <2>1, Zenon
<1>3. /\ file \in Seq(Unit) /\ meant \in Seq(Unit) /\ PartOf(file, meant, 0)
      /\ Len(file) \in Nat
  BY DEF IndInv, TypeOK, FileInv
<1>4. Got(k) \in Seq(Unit) /\ PartOf(Got(k), meant, Len(file))
  BY <1>1, ReceivedFollows
<1>5. /\ First(Got(k), n) \in Seq(Unit)
      /\ PartOf(First(Got(k), n), meant, Len(file))
  BY <1>3, <1>4, FirstType, PartFirst
<1>6. PartOf(First(Got(k), n), meant, 0 + Len(file))
  BY <1>3, <1>5
<1>7. PartOf(file \o First(Got(k), n), meant, 0) /\ file \o First(Got(k), n) \in Seq(Unit)
  BY <1>3, <1>5, <1>6, PartConcat
<1>8. PartOf(<<>>, meant, Len(file'))
  <2>1. Len(file') \in 0 .. Len(meant)
    BY <1>2, <1>7 DEF PartOf
  <2>. QED
    BY <1>3, <2>1, EmptyPart
<1>. QED
  BY <1>1, <1>2, <1>7, <1>8 DEF WriteInv, FileInv
-----------------------------------------------------------------------------
(* The inductive invariant holds at first.                                 *)
LEMMA IndInvInit ==
    ASSUME Init
    PROVE  IndInv
<1>1. net \in Seq(Unit) /\ Framed(net)
  BY StreamAssumption DEF Init
<1>2. TypeOK
  <2>1. 0 \in 0 .. U32 - 1 /\ <<>> \in Seq(Unit) /\ 0 \in Nat
    BY StreamAssumption
  <2>2. /\ pc \in {"recv", "memset", "write", "ended", "astray"}
        /\ pc \notin {"memset", "write"}
    BY DEF Init
  <2>3. /\ broken \in BOOLEAN /\ fd \in BOOLEAN /\ refused \in BOOLEAN
        /\ short \in BOOLEAN /\ turn \in BOOLEAN
    BY DEF Init
  <2>. QED
    BY <1>1, <2>1, <2>2, <2>3, Zenon DEF Init, TypeOK
<1>3. WriteInv
  BY DEF Init, WriteInv
<1>4. FileInv
  <2>1. PartOf(<<>>, <<>>, 0)
    BY DEF PartOf
  <2>2. 0 = Len(<<>>)
    OBVIOUS
  <2>. QED
    BY <2>1, <2>2 DEF Init, FileInv
<1>. QED
  BY <1>1, <1>2, <1>3, <1>4 DEF IndInv

(* Every step keeps it.                                                    *)
LEMMA IndInvNext ==
    ASSUME IndInv, [Next]_vars
    PROVE  IndInv'
<1>1. CASE UNCHANGED vars
  BY <1>1 DEF vars, memsetVars, fileVars, causes, IndInv, TypeOK, WriteInv, FileInv
<1>2. CASE Next
  <2>1. TypeOK' /\ Framed(net')
    BY <1>2, TypeKept
  <2>2. WriteInv' /\ FileInv'
    <3>. USE DEF IndInv
    <3>1. CASE Stray \/ Torn \/ Leave
      BY <3>1, FileAlone DEF Stray, Torn, Leave, Command, fileVars
    <3>2. CASE Refuse \/ Accepts \/ Default \/ Query \/ DeleteDir
      BY <3>2, FileAlone DEF Refuse, Accepts, Default, Query, DeleteDir, Command,
         fileVars
    <3>3. CASE OpenFile
      <4>1. pc = "recv" /\ pc' = "recv" /\ chunk' = chunk /\ file' = <<>> /\ meant' = <<>>
        BY <3>3 DEF OpenFile, Command
      <4>2. chunk = <<>> /\ PartOf(<<>>, <<>>, 0) /\ Len(<<>>) = 0
        BY <4>1 DEF FileInv, PartOf
      <4>. QED
        BY <4>1, <4>2 DEF WriteInv, FileInv
    <3>4. CASE OpenFails \/ CloseFile
      BY <3>4, FileAlone DEF OpenFails, CloseFile, Command
    <3>5. CASE WriteNoMemory
      BY <3>5, FileAlone DEF WriteNoMemory, Command, fileVars
    <3>6. CASE WriteLost
      <4>1. pc' = "ended" /\ chunk' = <<>> /\ UNCHANGED <<file, meant>>
        BY <3>6 DEF WriteLost
      <4>2. file \in Seq(Unit) /\ meant \in Seq(Unit) /\ PartOf(file, meant, 0)
        BY DEF TypeOK, FileInv
      <4>3. Len(file) \in 0 .. Len(meant)
        BY <4>2 DEF PartOf
      <4>4. PartOf(<<>>, meant, Len(file))
        BY <4>2, <4>3, EmptyPart
      <4>. QED
        BY <4>1, <4>2, <4>4 DEF WriteInv, FileInv
    <3>7. CASE Memset
      BY <3>7, FileAlone DEF Memset, MemsetBegin, MemsetRecv, MemsetError, MemsetSpin,
         MemsetDone, Command, fileVars
    <3>. QED
      BY <1>2, <3>1, <3>2, <3>3, <3>4, <3>5, <3>6, <3>7, BeginKeeps, FillKeeps,
         ChunkKeeps, FailsKeeps DEF Next, File, Write
  <2>. QED
    BY <2>1, <2>2 DEF IndInv
<1>. QED
  BY <1>1, <1>2

(* The inductive invariant holds throughout.                               *)
THEOREM StreamInvariant == Spec => []IndInv
<1>1. Init => IndInv
  BY IndInvInit
<1>2. IndInv /\ [Next]_vars => IndInv'
  BY IndInvNext
<1>. QED
  BY <1>1, <1>2, PTL DEF Spec

(* Every variable holds a value of its kind; MEMSET's count is a u32.      *)
THEOREM StreamTypeCorrect == Spec => []TypeOK
<1>1. IndInv => TypeOK
  BY DEF IndInv
<1>. QED
  BY <1>1, StreamInvariant, PTL

(* WRITE_FILE never asks recv for nothing, for more than the buffer holds  *)
(* or for more than the client said it sends, whatever the pieces.         *)
THEOREM ReceivesInBounds == Spec => []ChunkBounded
<1>1. ASSUME IndInv
      PROVE  ChunkBounded
  <2>1. SUFFICES ASSUME pc = "write"
                 PROVE  /\ Want >= 1
                        /\ Len(chunk) + Want <= CHUNK
                        /\ received + Want <= cur.size
    BY DEF ChunkBounded
  <2>2. /\ cur \in Unit /\ received \in Nat /\ Len(chunk) \in Nat
        /\ received < cur.size /\ Len(chunk) < CHUNK /\ CHUNK \in Nat
    BY <1>1, <2>1, StreamAssumption DEF IndInv, TypeOK, WriteInv
  <2>3. PICK m \in Nat : m = cur.size
    BY <2>2 DEF Unit
  <2>4. received < m /\ Want = Lesser(CHUNK - Len(chunk), m - received)
    BY <2>2, <2>3, Zenon DEF Want
  <2>5. Want >= 1 /\ Len(chunk) + Want <= CHUNK /\ received + Want <= m
    BY <2>2, <2>4 DEF Lesser
  <2>. QED
    BY <2>3, <2>5, Zenon
<1>. QED
  BY <1>1, StreamInvariant, PTL

(* A file is a prefix of what is sent for it, whatever the pieces and      *)
(* wherever the transfer breaks off; between commands it is complete.      *)
THEOREM FilesArePrefixes == Spec => []FileIsPrefix
<1>1. ASSUME IndInv
      PROVE  FileIsPrefix
  <2>1. /\ file \in Seq(Unit) /\ chunk \in Seq(Unit) /\ meant \in Seq(Unit)
        /\ PartOf(file, meant, 0) /\ PartOf(chunk, meant, Len(file))
        /\ pc = "recv" => chunk = <<>> /\ Len(file) = Len(meant)
    BY <1>1 DEF IndInv, TypeOK, FileInv
  <2>2. PartOf(chunk, meant, 0 + Len(file)) /\ 0 \in Nat
    BY <2>1
  <2>3. /\ PartOf(file \o chunk, meant, 0) /\ file \o chunk \in Seq(Unit)
        /\ Len(file \o chunk) = Len(file) + Len(chunk)
    BY <2>1, <2>2, PartConcat
  <2>4. file \o chunk = First(meant, Len(file \o chunk))
    <3>1. PICK p \in Seq(Unit) : p = file \o chunk
      BY <2>3, Zenon
    <3>2. PartOf(p, meant, 0)
      BY <2>3, <3>1, Zenon
    <3>3. p = First(meant, Len(p))
      BY <2>1, <3>2, PartIsFirst
    <3>. QED
      BY <3>1, <3>3, Zenon
  <2>5. file \o chunk = First(meant, Len(file) + Len(chunk))
    BY <2>3, <2>4, Zenon
  <2>6. pc = "recv" => chunk = <<>> /\ file = meant
    BY <2>1, PartIsFirst
  <2>. QED
    BY <2>5, <2>6 DEF FileIsPrefix
<1>. QED
  BY <1>1, StreamInvariant, PTL
-----------------------------------------------------------------------------
(* What stands behind a payload of no or some units that a recv took.      *)
LEMMA TakenWhole ==
    ASSUME NEW s \in Seq(Unit), NEW h \in Unit, Pending(h, s, 0),
           NEW k, k = Lesser(h.size, Len(s)), After(s, k) # <<>>
    PROVE  k = h.size /\ Head(After(s, k)).no = 0
<1>1. PICK m \in Nat : m = h.size
  BY DEF Unit
<1>2. k \in 0 .. Len(s) /\ k \in 0 .. m /\ (k = m \/ k = Len(s))
  BY <1>1 DEF Lesser
<1>3. After(s, k) \in Seq(Unit) /\ Len(After(s, k)) = Len(s) - k
  BY <1>2, AfterFirst
<1>4. k # Len(s)
  BY <1>3
<1>5. k = m
  BY <1>2, <1>4
<1>6. 0 + k = m /\ 0 \in 0 .. m /\ 0 + k <= m
  BY <1>2, <1>5
<1>7. Head(After(s, k)).no = 0
  BY <1>1, <1>2, <1>6, PendingAfter
<1>. QED
  BY <1>1, <1>5, <1>7

(* A command without payload leaves the next one in front.                 *)
LEMMA BareTaken ==
    ASSUME TypeOK, Framed(net), NEW cs, Command(cs), Header.size = 0, Tail(net) # <<>>
    PROVE  Head(Tail(net)).no = 0
<1>1. Tail(net) \in Seq(Unit) /\ Header \in Unit /\ Pending(Header, Tail(net), 0)
  BY CommandTakes
<1>2. 0 < Len(Tail(net)) /\ Head(Tail(net)) = Tail(net)[1]
  BY <1>1
<1>3. 0 - 0 < Len(Tail(net)) => Tail(net)[0 - 0 + 1].no = 0
  BY <1>1 DEF Pending
<1>. QED
  BY <1>2, <1>3

(* Without a cause the next command stays in front.                        *)
LEMMA InStepKept ==
    ASSUME IndInv, InStep, Next
    PROVE  InStep'
<1> USE DEF IndInv, causes
<1>1. CASE Stray \/ Leave \/ WriteNoMemory
  BY <1>1 DEF Stray, Leave, WriteNoMemory, InStep
<1>2. CASE Refuse \/ Default \/ Torn
  BY <1>2 DEF Refuse, Default, Torn, Command, InStep
<1>3. CASE Accepts
  <2>1. Command({"NOTIFY", "SUB_MEM"}) /\ pc' = "recv"
    BY <1>3 DEF Accepts, Command
  <2>2. PICK k \in Pieces(Header.size, Tail(net)) :
            net' = After(net, 1 + k) /\ short' = (short \/ k < Header.size)
    BY <1>3 DEF Accepts
  <2>3. /\ Tail(net) \in Seq(Unit) /\ Header \in Unit /\ Header.size \in Nat
        /\ Pending(Header, Tail(net), 0)
        /\ \A n \in 0 .. Len(Tail(net)) : After(Tail(net), n) = After(net, 1 + n)
    BY <2>1, CommandTakes
  <2>4. /\ k \in 0 .. Len(Tail(net))
        /\ ~ (k < Header.size) => k = Header.size /\ Header.size <= Len(Tail(net))
    BY <2>3, PiecesBound
  <2>5. net' = After(Tail(net), k)
    BY <2>2, <2>3, <2>4
  <2>6. ASSUME ~ short', net' # <<>>
        PROVE  Head(net').no = 0
    <3>1. k = Header.size /\ Header.size <= Len(Tail(net))
      BY <2>2, <2>4, <2>6
    <3>2. k = Lesser(Header.size, Len(Tail(net)))
      BY <3>1 DEF Lesser
    <3>. QED
      BY <2>3, <2>5, <2>6, <3>2, TakenWhole
  <2>. QED
    BY <2>1, <2>6 DEF InStep, Header
<1>4. CASE Query \/ DeleteDir \/ OpenFile \/ OpenFails \/ CloseFile
  <2>1. PICK cs \in {{"QUERY"}, {"DELETE_DIR"}, {"OPEN_FILE"}, {"WRITE_FILE"}} :
            /\ Command(cs) /\ net' = Tail(net) /\ pc' = "recv"
            /\ cs = {"WRITE_FILE"} => Header.size = 0
    BY <1>4 DEF Query, DeleteDir, OpenFile, OpenFails, CloseFile, Command
  <2>2. Header.cmd \in cs
    BY <2>1 DEF Command
  <2>3. Header.size = 0
    BY <2>1, <2>2, CommandTakes DEF Bare
  <2>4. net' # <<>> => Head(net').no = 0
    BY <2>1, <2>3, BareTaken
  <2>. QED
    BY <2>1, <2>4 DEF InStep, Header
<1>5. CASE WriteBegin \/ WriteFails \/ WriteLost
  BY <1>5 DEF WriteBegin, WriteFails, WriteLost, InStep
<1>6. CASE WriteFill
  BY <1>6 DEF WriteFill, Receiving, InStep
<1>7. CASE WriteChunk
  <2>1. PICK k \in Pieces(Want, net) :
            /\ Receiving /\ Receive(k)
            /\ pc' = IF received + k >= cur.size THEN "recv" ELSE "write"
    BY <1>7 DEF WriteChunk
  <2>2. /\ received + k <= cur.size /\ received + k \in Nat /\ cur.size \in Nat
        /\ received + k = cur.size /\ After(net, k) # <<>>
            => Head(After(net, k)).no = 0
    BY <2>1, ReceivedFits, ReceivedFollows
  <2>3. PICK m \in Nat : m = cur.size
    BY <2>2
  <2>4. received + k >= m => received + k = m
    BY <2>2, <2>3
  <2>5. pc' = "recv" /\ net' # <<>> => Head(net').no = 0
    BY <2>1, <2>2, <2>3, <2>4 DEF Receive
  <2>. QED
    BY <2>1, <2>5 DEF InStep, Header
<1>8. CASE MemsetBegin
  <2>1. /\ Command({"MEMSET"}) /\ ~ TooLong(Header) /\ net' = Tail(net)
        /\ cur' = Header /\ n_bytes' = 0 /\ pc' = "memset"
    BY <1>8 DEF MemsetBegin
  <2>2. Pending(Header, Tail(net), 0) /\ Header.size \in Nat /\ Header.cmd = "MEMSET"
    BY <2>1, CommandTakes DEF Command
  <2>3. Header.size < MaxSet
    BY <2>1, <2>2, StreamAssumption DEF TooLong
  <2>. QED
    BY <2>1, <2>2, <2>3 DEF InStep
<1>9. CASE MemsetRecv
  <2>1. PICK k \in Pieces(cur.size, net) :
            /\ n_bytes' = (n_bytes + k) % U32
            /\ net' = After(net, k) /\ net # <<>> /\ n_bytes < cur.size
            /\ short' = (short \/ k < cur.size)
            /\ pc = "memset" /\ UNCHANGED <<pc, cur, refused>>
    BY <1>9 DEF MemsetRecv
  <2>2. /\ cur \in Unit /\ cur.size \in Nat /\ net \in Seq(Unit) /\ cur.size < MaxSet
        /\ n_bytes \in Nat /\ MaxSet \in Nat
    BY <2>1, StreamAssumption DEF TypeOK, Unit, InStep
  <2>3. ~ (k < cur.size) => k = cur.size /\ cur.size <= Len(net)
    BY <2>2, PiecesBound
  <2>5. ASSUME ~ refused, ~ short', net' # <<>>
        PROVE  n_bytes' = cur.size /\ Head(net').no = 0
    <3>1. n_bytes = 0 /\ Pending(cur, net, 0)
      <4>1. n_bytes # cur.size
        BY <2>1, <2>2
      <4>2. ~ short /\ net # <<>>
        BY <2>1, <2>5
      <4>. QED
        BY <2>1, <2>5, <4>1, <4>2 DEF InStep
    <3>2. k = cur.size /\ cur.size <= Len(net)
      BY <2>1, <2>3, <2>5
    <3>3. k = Lesser(cur.size, Len(net))
      BY <3>2 DEF Lesser
    <3>4. Head(net').no = 0
      BY <2>1, <2>2, <2>5, <3>1, <3>3, TakenWhole
    <3>5. 0 + k \in Nat /\ 0 + k < U32 /\ 0 + k = cur.size
      <4>1. PICK m \in Nat : m = cur.size
        BY <2>2
      <4>2. m < MaxSet
        BY <2>2, <4>1, Zenon
      <4>3. m < U32
        BY <2>2, <4>2, StreamAssumption
      <4>. QED
        BY <3>2, <4>1, <4>3
    <3>6. n_bytes' = cur.size
      BY <2>1, <3>1, <3>5, Remainder
    <3>. QED
      BY <3>4, <3>6
  <2>. QED
    BY <2>1, <2>2, <2>5 DEF InStep, Header
<1>10. CASE MemsetError \/ MemsetSpin
  BY <1>10 DEF MemsetError, MemsetSpin, InStep
<1>11. CASE MemsetDone
  <2>1. pc = "memset" /\ n_bytes >= cur.size /\ pc' = "recv" /\ UNCHANGED <<net, causes>>
    BY <1>11 DEF MemsetDone
  <2>2. net \in Seq(Unit) /\ cur \in Unit
    BY <2>1 DEF TypeOK
  <2>3. PICK m \in Nat : m = cur.size
    BY <2>2 DEF Unit
  <2>4. ASSUME ~ refused, ~ short, net # <<>>
        PROVE  Header.no = 0
    <3>1. CASE n_bytes = 0 /\ Pending(cur, net, 0)
      <4>1. m = 0
        BY <2>1, <2>3, <3>1
      <4>2. 0 - 0 < Len(net) => net[0 - 0 + 1].no = 0
        BY <2>3, <3>1, <4>1 DEF Pending
      <4>. QED
        BY <2>2, <2>4, <4>2 DEF Header
    <3>2. CASE Header.no = 0
      BY <3>2
    <3>. QED
      BY <2>1, <2>4, <3>1, <3>2 DEF InStep
  <2>. QED
    BY <2>1, <2>4 DEF InStep, Header
<1>. QED
  BY <1>1, <1>2, <1>3, <1>4, <1>5, <1>6, <1>7, <1>8, <1>9, <1>10, <1>11
     DEF Next, File, Write, Memset

(* Whatever the pieces, the thread takes something else than a command for *)
(* one only after it has dropped a command whose payload was still to      *)
(* come, or a recv other than WRITE_FILE's was short.                      *)
THEOREM StaysInStep == Spec => []StraysForCause
<1>1. Init => InStep
  <2>1. SUFFICES ASSUME Init PROVE InStep
    OBVIOUS
  <2>2. /\ net \in Seq(Unit) /\ (net # <<>> => net[1].no = 0) /\ pc = "recv"
    BY <2>1, StreamAssumption DEF Init
  <2>. QED
    BY <2>2 DEF InStep, Header
<1>2. IndInv /\ InStep /\ [Next]_vars => InStep'
  <2>1. CASE UNCHANGED vars
    BY <2>1 DEF vars, memsetVars, fileVars, causes, InStep, Header
  <2>2. CASE Next
    BY <2>2, InStepKept
  <2>. QED
    BY <2>1, <2>2
<1>3. InStep => StraysForCause
  BY DEF InStep, StraysForCause
<1>. QED
  BY <1>1, <1>2, <1>3, StreamInvariant, PTL DEF Spec

-----------------------------------------------------------------------------
(* The loop of MEMSET while no recv fails.  Before the first recv the      *)
(* payload is in front.  It puts all of it at the start of sysmem, or the  *)
(* rest is in front; a second one puts some of that there instead.         *)
Untouched == pieces = 0 /\ n_bytes = 0 /\ Pending(cur, net, 0)
InOne == pieces = 1 /\ n_bytes = cur.size /\ First(memory, cur.size) = Payload(cur)
InPart == pieces >= 1 /\ n_bytes \in 1 .. cur.size - 1 /\ Pending(cur, net, n_bytes)
Overrun ==
    /\ pieces >= 2 /\ n_bytes >= cur.size /\ cur.size >= 1
    /\ memory # <<>> /\ memory[1] # Payload(cur)[1]

MemsetInv ==
    /\ pc = "memset" => cur.size < MaxSet
    /\ pc = "memset" /\ ~ broken => Untouched \/ InOne \/ InPart \/ Overrun
    /\ MemoryIsSetIfWhole

(* A recv that takes the payload from the front of the stream leaves it at *)
(* the start of the buffer, whatever was there.                            *)
LEMMA RecvFills ==
    ASSUME NEW s \in Seq(Unit), NEW h \in Unit, Pending(h, s, 0), h.size <= Len(s),
           NEW b \in Seq(Unit)
    PROVE  First(First(s, h.size) \o After(b, h.size), h.size) = Payload(h)
<1>1. PICK m \in Nat : m = h.size
  BY DEF Unit
<1>2. m \in 0 .. Len(s)
  BY <1>1
<1>3. PICK f \in Seq(Unit) : f = First(s, m) /\ Len(f) = m /\ (\A i \in 1 .. m : f[i] = s[i])
  <2>1. /\ First(s, m) \in Seq(Unit) /\ Len(First(s, m)) = m
        /\ \A i \in 1 .. m : First(s, m)[i] = s[i]
    BY <1>2, AfterFirst
  <2>. QED
    BY <2>1, Zenon
<1>4. PICK a \in Seq(Unit) : a = After(b, m)
  BY AfterType
<1>5. PICK n \in Seq(Unit) : n = f \o a
  <2>1. f \o a \in Seq(Unit)
    OBVIOUS
  <2>. QED
    BY <2>1, Zenon
<1>6. m \in 0 .. Len(n) /\ (\A i \in 1 .. m : n[i] = f[i])
  BY <1>3, <1>5
<1>7. /\ First(n, m) \in Seq(Unit) /\ Len(First(n, m)) = m
      /\ \A i \in 1 .. m : First(n, m)[i] = n[i]
  BY <1>6, AfterFirst
<1>8. Payload(h) \in Seq(Unit) /\ Len(Payload(h)) = m
  BY <1>1, PayloadType
<1>9. \A i \in 1 .. m : s[i] = Payload(h)[i]
  <2>1. \A k \in 1 .. m - 0 : k <= Len(s) => s[k] = Payload(h)[0 + k]
    BY <1>1 DEF Pending
  <2>. QED
    BY <1>2, <2>1
<1>10. First(n, m) = Payload(h)
  <2>1. \A i \in 1 .. m : First(n, m)[i] = Payload(h)[i]
    BY <1>3, <1>6, <1>7, <1>9
  <2>. QED
    BY <1>7, <1>8, <2>1, SeqEqual
<1>. QED
  BY <1>1, <1>3, <1>4, <1>5, <1>10, Zenon

(* No payload is an empty one.                                             *)
LEMMA NoPayload ==
    ASSUME NEW h \in Unit, h.size = 0, NEW b \in Seq(Unit)
    PROVE  First(b, h.size) = Payload(h)
<1>1. Payload(h) \in Seq(Unit) /\ Len(Payload(h)) = 0
  BY PayloadType
<1>2. First(b, 0) \in Seq(Unit) /\ Len(First(b, 0)) = 0
  BY AfterFirst
<1>. QED
  BY <1>1, <1>2

(* Begun from the middle of a payload, a recv puts a wrong unit first.     *)
LEMMA RecvSpoils ==
    ASSUME NEW s \in Seq(Unit), NEW h \in Unit, NEW m \in Nat, m = h.size,
           NEW done \in 1 .. m - 1, Pending(h, s, done),
           NEW k \in 1 .. Len(s), NEW b \in Seq(Unit)
    PROVE  LET n == First(s, k) \o After(b, k)
           IN  n # <<>> /\ n[1] # Payload(h)[1]
<1>1. PICK f \in Seq(Unit) : f = First(s, k) /\ Len(f) = k /\ f[1] = s[1]
  <2>1. k \in 0 .. Len(s) /\ 1 \in 1 .. k
    OBVIOUS
  <2>2. /\ First(s, k) \in Seq(Unit) /\ Len(First(s, k)) = k
        /\ \A i \in 1 .. k : First(s, k)[i] = s[i]
    BY <2>1, AfterFirst
  <2>. QED
    BY <2>1, <2>2, Zenon
<1>2. PICK a \in Seq(Unit) : a = After(b, k)
  BY AfterType
<1>3. f \o a # <<>> /\ (f \o a)[1] = s[1]
  BY <1>1
<1>4. s[1] = Payload(h)[done + 1]
  <2>1. /\ \A j \in 1 .. m - done : j <= Len(s) => s[j] = Payload(h)[done + j]
        /\ 1 \in 1 .. m - done /\ 1 <= Len(s)
    BY DEF Pending
  <2>. QED
    BY <2>1
<1>5. Payload(h)[done + 1] # Payload(h)[1]
  <2>1. Payload(h) = [j \in 1 .. m |-> [h EXCEPT !.no = j]]
    BY DEF Payload
  <2>2. done + 1 \in 1 .. m /\ 1 \in 1 .. m /\ done + 1 # 1
    OBVIOUS
  <2>3. \A j \in 1 .. m : Payload(h)[j].no = j
    BY <2>1 DEF Unit
  <2>. QED
    BY <2>2, <2>3
<1>. QED
  BY <1>1, <1>2, <1>3, <1>4, <1>5, Zenon

(* A recv of MEMSET keeps its loop in order.                               *)
LEMMA MemsetRecvKeeps ==
    ASSUME IndInv, MemsetInv, MemsetRecv, ~ broken
    PROVE  (InOne \/ InPart \/ Overrun)'
<1>1. PICK k \in Pieces(cur.size, net) :
        /\ memory' = First(net, k) \o After(memory, k)
        /\ n_bytes' = (n_bytes + k) % U32
        /\ net' = After(net, k) /\ net # <<>> /\ n_bytes < cur.size
        /\ pc = "memset" /\ cur' = cur /\ pieces' = pieces + 1
  BY DEF MemsetRecv
<1>2. /\ cur \in Unit /\ net \in Seq(Unit) /\ n_bytes \in Nat /\ memory \in Seq(Unit)
      /\ pieces \in Nat /\ cur.size < MaxSet
  BY <1>1 DEF IndInv, TypeOK, MemsetInv
<1>3. PICK m \in Nat : m = cur.size
  BY <1>2 DEF Unit
<1>4. n_bytes < m /\ m < MaxSet /\ k \in Pieces(m, net)
  BY <1>1, <1>2, <1>3, Zenon
<1>5. k \in 1 .. Len(net) /\ k <= m
  BY <1>1, <1>2, <1>4, PiecesBound
<1>6. n_bytes' = n_bytes + k
  <2>1. n_bytes + k \in Nat /\ n_bytes + k < U32
    BY <1>2, <1>4, <1>5, StreamAssumption
  <2>. QED
    BY <1>1, <2>1, Remainder
<1>7. Untouched \/ InPart
  <2>1. ~ (n_bytes >= m) /\ n_bytes # m
    BY <1>2, <1>4
  <2>2. ~ (n_bytes >= cur.size) /\ n_bytes # cur.size
    BY <1>3, <2>1, Zenon
  <2>. QED
    BY <1>1, <2>2 DEF MemsetInv, InOne, Overrun
<1>8. Pending(cur, net, n_bytes)
  BY <1>7 DEF Untouched, InPart
<1>9. CASE n_bytes + k < m
  <2>1. Pending(cur, After(net, k), n_bytes + k)
    <3>1. n_bytes \in 0 .. m /\ k \in 0 .. Len(net) /\ n_bytes + k <= m
      BY <1>2, <1>4, <1>5, <1>9
    <3>. QED
      BY <1>2, <1>3, <1>8, <3>1, PendingAfter
  <2>2. pieces' >= 1 /\ n_bytes' \in 1 .. m - 1
    BY <1>1, <1>2, <1>5, <1>6, <1>9
  <2>3. Pending(cur, net', n_bytes')
    BY <1>1, <1>6, <2>1, Zenon
  <2>4. InPart'
    BY <1>1, <1>3, <2>2, <2>3 DEF InPart
  <2>. QED
    BY <2>4
<1>10. CASE n_bytes + k >= m /\ Untouched
  <2>1. n_bytes = 0 /\ pieces = 0 /\ Pending(cur, net, 0)
    BY <1>10 DEF Untouched
  <2>2. k = m /\ m <= Len(net)
    BY <1>5, <1>10, <2>1
  <2>3. cur.size <= Len(net)
    BY <1>3, <2>2, Zenon
  <2>4. First(First(net, cur.size) \o After(memory, cur.size), cur.size) = Payload(cur)
    BY <1>2, <2>1, <2>3, RecvFills
  <2>5. First(memory', cur.size) = Payload(cur)
    BY <1>1, <1>3, <2>2, <2>4, Zenon
  <2>6. n_bytes' = m /\ pieces' = 1
    BY <1>1, <1>6, <2>1, <2>2
  <2>7. InOne'
    BY <1>1, <1>3, <2>5, <2>6 DEF InOne
  <2>. QED
    BY <2>7
<1>11. CASE n_bytes + k >= m /\ InPart
  <2>1. pieces >= 1 /\ n_bytes \in 1 .. m - 1
    BY <1>3, <1>11 DEF InPart
  <2>2. memory' # <<>> /\ memory'[1] # Payload(cur)[1]
    BY <1>1, <1>2, <1>3, <1>5, <1>8, <2>1, RecvSpoils
  <2>3. pieces' >= 2 /\ n_bytes' >= m /\ m >= 1
    BY <1>1, <1>2, <1>6, <1>11, <2>1
  <2>4. Overrun'
    BY <1>1, <1>3, <2>2, <2>3 DEF Overrun
  <2>. QED
    BY <2>4
<1>12. n_bytes + k < m \/ n_bytes + k >= m
  BY <1>2, <1>5
<1>. QED
  BY <1>7, <1>9, <1>10, <1>11, <1>12

(* When the loop is done sysmem has the payload if it came in one piece.   *)
LEMMA DoneWhole ==
    ASSUME IndInv, MemsetInv, pc = "memset", n_bytes >= cur.size, ~ broken
    PROVE  First(memory, cur.size) = Payload(cur) <=> pieces <= 1
<1>1. /\ cur \in Unit /\ memory \in Seq(Unit) /\ n_bytes \in Nat /\ pieces \in Nat
      /\ Untouched \/ InOne \/ InPart \/ Overrun
  BY DEF IndInv, TypeOK, MemsetInv
<1>2. PICK m \in Nat : m = cur.size
  BY <1>1 DEF Unit
<1>3. n_bytes >= m
  BY <1>2, Zenon
<1>4. CASE Untouched
  <2>1. m = 0 /\ pieces <= 1
    BY <1>2, <1>3, <1>4 DEF Untouched
  <2>. QED
    BY <1>1, <1>2, <2>1, NoPayload
<1>5. CASE InOne
  BY <1>5 DEF InOne
<1>6. CASE InPart
  BY <1>2, <1>3, <1>6 DEF InPart
<1>7. CASE Overrun
  <2>1. m >= 1 /\ ~ (pieces <= 1) /\ memory # <<>> /\ memory[1] # Payload(cur)[1]
    BY <1>1, <1>2, <1>7 DEF Overrun
  <2>2. First(memory, m)[1] = memory[1]
    BY <1>1, <2>1 DEF First, Lesser
  <2>3. First(memory, cur.size) # Payload(cur)
    BY <1>2, <2>1, <2>2, Zenon
  <2>. QED
    BY <2>1, <2>3
<1>. QED
  BY <1>1, <1>4, <1>5, <1>6, <1>7

(* Every step keeps MEMSET's loop in order.                                *)
LEMMA MemsetKept ==
    ASSUME IndInv, MemsetInv, Next
    PROVE  MemsetInv'
<1>1. CASE MemsetBegin
  <2>1. /\ Command({"MEMSET"}) /\ ~ TooLong(Header) /\ net' = Tail(net)
        /\ cur' = Header /\ n_bytes' = 0 /\ pieces' = 0 /\ pc' = "memset"
        /\ UNCHANGED <<broken, patched>>
    BY <1>1 DEF MemsetBegin
  <2>2. Pending(Header, Tail(net), 0) /\ Header.size \in Nat /\ Header.cmd = "MEMSET"
    BY <2>1, CommandTakes DEF IndInv, Command
  <2>3. Header.size < MaxSet
    BY <2>1, <2>2, StreamAssumption DEF TooLong
  <2>. QED
    BY <2>1, <2>2, <2>3 DEF MemsetInv, Untouched, MemoryIsSetIfWhole
<1>2. CASE MemsetRecv
  <2>1. pc = "memset" /\ pc' = pc /\ UNCHANGED <<cur, patched, broken>>
    BY <1>2 DEF MemsetRecv
  <2>2. ~ broken => (InOne \/ InPart \/ Overrun)'
    BY <1>2, MemsetRecvKeeps
  <2>. QED
    BY <2>1, <2>2 DEF MemsetInv, MemoryIsSetIfWhole
<1>3. CASE MemsetError
  BY <1>3 DEF MemsetError, MemsetInv, MemoryIsSetIfWhole
<1>4. CASE MemsetSpin
  BY <1>4 DEF MemsetSpin, MemsetInv, MemoryIsSetIfWhole, Untouched, InOne, InPart,
     Overrun
<1>5. CASE MemsetDone
  <2>1. /\ pc = "memset" /\ n_bytes >= cur.size /\ pc' = "recv" /\ broken' = broken
        /\ patched' \in {patched, Patch}
    BY <1>5 DEF MemsetDone
  <2>2. ~ broken => (First(memory, cur.size) = Payload(cur) <=> pieces <= 1)
    BY <2>1, DoneWhole
  <2>3. /\ Patch.header = cur /\ Patch.bytes = First(memory, cur.size)
        /\ Patch.pieces = pieces
    BY DEF Patch
  <2>. QED
    BY <2>1, <2>2, <2>3 DEF MemsetInv, MemoryIsSetIfWhole
<1>6. CASE \/ Stray \/ Torn \/ Leave \/ Refuse \/ Accepts \/ Default \/ Query
           \/ DeleteDir \/ File \/ Write
  <2>1. pc' # "memset" /\ UNCHANGED <<broken, patched>>
    BY <1>6 DEF Stray, Torn, Leave, Refuse, Accepts, Default, Query, DeleteDir, File,
       OpenFile, OpenFails, CloseFile, Write, WriteNoMemory, WriteBegin, WriteFill,
       WriteChunk, WriteFails, WriteLost, Receiving, Command, memsetVars
  <2>. QED
    BY <2>1 DEF MemsetInv, MemoryIsSetIfWhole
<1>. QED
  BY <1>1, <1>2, <1>3, <1>4, <1>5, <1>6 DEF Next, Memset

(* Whatever the pieces, wherever the client leaves and however often it    *)
(* sends a MEMSET, on a connection that is not reset what is written to    *)
(* the game is the memory that was sent if that came in one piece, and     *)
(* something else if it came in more.                                      *)
THEOREM MemsetNeedsOnePiece == Spec => []MemoryIsSetIfWhole
<1>1. Init => MemsetInv
  BY DEF Init, MemsetInv, MemoryIsSetIfWhole
<1>2. IndInv /\ MemsetInv /\ [Next]_vars => MemsetInv'
  <2>1. CASE UNCHANGED vars
    BY <2>1 DEF vars, memsetVars, MemsetInv, MemoryIsSetIfWhole, Untouched, InOne,
       InPart, Overrun
  <2>2. CASE Next
    BY <2>2, MemsetKept
  <2>. QED
    BY <2>1, <2>2
<1>3. MemsetInv => MemoryIsSetIfWhole
  BY DEF MemsetInv
<1>. QED
  BY <1>1, <1>2, <1>3, StreamInvariant, PTL DEF Spec

-----------------------------------------------------------------------------
(* A result that leaves what has to stay, and tells, is as told.           *)
LEMMA KeptAsTold ==
    ASSUME NEW r, r.tree \in Tree, Dir \in Nodes,
           r.left = {n \in Nodes : n \in Below(r.tree, Dir) => n \in Kept(r.tree, Dir)},
           r.err = 0 <=> r.left \cap Below(r.tree, Dir) = {}
    PROVE  AsTold(r)
<1>. DEFINE t == r.tree
            below == [n \in Nodes |-> Below(t, n)]
            reached(n) == \A u \in t.unread \cap below[Dir] : n \notin below[u]
            stays == {n \in below[Dir] : n \in t.stuck \/ ~ reached(n)}
<1>1. below[Dir] = Below(t, Dir) /\ Below(t, Dir) \subseteq Nodes
  BY BelowSelf
<1>2. stays = Stays(t, Dir)
  BY <1>1 DEF Stays
<1>3. ASSUME NEW n \in Nodes
      PROVE  n \in Below(t, Dir) =>
                 (n \in Kept(t, Dir) <=> below[n] \cap stays # {})
  BY <1>1, <1>2 DEF Kept
<1>4. r.left = {n \in Nodes : n \in below[Dir] => below[n] \cap stays # {}}
  <2>. HIDE DEF stays, below
  <2>. QED
    BY <1>1, <1>3
<1>5. r.err = 0 <=> r.left \cap below[Dir] = {}
  <2>. HIDE DEF below
  <2>. QED
    BY <1>1
<1>. QED
  BY <1>4, <1>5, Zenon DEF AsTold

(* Whatever rmdir_recursive makes of a tree is as it tells.                *)
LEMMA RmdirAsTold ==
    ASSUME NEW t \in Tree, Dir \in Nodes
    PROVE  AsTold(Rmdir(t, Dir))
<1>1. Rmdir(t, Dir).tree = t
  BY DEF Rmdir
<1>2. /\ Rmdir(t, Dir).left =
            {n \in Nodes : n \in Below(t, Dir) => n \in Kept(t, Dir)}
      /\ Rmdir(t, Dir).err = 0 <=> Rmdir(t, Dir).left \cap Below(t, Dir) = {}
  BY RmdirLeavesWhatStays
<1>. QED
  BY <1>1, <1>2, KeptAsTold

(* What a step makes of the last result of rmdir_recursive.                *)
LEMMA DeletedKept ==
    ASSUME DeletedAsTold, [Next]_vars
    PROVE  DeletedAsTold'
<1>1. CASE deleted' = deleted
  BY <1>1 DEF DeletedAsTold
<1>2. CASE DeleteDir
  <2>1. PICK t \in Trees : deleted' = Rmdir(t, Dir)
    BY <1>2 DEF DeleteDir
  <2>2. t \in Tree /\ Dir \in Nodes
    BY StreamAssumption
  <2>. QED
    BY <2>1, <2>2, RmdirAsTold DEF DeletedAsTold
<1>3. deleted' = deleted \/ DeleteDir
  BY DEF Next, vars, Stray, Torn, Leave, Refuse, Accepts, Default, Query, File, OpenFile,
     OpenFails, CloseFile, Write, WriteNoMemory, WriteBegin, WriteFill, WriteChunk,
     WriteFails, WriteLost, Receiving, Memset, MemsetBegin, MemsetRecv,
     MemsetError, MemsetSpin, MemsetDone
<1>. QED
  BY <1>1, <1>2, <1>3

(* On every tree in which each node is in one directory, whatever of it    *)
(* resists and wherever the walk stops short, DELETE_DIR leaves what had   *)
(* to stay, and tells the client whether anything did.                     *)
THEOREM DeletesWhatItTells == Spec => []DeletedAsTold
<1>1. Init => DeletedAsTold
  BY DEF Init, DeletedAsTold
<1>. QED
  BY <1>1, DeletedKept, PTL DEF Spec

-----------------------------------------------------------------------------
(* The MEMSET at work is not too long.                                     *)
MemsetFits == pc = "memset" => cur.size < U32

(* Every step leaves only a MEMSET at work that is not too long.           *)
LEMMA FitsKept ==
    ASSUME IndInv, MemsetFits, [Next]_vars
    PROVE  MemsetFits'
<1>1. CASE MemsetBegin
  <2>1. /\ Command({"MEMSET"}) /\ ~ TooLong(Header) /\ cur' = Header
    BY <1>1 DEF MemsetBegin
  <2>2. Header.size \in Nat /\ Header.cmd = "MEMSET"
    BY <2>1, CommandTakes DEF Command, IndInv
  <2>3. Header.size < U32
    BY <2>1, <2>2, StreamAssumption DEF TooLong
  <2>. QED
    BY <2>1, <2>3 DEF MemsetFits
<1>2. CASE pc' # "memset"
  BY <1>2 DEF MemsetFits
<1>3. CASE pc' = pc /\ cur' = cur
  BY <1>3 DEF MemsetFits
<1>4. MemsetBegin \/ pc' # "memset" \/ (pc' = pc /\ cur' = cur)
  BY DEF Next, vars, Stray, Torn, Leave, Refuse, Accepts, Default, Query, DeleteDir,
     File, OpenFile, OpenFails, CloseFile, Write, WriteNoMemory, WriteBegin, WriteFill,
     WriteChunk, WriteFails, WriteLost, Memset, MemsetRecv, MemsetError, MemsetSpin,
     MemsetDone
<1>. QED
  BY <1>1, <1>2, <1>3, <1>4

(* A command, or a recv, shortens the stream.                              *)
LEMMA TakingShortens ==
    ASSUME IndInv, NEW k \in 1 .. Len(net), net' = After(net, k)
    PROVE  Len(net') < Len(net)
<1>1. net \in Seq(Unit) /\ Len(net) \in Nat /\ k \in 0 .. Len(net)
  BY DEF IndInv, TypeOK
<1>2. Len(After(net, k)) = Len(net) - k
  BY <1>1, AfterFirst
<1>. QED
  BY <1>1, <1>2

(* A command shortens the stream by its header at least.                   *)
LEMMA CommandShortens ==
    ASSUME IndInv, NEW cs, Command(cs), net' = Tail(net)
    PROVE  Len(net') < Len(net)
<1>1. net \in Seq(Unit) /\ net # <<>>
  BY DEF IndInv, TypeOK, Command
<1>2. net' = After(net, 1) /\ 1 \in 1 .. Len(net)
  BY <1>1, TailIsAfter
<1>. QED
  BY <1>2, TakingShortens

(* A step that receives shortens the stream.                               *)
LEMMA ReceiptShortens ==
    ASSUME IndInv,
           \/ Torn \/ Refuse \/ Accepts \/ Default \/ Query \/ DeleteDir \/ File
           \/ WriteNoMemory \/ WriteBegin \/ WriteFill \/ WriteChunk \/ WriteFails
           \/ MemsetBegin \/ MemsetRecv
    PROVE  Len(net') < Len(net)
<1>1. CASE \/ Torn \/ Refuse \/ Default \/ Query \/ DeleteDir \/ File
           \/ WriteNoMemory \/ WriteBegin \/ MemsetBegin
  <2>1. net' = Tail(net) /\ \E cs \in SUBSET Commands : Command(cs)
    BY <1>1 DEF Torn, Refuse, Default, Query, DeleteDir, File, OpenFile, OpenFails,
       CloseFile, WriteNoMemory, WriteBegin, MemsetBegin, Commands
  <2>. QED
    BY <2>1, CommandShortens
<1>2. CASE Accepts
  <2>1. PICK k \in Pieces(Header.size, Tail(net)) : net' = After(net, 1 + k)
    BY <1>2 DEF Accepts
  <2>2. /\ net \in Seq(Unit) /\ net # <<>> /\ Tail(net) \in Seq(Unit)
        /\ Header.size \in Nat
    BY <1>2, CommandTakes DEF Accepts, Command, IndInv, TypeOK
  <2>3. k \in 0 .. Len(Tail(net))
    BY <2>2, PiecesBound
  <2>4. 1 + k \in 1 .. Len(net)
    BY <2>2, <2>3
  <2>. QED
    BY <2>1, <2>4, TakingShortens
<1>3. CASE WriteFill \/ WriteChunk \/ WriteFails
  <2>1. Receiving /\ \E k \in Pieces(Want, net) : net' = After(net, k)
    BY <1>3 DEF WriteFill, WriteChunk, WriteFails, Receive
  <2>2. PICK k \in Pieces(Want, net) : net' = After(net, k)
    BY <2>1
  <2>. QED
    BY <2>1, <2>2, ReceivedFits, TakingShortens
<1>4. CASE MemsetRecv
  <2>1. PICK k \in Pieces(cur.size, net) : net' = After(net, k)
    BY <1>4 DEF MemsetRecv
  <2>2. /\ net \in Seq(Unit) /\ net # <<>> /\ cur \in Unit /\ n_bytes \in Nat
        /\ n_bytes < cur.size
    BY <1>4 DEF MemsetRecv, IndInv, TypeOK
  <2>3. PICK m \in Nat : m = cur.size
    BY <2>2 DEF Unit
  <2>4. m > 0
    <3>1. n_bytes < m
      BY <2>2, <2>3, Zenon
    <3>. QED
      BY <2>2, <3>1
  <2>5. k \in Pieces(m, net)
    BY <2>3, Zenon
  <2>6. k \in 1 .. Len(net)
    BY <2>2, <2>4, <2>5, PiecesBound
  <2>. QED
    BY <2>1, <2>6, TakingShortens
<1>. QED
  BY <1>1, <1>2, <1>3, <1>4

(* A failed recv brings MEMSET's count nearer to the size, from below 0.   *)
LEMMA ErrorCountsDown ==
    ASSUME IndInv, MemsetFits, MemsetError
    PROVE  net' = net /\ RoundsLeft' < RoundsLeft
<1>1. /\ pc = "memset" /\ pc' = "memset" /\ n_bytes < cur.size /\ net' = net
      /\ cur' = cur /\ n_bytes' = (n_bytes + U32 - 1) % U32
      /\ n_bytes \in 0 .. U32 - 1 /\ cur \in Unit /\ cur.size < U32
  BY DEF MemsetError, IndInv, TypeOK, MemsetFits
<1>2. PICK m \in Nat : m = cur.size
  BY <1>1 DEF Unit
<1>3. n_bytes < m /\ m < U32 /\ U32 \in Nat
  <2>1. n_bytes < m /\ m < U32
    BY <1>1, <1>2, Zenon
  <2>. QED
    BY <2>1, StreamAssumption
<1>4. RoundsLeft = 3 + n_bytes
  BY <1>1 DEF RoundsLeft
<1>5. RoundsLeft' = IF n_bytes' < m THEN 3 + n_bytes' ELSE 2
  BY <1>1, <1>2 DEF RoundsLeft
<1>6. CASE n_bytes = 0
  <2>1. n_bytes' = U32 - 1
    BY <1>1, <1>3, <1>6
  <2>. QED
    BY <1>1, <1>3, <1>4, <1>5, <1>6, <2>1
<1>7. CASE n_bytes > 0
  <2>1. n_bytes' = n_bytes - 1
    BY <1>1, <1>3, <1>7
  <2>. QED
    BY <1>1, <1>3, <1>4, <1>5, <1>7, <2>1
<1>. QED
  BY <1>1, <1>6, <1>7

(* Without something it has received each step brings the thread nearer to *)
(* its end, for any sizes, pieces and streams; only the MEMSET of a client *)
(* that has closed its connection turns without end.                       *)
THEOREM OnlyMemsetSpins == Spec => LoopsRunOut
<1>1. Init => MemsetFits
  BY DEF Init, MemsetFits
<1>2. ASSUME IndInv, MemsetFits, Next
      PROVE  \/ Len(net') < Len(net)
             \/ net' = net /\ RoundsLeft' < RoundsLeft
             \/ pc = "memset" /\ net = <<>> /\ ~ broken
  <2>1. CASE Stray \/ Leave
    BY <2>1 DEF Stray, Leave, RoundsLeft
  <2>2. CASE WriteLost
    BY <2>2 DEF WriteLost, RoundsLeft
  <2>3. CASE MemsetDone
    <3>1. /\ pc = "memset" /\ n_bytes >= cur.size /\ pc' = "recv" /\ net' = net
      BY <2>3 DEF MemsetDone
    <3>2. cur \in Unit /\ n_bytes \in Nat
      BY <1>2, <3>1 DEF IndInv, TypeOK
    <3>3. ~ (n_bytes < cur.size)
      <4>1. PICK m \in Nat : m = cur.size
        BY <3>2 DEF Unit
      <4>2. n_bytes >= m
        BY <3>1, <4>1, Zenon
      <4>3. ~ (n_bytes < m)
        BY <3>2, <4>2
      <4>. QED
        BY <4>1, <4>3, Zenon
    <3>. QED
      BY <3>1, <3>3 DEF RoundsLeft
  <2>4. CASE MemsetError
    BY <1>2, <2>4, ErrorCountsDown
  <2>5. CASE MemsetSpin
    BY <2>5 DEF MemsetSpin
  <2>6. CASE ~ (Stray \/ Leave \/ WriteLost \/ MemsetDone \/ MemsetError \/ MemsetSpin)
    BY <1>2, <2>6, ReceiptShortens DEF Next, Write, Memset
  <2>. QED
    BY <2>1, <2>2, <2>3, <2>4, <2>5, <2>6
<1>3. IndInv /\ MemsetFits /\ [Next]_vars =>
        [\/ Len(net') < Len(net)
         \/ net' = net /\ RoundsLeft' < RoundsLeft
         \/ pc = "memset" /\ net = <<>> /\ ~ broken]_vars
  BY <1>2
<1>. QED
  BY <1>1, <1>3, FitsKept, StreamInvariant, PTL DEF Spec, LoopsRunOut
=============================================================================
