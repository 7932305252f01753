------------------------------- MODULE MuxProofs ------------------------------
(***************************************************************************)
(* The multiplexing pool of Mux, for any connections, streams, queue sizes   *)
(* and bursts: stream_count is exact, no stream is handed a frame meant for  *)
(* an earlier one, what it reads has a gap only if its queue was full, and a *)
(* low priority frame is overtaken by at most Burst others.                  *)
(*                                                                         *)
(* The inductive invariant is IInv of Mux.  Good is its part over the        *)
(* records, stated for any pool p, connections c, callers st, frames hd the  *)
(* server heard and number lv of leases: a step is a composition of the      *)
(* changes below (a frame joins a queue, a stream goes, a record is          *)
(* reclaimed), and each is a lemma that Good survives it.                    *)
(***************************************************************************)
EXTENDS Mux, SequenceTheorems, FiniteSetTheorems, TLAPS

\* The invariant but for what the steps only count.
Good(p, c, st, hd, lv) ==
  /\ Typed(c, st, hd) /\ PoolOK(p, c) /\ (\A k \in Conns : ConnOK(c[k], lv)) /\ PlacesOK(c, st)
  /\ FramesOK(c, st, hd) /\ DataOK(c, st, hd)
Open(st, s) == st[s].pc \in {"opening", "live"}

\* The constants are numbers.
LEMMA MuxNumbers ==
    ASSUME MuxAssumption
    PROVE  /\ MinConnections \in Nat /\ MaxConnections \in Nat /\ MaxStreams \in Nat /\ Burst \in Nat
           /\ QueueSize \in Nat /\ DataSize \in Nat /\ MaxLeases \in Nat /\ MaxFrames \in Nat
           /\ IsFiniteSet(Streams) /\ None \notin Conns /\ None # "used"
BY DEF MuxAssumption, None

\* The streams of a connection are finitely many.
LEMMA OfFinite ==
    ASSUME MuxAssumption, NEW st, NEW k
    PROVE  IsFiniteSet(Of(st, k)) /\ Cardinality(Of(st, k)) \in Nat /\ Of(st, k) \subseteq Streams
<1>1. Of(st, k) \subseteq Streams
  BY DEF Of
<1>2. IsFiniteSet(Of(st, k))
  BY <1>1, MuxNumbers, FS_Subset
<1>. QED
  BY <1>1, <1>2, FS_CardinalityType

\* The streams of a connection are the open ones that name it.
LEMMA OfIs ==
    ASSUME NEW st, NEW k, NEW s
    PROVE  s \in Of(st, k) <=> s \in Streams /\ Open(st, s) /\ st[s].conn = k
BY DEF Of, Open

\* The fields of a connection and of a stream.
LEMMA ConnFields ==
    ASSUME NEW r \in ConnType
    PROVE  /\ r.state \in {None, "used"} /\ r.writer \in BOOLEAN /\ r.reader \in BOOLEAN
           /\ r.high \in Seq(Frame) /\ r.low \in Seq(Frame) /\ r.burst \in Nat /\ r.waited \in Nat
           /\ r.next \in Nat \ {0} /\ r.count \in Nat /\ r.ids \subseteq 1..MaxLeases /\ r.leaked \in Nat
           /\ Len(r.high) \in Nat /\ Len(r.low) \in Nat
<1>1. /\ r.state \in {None, "used"} /\ r.writer \in BOOLEAN /\ r.reader \in BOOLEAN
      /\ r.high \in Seq(Frame) /\ r.low \in Seq(Frame) /\ r.burst \in Nat /\ r.waited \in Nat
      /\ r.next \in Nat \ {0} /\ r.count \in Nat /\ r.ids \subseteq 1..MaxLeases /\ r.leaked \in Nat
  BY DEF ConnType
<1>. QED
  BY <1>1, LenProperties

\* The frames of its queues.
LEMMA ConnFrames ==
    ASSUME NEW r \in ConnType
    PROVE  /\ \A i \in 1..Len(r.high) : r.high[i] \in Frame
           /\ \A i \in 1..Len(r.low) : r.low[i] \in Frame
BY ConnFields, ElementOfSeq

\* A reclaimed record is a record, with nothing in it.
LEMMA NoConnFacts ==
    ASSUME MuxAssumption
    PROVE  /\ NoConn \in ConnType
           /\ NoConn.state = None /\ NoConn.writer = FALSE /\ NoConn.reader = FALSE
           /\ NoConn.high = <<>> /\ NoConn.low = <<>> /\ NoConn.burst = 0 /\ NoConn.waited = 0
           /\ NoConn.next = 1 /\ NoConn.count = 0 /\ NoConn.ids = {} /\ NoConn.leaked = 0
<1>1. <<>> \in Seq(Frame)
  OBVIOUS
<1>. QED
  BY <1>1 DEF NoConn, ConnType

\* A connection reclaimed is as good as new, and nobody refers to it.
LEMMA ReclaimedGood ==
    ASSUME MuxAssumption, NEW p, NEW c, NEW st, NEW hd, NEW lv \in Nat, Good(p, c, st, hd, lv)
    PROVE  Good(p, Reclaimed(c, p, st), st, hd, lv)
<1>. DEFINE d == Reclaimed(c, p, st)
            Gone(k) == ~c[k].writer /\ ~c[k].reader /\ k \notin Pooled(p) /\ Of(st, k) = {}
<1>1. /\ Typed(c, st, hd) /\ PoolOK(p, c) /\ (\A k \in Conns : ConnOK(c[k], lv)) /\ PlacesOK(c, st)
      /\ FramesOK(c, st, hd) /\ DataOK(c, st, hd)
  BY DEF Good
<1>2. \A k \in Conns : d[k] = IF Gone(k) THEN NoConn ELSE c[k]
  BY DEF Reclaimed
<1>3. d \in [Conns -> ConnType]
  BY <1>1, NoConnFacts DEF Reclaimed, Typed
<1>. HIDE DEF d, Gone
<1>4. \A s \in Streams : Open(st, s) => st[s].conn \in Conns /\ ~Gone(st[s].conn)
  <2>1. \A s \in Streams : Open(st, s) => st[s].conn \in Conns
    BY <1>1 DEF PlacesOK, Open
  <2>2. \A s \in Streams : Open(st, s) => s \in Of(st, st[s].conn)
    BY DEF Of, Open
  <2>. QED
    BY <2>1, <2>2 DEF Gone
<1>5. \A h \in hd : h.conn \in Conns /\ ~Gone(h.conn)
  BY <1>1 DEF FramesOK, HeardOK, Typed, HeardType, Gone
<1>6. \A i \in DOMAIN p : p[i] \in Conns /\ ~Gone(p[i])
  <2>1. \A i \in DOMAIN p : p[i] \in Conns
    BY <1>1 DEF PoolOK
  <2>. QED
    BY <2>1 DEF Gone, Pooled
<1>7. Typed(d, st, hd)
  BY <1>1, <1>3 DEF Typed
<1>8. PoolOK(p, d)
  BY <1>1, <1>2, <1>6 DEF PoolOK
<1>9. \A k \in Conns : ConnOK(d[k], lv)
  <2>1. ConnOK(NoConn, lv)
    <3>1. NoConn.waited <= NoConn.burst /\ NoConn.waited <= Burst /\ NoConn.next <= lv + 1 /\ NoConn.count <= MaxStreams
      BY NoConnFacts, MuxNumbers
    <3>2. Len(NoConn.high) <= QueueSize /\ Len(NoConn.low) <= QueueSize
      <4>1. Len(<<>>) = 0
        OBVIOUS
      <4>. QED
        BY <4>1, NoConnFacts, MuxNumbers
    <3>3. NoConn.ids \subseteq 1..(NoConn.next - 1)
      BY NoConnFacts
    <3>4. ~NoConn.writer /\ ~NoConn.reader
      BY NoConnFacts
    <3>. QED
      BY <3>1, <3>2, <3>3, <3>4 DEF ConnOK
  <2>. QED
    BY <1>1, <1>2, <2>1
<1>10. PlacesOK(d, st)
  <2>1. \A s \in Streams : Open(st, s) => st[s].conn \in Conns /\ d[st[s].conn].state = "used"
    BY <1>1, <1>2, <1>4 DEF PlacesOK, Open
  <2>2. ASSUME NEW k \in Conns
        PROVE  /\ d[k].count = Cardinality(Of(st, k)) + d[k].leaked
               /\ IsFiniteSet(d[k].ids) /\ Cardinality(d[k].ids) = d[k].count
               /\ \A s \in Of(st, k) : st[s].id \in d[k].ids
               /\ \A s, t \in Of(st, k) : st[s].id = st[t].id => s = t
    <3>1. CASE Gone(k)
      <4>1. Of(st, k) = {} /\ Cardinality({}) = 0 /\ IsFiniteSet({})
        BY <3>1, FS_EmptySet DEF Gone
      <4>2. d[k] = NoConn
        BY <1>2, <3>1
      <4>3. d[k].count = 0 /\ d[k].ids = {} /\ d[k].leaked = 0
        BY <4>2, NoConnFacts
      <4>. HIDE DEF Gone
      <4>4. \A s \in Of(st, k) : FALSE
        BY <4>1
      <4>. QED
        BY <4>1, <4>3, <4>4
    <3>2. CASE ~Gone(k)
      BY <1>1, <1>2, <3>2 DEF PlacesOK
    <3>. QED
      BY <3>1, <3>2
  <2>. QED
    BY <2>1, <2>2 DEF PlacesOK, Open
<1>11. FramesOK(d, st, hd)
  <2>1. \A k \in Conns : Gone(k) => Len(d[k].high) = 0 /\ Len(d[k].low) = 0
    <3>1. Len(NoConn.high) = 0 /\ Len(NoConn.low) = 0
      BY NoConnFacts
    <3>. QED
      BY <1>2, <3>1
  <2>2. \A k \in Conns : ~Gone(k) => d[k] = c[k]
    BY <1>2
  <2>3. \A k \in Conns : \A f : ~Gone(k) /\ Known(f, k, c, st) => Known(f, k, d, st)
    BY <2>2 DEF Known
  <2>4. ASSUME NEW k \in Conns
        PROVE  QueueOK(d[k].high, k, d, st) /\ QueueOK(d[k].low, k, d, st) /\ Apart(d[k].high, d[k].low)
    <3>1. CASE Gone(k)
      BY <2>1, <3>1 DEF QueueOK, Apart
    <3>2. CASE ~Gone(k)
      <4>1. QueueOK(c[k].high, k, c, st) /\ QueueOK(c[k].low, k, c, st) /\ Apart(c[k].high, c[k].low)
        BY <1>1 DEF FramesOK
      <4>. QED
        BY <2>2, <2>3, <3>2, <4>1 DEF QueueOK
    <3>. QED
      BY <3>1, <3>2
  <2>5. ASSUME NEW h \in hd PROVE HeardOK(h, d, st, hd)
    <3>1. d[h.conn] = c[h.conn] /\ h.conn \in Conns
      BY <1>5, <2>2
    <3>2. HeardOK(h, c, st, hd)
      BY <1>1 DEF FramesOK
    <3>3. Known(h, h.conn, d, st)
      BY <1>5, <2>3, <3>2 DEF HeardOK
    <3>. QED
      BY <3>1, <3>2, <3>3 DEF HeardOK
  <2>. QED
    BY <2>4, <2>5 DEF FramesOK
<1>12. DataOK(d, st, hd)
  <2>1. \A s \in Streams : Open(st, s) => d[st[s].conn] = c[st[s].conn]
    BY <1>2, <1>4
  <2>. QED
    BY <1>1, <2>1 DEF DataOK, Open
<1>. QED
  BY <1>7, <1>8, <1>9, <1>10, <1>11, <1>12 DEF Good, d

\* Only the callers that have a stream matter.
LEMMA SameOpen ==
    ASSUME NEW p, NEW c, NEW st, NEW hd, NEW lv, Good(p, c, st, hd, lv),
           NEW nst \in [Streams -> StreamType],
           \A s \in Streams : Open(nst, s) <=> Open(st, s),
           \A s \in Streams : Open(st, s) => nst[s] = st[s]
    PROVE  Good(p, c, nst, hd, lv) /\ \A k : Of(nst, k) = Of(st, k)
<1>1. /\ Typed(c, st, hd) /\ PoolOK(p, c) /\ (\A k \in Conns : ConnOK(c[k], lv)) /\ PlacesOK(c, st)
      /\ FramesOK(c, st, hd) /\ DataOK(c, st, hd)
  BY DEF Good
<1>2. ASSUME NEW k PROVE Of(nst, k) = Of(st, k) /\ \A s \in Of(st, k) : nst[s] = st[s]
  <2>1. \A s : s \in Of(nst, k) <=> s \in Of(st, k)
    BY OfIs
  <2>. QED
    BY <2>1, OfIs
<1>3. Typed(c, nst, hd)
  BY <1>1 DEF Typed
<1>4. PlacesOK(c, nst)
  <2>1. \A s \in Streams : Open(nst, s) => nst[s].conn \in Conns /\ c[nst[s].conn].state = "used"
    BY <1>1 DEF PlacesOK, Open
  <2>2. ASSUME NEW k \in Conns
        PROVE  /\ c[k].count = Cardinality(Of(nst, k)) + c[k].leaked
               /\ IsFiniteSet(c[k].ids) /\ Cardinality(c[k].ids) = c[k].count
               /\ \A s \in Of(nst, k) : nst[s].id \in c[k].ids
               /\ \A s, t \in Of(nst, k) : nst[s].id = nst[t].id => s = t
    BY <1>1, <1>2 DEF PlacesOK
  <2>. QED
    BY <2>1, <2>2 DEF PlacesOK, Open
<1>5. \A f, k : Known(f, k, c, st) => Known(f, k, c, nst)
  BY <1>2 DEF Known
<1>6. FramesOK(c, nst, hd)
  BY <1>1, <1>5 DEF FramesOK, QueueOK, HeardOK
<1>7. DataOK(c, nst, hd)
  BY <1>1 DEF DataOK, Open
<1>. QED
  BY <1>1, <1>2, <1>3, <1>4, <1>6, <1>7 DEF Good

\* What retain leaves of the pool.
InItsOrder(np, p) ==
    \A i, j \in DOMAIN np : i < j => \E x, y \in DOMAIN p : x < y /\ p[x] = np[i] /\ p[y] = np[j]
\* A pool that lost connections is as good.
LEMMA PoolKept ==
    ASSUME NEW p, NEW c, NEW st, NEW hd, NEW lv, Good(p, c, st, hd, lv), NEW np \in Seq(Conns),
           InItsOrder(np, p), Pooled(np) \subseteq Pooled(p)
    PROVE  Good(np, c, st, hd, lv)
<1>1. PoolOK(p, c) /\ DOMAIN p = 1..Len(p) /\ DOMAIN np = 1..Len(np) /\ Len(p) \in Nat /\ Len(np) \in Nat
  BY LenProperties DEF Good, PoolOK
<1>2. ASSUME NEW i \in DOMAIN np, NEW j \in DOMAIN np, i < j PROVE np[i] # np[j]
  <2>1. PICK x \in DOMAIN p, y \in DOMAIN p : x < y /\ p[x] = np[i] /\ p[y] = np[j]
    BY <1>2 DEF InItsOrder
  <2>2. x # y
    BY <1>1, <2>1
  <2>. QED
    BY <1>1, <2>1, <2>2 DEF PoolOK
<1>3. \A i, j \in DOMAIN np : np[i] = np[j] => i = j
  <2>1. \A i, j \in DOMAIN np : i = j \/ i < j \/ j < i
    BY <1>1
  <2>. QED
    BY <1>2, <2>1
<1>4. \A i \in DOMAIN np : \E x \in DOMAIN p : np[i] = p[x]
  BY DEF Pooled
<1>5. \A i \in DOMAIN np : c[np[i]].state = "used"
  BY <1>1, <1>4 DEF PoolOK
<1>. QED
  BY <1>3, <1>5 DEF Good, PoolOK

\* A connection whose queues and tasks change, and neither its places nor its numbers.
LEMMA RecordChanged ==
    ASSUME NEW p, NEW c, NEW st, NEW hd, NEW lv, Good(p, c, st, hd, lv), NEW k \in Conns,
           NEW d \in [Conns -> ConnType], \A j \in Conns \ {k} : d[j] = c[j], ConnOK(d[k], lv),
           d[k].state = c[k].state, d[k].reader = c[k].reader, d[k].next = c[k].next,
           d[k].count = c[k].count, d[k].ids = c[k].ids, d[k].leaked = c[k].leaked,
           QueueOK(d[k].high, k, c, st), QueueOK(d[k].low, k, c, st), Apart(d[k].high, d[k].low),
           \A h \in hd : h.conn = k =>
              /\ \A i \in 1..Len(d[k].high) : d[k].high[i].id # h.id
              /\ \A i \in 1..Len(d[k].low) : d[k].low[i].id # h.id
    PROVE  Good(p, d, st, hd, lv)
<1>1. /\ Typed(c, st, hd) /\ PoolOK(p, c) /\ (\A j \in Conns : ConnOK(c[j], lv)) /\ PlacesOK(c, st)
      /\ FramesOK(c, st, hd) /\ DataOK(c, st, hd)
  BY DEF Good
<1>2. \A j \in Conns : j = k \/ d[j] = c[j]
  OBVIOUS
<1>3. \A j \in Conns : /\ d[j].state = c[j].state /\ d[j].reader = c[j].reader /\ d[j].next = c[j].next
                       /\ d[j].count = c[j].count /\ d[j].ids = c[j].ids /\ d[j].leaked = c[j].leaked
  BY <1>2
<1>4. Typed(d, st, hd) /\ \A j \in Conns : ConnOK(d[j], lv)
  BY <1>1, <1>2 DEF Typed
<1>5. PoolOK(p, d)
  <2>1. \A i \in DOMAIN p : p[i] \in Conns
    BY <1>1 DEF PoolOK
  <2>. QED
    BY <1>1, <1>3, <2>1 DEF PoolOK
<1>6. PlacesOK(d, st)
  BY <1>1, <1>3 DEF PlacesOK
<1>7. \A f : \A j \in Conns : Known(f, j, c, st) => Known(f, j, d, st)
  BY <1>3 DEF Known
<1>8. FramesOK(d, st, hd)
  <2>1. ASSUME NEW j \in Conns
        PROVE  QueueOK(d[j].high, j, d, st) /\ QueueOK(d[j].low, j, d, st) /\ Apart(d[j].high, d[j].low)
    <3>1. QueueOK(d[j].high, j, c, st) /\ QueueOK(d[j].low, j, c, st) /\ Apart(d[j].high, d[j].low)
      BY <1>1, <1>2 DEF FramesOK
    <3>. QED
      BY <1>7, <3>1 DEF QueueOK
  <2>2. ASSUME NEW h \in hd PROVE HeardOK(h, d, st, hd)
    <3>1. HeardOK(h, c, st, hd) /\ h.conn \in Conns
      BY <1>1 DEF FramesOK, Typed, HeardType
    <3>2. /\ \A i \in 1..Len(d[h.conn].high) : d[h.conn].high[i].id # h.id
          /\ \A i \in 1..Len(d[h.conn].low) : d[h.conn].low[i].id # h.id
      BY <1>2, <3>1 DEF HeardOK
    <3>3. d[h.conn].reader /\ h.id # 0 /\ \A g \in hd : g.conn = h.conn /\ g.id = h.id => g = h
      BY <1>3, <3>1 DEF HeardOK
    <3>4. Known(h, h.conn, d, st)
      BY <1>7, <3>1 DEF HeardOK
    <3>. QED
      BY <3>2, <3>3, <3>4 DEF HeardOK
  <2>. QED
    BY <2>1, <2>2 DEF FramesOK
<1>9. DataOK(d, st, hd)
  <2>1. \A s \in Streams : Open(st, s) => st[s].conn \in Conns
    BY <1>1 DEF PlacesOK, Open
  <2>. QED
    BY <1>1, <1>3, <2>1 DEF DataOK, Open
<1>. QED
  BY <1>4, <1>5, <1>6, <1>8, <1>9 DEF Good

\* A frame joins a queue.
LEMMA Joined ==
    ASSUME NEW q \in Seq(Frame), NEW f \in Frame, NEW k, NEW c, NEW st, QueueOK(q, k, c, st), Known(f, k, c, st),
           f.id = 0 => f = Other,
           f.id # 0 => \A i \in 1..Len(q) : q[i].id # f.id
    PROVE  /\ QueueOK(Append(q, f), k, c, st) /\ Append(q, f) \in Seq(Frame)
           /\ Len(Append(q, f)) = Len(q) + 1 /\ Len(q) \in Nat
           /\ \A i \in 1..Len(Append(q, f)) :
                 (i \in 1..Len(q) /\ Append(q, f)[i] = q[i]) \/ (i = Len(q) + 1 /\ Append(q, f)[i] = f)
<1>. DEFINE a == Append(q, f)
<1>1. a \in Seq(Frame) /\ Len(a) = Len(q) + 1 /\ Len(q) \in Nat
  BY AppendProperties, LenProperties
<1>2. \A i \in 1..Len(a) : (i \in 1..Len(q) /\ a[i] = q[i]) \/ (i = Len(q) + 1 /\ a[i] = f)
  BY <1>1, AppendProperties
<1>. HIDE DEF a
<1>3. ASSUME NEW i \in 1..Len(a), NEW j \in 1..Len(a), a[i].id = a[j].id
      PROVE  i = j \/ a[i].id = 0
  <2>1. CASE i \in 1..Len(q) /\ a[i] = q[i] /\ j \in 1..Len(q) /\ a[j] = q[j]
    BY <1>3, <2>1 DEF QueueOK
  <2>2. CASE i \in 1..Len(q) /\ a[i] = q[i] /\ j = Len(q) + 1 /\ a[j] = f
    BY <1>3, <2>2
  <2>3. CASE j \in 1..Len(q) /\ a[j] = q[j] /\ i = Len(q) + 1 /\ a[i] = f
    BY <1>3, <2>3
  <2>. QED
    BY <1>2, <2>1, <2>2, <2>3
<1>4. \A i \in 1..Len(a) : Known(a[i], k, c, st) /\ (a[i].id = 0 => a[i] = Other)
  BY <1>2 DEF QueueOK
<1>5. QueueOK(a, k, c, st)
  BY <1>3, <1>4 DEF QueueOK
<1>. QED
  BY <1>1, <1>2, <1>5 DEF a

\* The head of a queue leaves it, and its number with it.
LEMMA Left ==
    ASSUME NEW q \in Seq(Frame), q # <<>>, NEW k, NEW c, NEW st, QueueOK(q, k, c, st)
    PROVE  /\ Tail(q) \in Seq(Frame) /\ Len(Tail(q)) = Len(q) - 1 /\ Len(q) \in Nat \ {0}
           /\ \A i \in 1..Len(Tail(q)) : i + 1 \in 1..Len(q) /\ Tail(q)[i] = q[i + 1]
           /\ QueueOK(Tail(q), k, c, st)
           /\ Head(q) = q[1] /\ Head(q) \in Frame /\ Known(Head(q), k, c, st)
           /\ Head(q).id = 0 => Head(q) = Other
           /\ Head(q).id # 0 => \A i \in 1..Len(Tail(q)) : Tail(q)[i].id # Head(q).id
<1>1. Len(q) \in Nat \ {0} /\ 1 \in 1..Len(q)
  BY EmptySeq, LenProperties
<1>2. Tail(q) \in Seq(Frame) /\ Len(Tail(q)) = Len(q) - 1
  BY HeadTailProperties, <1>1
<1>3. ASSUME NEW i \in 1..Len(Tail(q)) PROVE i + 1 \in 1..Len(q) /\ Tail(q)[i] = q[i + 1] /\ i + 1 # 1
  BY <1>1, <1>2, HeadTailProperties
<1>4. Head(q) = q[1] /\ Head(q) \in Frame
  BY <1>1, HeadTailProperties
<1>. DEFINE t == Tail(q)
<1>5. \A i \in 1..Len(t) : i + 1 \in 1..Len(q) /\ t[i] = q[i + 1] /\ i + 1 # 1
  BY <1>3
<1>. HIDE DEF t
<1>6. \A i \in 1..Len(t) : Known(t[i], k, c, st) /\ (t[i].id = 0 => t[i] = Other)
  BY <1>5 DEF QueueOK
<1>7. ASSUME NEW i \in 1..Len(t), NEW j \in 1..Len(t), t[i].id = t[j].id PROVE i = j \/ t[i].id = 0
  <2>1. i + 1 = j + 1 \/ t[i].id = 0
    <3>1. \A x, y \in 1..Len(q) : q[x].id = q[y].id => x = y \/ q[x].id = 0
      BY DEF QueueOK
    <3>2. i + 1 \in 1..Len(q) /\ j + 1 \in 1..Len(q) /\ t[i].id = q[i + 1].id /\ t[j].id = q[j + 1].id
      BY <1>5
    <3>. QED
      BY <1>7, <3>1, <3>2
  <2>. QED
    BY <2>1
<1>8. QueueOK(t, k, c, st)
  BY <1>6, <1>7 DEF QueueOK
<1>9. Known(Head(q), k, c, st) /\ (Head(q).id = 0 => Head(q) = Other)
  BY <1>1, <1>4 DEF QueueOK
<1>10. Head(q).id # 0 => \A i \in 1..Len(t) : t[i].id # Head(q).id
  BY <1>1, <1>4, <1>5 DEF QueueOK
<1>. QED
  BY <1>1, <1>2, <1>3, <1>4, <1>8, <1>9, <1>10 DEF t

\* The queues of a connection, and what the server heard on it.
LEMMA QueuesOf ==
    ASSUME NEW p, NEW c, NEW st, NEW hd, NEW lv, Good(p, c, st, hd, lv), NEW k \in Conns
    PROVE  /\ c[k] \in ConnType /\ ConnOK(c[k], lv)
           /\ QueueOK(c[k].high, k, c, st) /\ QueueOK(c[k].low, k, c, st) /\ Apart(c[k].high, c[k].low)
           /\ \A h \in hd : h.conn = k =>
                 /\ \A i \in 1..Len(c[k].high) : c[k].high[i].id # h.id
                 /\ \A i \in 1..Len(c[k].low) : c[k].low[i].id # h.id
BY DEF Good, Typed, FramesOK, HeardOK

\* A frame is sent: one without a number, or the one that opens a stream.
LEMMA Sent ==
    ASSUME MuxAssumption, NEW p, NEW c, NEW st, NEW hd, NEW lv, Good(p, c, st, hd, lv), NEW k \in Conns,
           NEW f \in Frame, Known(f, k, c, st), f.id = 0 => f = Other,
           f.id # 0 => /\ \A i \in 1..Len(c[k].high) : c[k].high[i].id # f.id
                       /\ \A i \in 1..Len(c[k].low) : c[k].low[i].id # f.id
                       /\ \A h \in hd : h.conn = k => h.id # f.id
    PROVE  /\ Len(c[k].high) < QueueSize => Good(p, [c EXCEPT ![k].high = Append(@, f)], st, hd, lv)
           /\ Len(c[k].low) < QueueSize => Good(p, [c EXCEPT ![k].low = Append(@, f)], st, hd, lv)
<1>1. /\ c[k] \in ConnType /\ ConnOK(c[k], lv) /\ c \in [Conns -> ConnType]
      /\ QueueOK(c[k].high, k, c, st) /\ QueueOK(c[k].low, k, c, st) /\ Apart(c[k].high, c[k].low)
      /\ \A h \in hd : h.conn = k =>
            /\ \A i \in 1..Len(c[k].high) : c[k].high[i].id # h.id
            /\ \A i \in 1..Len(c[k].low) : c[k].low[i].id # h.id
  BY QueuesOf, ZenonT(60) DEF Good, Typed
<1>2. c[k].high \in Seq(Frame) /\ c[k].low \in Seq(Frame) /\ Len(c[k].high) \in Nat /\ Len(c[k].low) \in Nat
  BY <1>1, ConnFields
<1>3. QueueSize \in Nat
  BY MuxNumbers
<1>4. ASSUME NEW h \in hd, h.conn = k PROVE h.id # 0
  BY <1>4 DEF Good, FramesOK, HeardOK
<1>5. ASSUME Len(c[k].high) < QueueSize PROVE Good(p, [c EXCEPT ![k].high = Append(@, f)], st, hd, lv)
  <2>. DEFINE q == Append(c[k].high, f)
              d == [c EXCEPT ![k].high = q]
  <2>1. /\ QueueOK(q, k, c, st) /\ q \in Seq(Frame) /\ Len(q) = Len(c[k].high) + 1
        /\ \A i \in 1..Len(q) : (i \in 1..Len(c[k].high) /\ q[i] = c[k].high[i]) \/ (i = Len(c[k].high) + 1 /\ q[i] = f)
    BY <1>1, <1>2, Joined
  <2>. HIDE DEF q
  <2>2. d \in [Conns -> ConnType] /\ d[k].high = q /\ d[k].low = c[k].low /\ \A j \in Conns \ {k} : d[j] = c[j]
    BY <1>1, <2>1 DEF ConnType
  <2>3. /\ d[k].state = c[k].state /\ d[k].reader = c[k].reader /\ d[k].next = c[k].next /\ d[k].writer = c[k].writer
        /\ d[k].count = c[k].count /\ d[k].ids = c[k].ids /\ d[k].leaked = c[k].leaked
        /\ d[k].burst = c[k].burst /\ d[k].waited = c[k].waited
    BY <1>1 DEF ConnType
  <2>4. [c EXCEPT ![k].high = Append(@, f)] = d
    BY DEF q
  <2>. HIDE DEF d
  <2>5. Len(q) <= QueueSize
    BY <1>2, <1>3, <1>5, <2>1
  <2>6. ConnOK(d[k], lv)
    BY <1>1, <2>2, <2>3, <2>5 DEF ConnOK
  <2>7. Apart(d[k].high, d[k].low)
    <3>1. ASSUME NEW i \in 1..Len(q), NEW j \in 1..Len(c[k].low), q[i].id = c[k].low[j].id PROVE q[i].id = 0
      <4>1. CASE i \in 1..Len(c[k].high) /\ q[i] = c[k].high[i]
        BY <1>1, <3>1, <4>1 DEF Apart
      <4>2. CASE q[i] = f
        BY <3>1, <4>2
      <4>. QED
        BY <2>1, <4>1, <4>2
    <3>. QED
      BY <2>2, <3>1 DEF Apart
  <2>8. \A h \in hd : h.conn = k =>
              /\ \A i \in 1..Len(d[k].high) : d[k].high[i].id # h.id
              /\ \A i \in 1..Len(d[k].low) : d[k].low[i].id # h.id
    BY <1>1, <1>4, <2>1, <2>2
  <2>9. QueueOK(d[k].high, k, c, st) /\ QueueOK(d[k].low, k, c, st)
    BY <1>1, <2>1, <2>2
  <2>10. Good(p, d, st, hd, lv)
    BY <2>2, <2>3, <2>6, <2>7, <2>8, <2>9, RecordChanged
  <2>. QED
    BY <2>4, <2>10
<1>6. ASSUME Len(c[k].low) < QueueSize PROVE Good(p, [c EXCEPT ![k].low = Append(@, f)], st, hd, lv)
  <2>. DEFINE q == Append(c[k].low, f)
              d == [c EXCEPT ![k].low = q]
  <2>1. /\ QueueOK(q, k, c, st) /\ q \in Seq(Frame) /\ Len(q) = Len(c[k].low) + 1
        /\ \A i \in 1..Len(q) : (i \in 1..Len(c[k].low) /\ q[i] = c[k].low[i]) \/ (i = Len(c[k].low) + 1 /\ q[i] = f)
    BY <1>1, <1>2, Joined
  <2>. HIDE DEF q
  <2>2. d \in [Conns -> ConnType] /\ d[k].low = q /\ d[k].high = c[k].high /\ \A j \in Conns \ {k} : d[j] = c[j]
    BY <1>1, <2>1 DEF ConnType
  <2>3. /\ d[k].state = c[k].state /\ d[k].reader = c[k].reader /\ d[k].next = c[k].next /\ d[k].writer = c[k].writer
        /\ d[k].count = c[k].count /\ d[k].ids = c[k].ids /\ d[k].leaked = c[k].leaked
        /\ d[k].burst = c[k].burst /\ d[k].waited = c[k].waited
    BY <1>1 DEF ConnType
  <2>4. [c EXCEPT ![k].low = Append(@, f)] = d
    BY DEF q
  <2>. HIDE DEF d
  <2>5. Len(q) <= QueueSize
    BY <1>2, <1>3, <1>6, <2>1
  <2>6. ConnOK(d[k], lv)
    BY <1>1, <2>2, <2>3, <2>5 DEF ConnOK
  <2>7. Apart(d[k].high, d[k].low)
    BY <1>1, <2>1, <2>2, SMTT(40) DEF Apart
  <2>8. \A h \in hd : h.conn = k =>
              /\ \A i \in 1..Len(d[k].high) : d[k].high[i].id # h.id
              /\ \A i \in 1..Len(d[k].low) : d[k].low[i].id # h.id
    BY <1>1, <1>4, <2>1, <2>2
  <2>9. QueueOK(d[k].high, k, c, st) /\ QueueOK(d[k].low, k, c, st)
    BY <1>1, <2>1, <2>2
  <2>10. Good(p, d, st, hd, lv)
    BY <2>2, <2>3, <2>6, <2>7, <2>8, <2>9, RecordChanged
  <2>. QED
    BY <2>4, <2>10
<1>. QED
  BY <1>5, <1>6

\* The server hears a frame that opened a stream.
LEMMA Heard ==
    ASSUME NEW p, NEW c, NEW st, NEW hd, NEW lv, Good(p, c, st, hd, lv), NEW g \in HeardType,
           g.n = 0, c[g.conn].reader, g.id # 0, Known(g, g.conn, c, st),
           \A i \in 1..Len(c[g.conn].high) : c[g.conn].high[i].id # g.id,
           \A i \in 1..Len(c[g.conn].low) : c[g.conn].low[i].id # g.id,
           \A h \in hd : h.conn = g.conn => h.id # g.id
    PROVE  Good(p, c, st, hd \union {g}, lv)
<1>. DEFINE nhd == hd \union {g}
<1>1. /\ Typed(c, st, hd) /\ FramesOK(c, st, hd) /\ DataOK(c, st, hd)
  BY DEF Good
<1>2. \A h : h \in nhd <=> h \in hd \/ h = g
  OBVIOUS
<1>. HIDE DEF nhd
<1>3. Typed(c, st, nhd)
  BY <1>1, <1>2 DEF Typed
<1>4. FramesOK(c, st, nhd)
  <2>1. HeardOK(g, c, st, nhd)
    BY <1>2 DEF HeardOK
  <2>2. ASSUME NEW h \in hd PROVE HeardOK(h, c, st, nhd)
    <3>1. HeardOK(h, c, st, hd)
      BY <1>1 DEF FramesOK
    <3>. QED
      BY <1>2, <3>1 DEF HeardOK
  <2>. QED
    BY <1>1, <1>2, <2>1, <2>2 DEF FramesOK
<1>5. DataOK(c, st, nhd)
  <2>1. ASSUME NEW s \in Streams, Open(st, s), ~st[s].full
        PROVE  \E n \in Nat :
                  /\ InOrder(st[s].data, st[s].seen, n)
                  /\ \A h \in nhd : h.conn = st[s].conn /\ h.id = st[s].id => h.n = n
                  /\ \/ \E h \in nhd : h.conn = st[s].conn /\ h.id = st[s].id
                     \/ c[st[s].conn].reader => n = 0
    <3>1. PICK n \in Nat :
                  /\ InOrder(st[s].data, st[s].seen, n)
                  /\ \A h \in hd : h.conn = st[s].conn /\ h.id = st[s].id => h.n = n
                  /\ \/ \E h \in hd : h.conn = st[s].conn /\ h.id = st[s].id
                     \/ c[st[s].conn].reader => n = 0
      BY <1>1, <2>1 DEF DataOK, Open
    <3>2. CASE g.conn = st[s].conn /\ g.id = st[s].id
      <4>1. n = 0
        BY <3>1, <3>2
      <4>. QED
        BY <1>2, <3>1, <3>2, <4>1
    <3>3. CASE ~(g.conn = st[s].conn /\ g.id = st[s].id)
      BY <1>2, <3>1, <3>3
    <3>. QED
      BY <3>2, <3>3
  <2>. QED
    BY <2>1 DEF DataOK, Open
<1>. QED
  BY <1>3, <1>4, <1>5 DEF Good, nhd

\* The writer ends, and its queues with it.
LEMMA WriterGone ==
    ASSUME MuxAssumption, NEW p, NEW c, NEW st, NEW hd, NEW lv, Good(p, c, st, hd, lv), NEW k \in Conns
    PROVE  Good(p, [c EXCEPT ![k].writer = FALSE, ![k].high = <<>>, ![k].low = <<>>,
                             ![k].burst = 0, ![k].waited = 0], st, hd, lv)
<1>. DEFINE d1 == [c EXCEPT ![k].writer = FALSE]
            d2 == [d1 EXCEPT ![k].high = <<>>]
            d3 == [d2 EXCEPT ![k].low = <<>>]
            d4 == [d3 EXCEPT ![k].burst = 0]
            d == [c EXCEPT ![k].writer = FALSE, ![k].high = <<>>, ![k].low = <<>>,
                           ![k].burst = 0, ![k].waited = 0]
<1>1. c[k] \in ConnType /\ ConnOK(c[k], lv) /\ c \in [Conns -> ConnType]
  BY QueuesOf DEF Good, Typed
<1>2. d \in [Conns -> ConnType]
  <2>1. <<>> \in Seq(Frame) /\ FALSE \in BOOLEAN
    OBVIOUS
  <2>2. d = [d4 EXCEPT ![k].waited = 0]
    OBVIOUS
  <2>3. d1 \in [Conns -> ConnType]
    BY <1>1 DEF ConnType
  <2>. HIDE DEF d1
  <2>4. d2 \in [Conns -> ConnType]
    BY <2>1, <2>3, ZenonT(60) DEF ConnType
  <2>. HIDE DEF d2
  <2>5. d3 \in [Conns -> ConnType]
    BY <2>1, <2>4, ZenonT(60) DEF ConnType
  <2>. HIDE DEF d3
  <2>6. d4 \in [Conns -> ConnType]
    BY <2>5, ZenonT(60) DEF ConnType
  <2>. HIDE DEF d4, d
  <2>. QED
    BY <2>2, <2>6, ZenonT(60) DEF ConnType
<1>3. /\ d[k].state = c[k].state /\ d[k].reader = c[k].reader /\ d[k].next = c[k].next /\ d[k].writer = FALSE
      /\ d[k].count = c[k].count /\ d[k].ids = c[k].ids /\ d[k].leaked = c[k].leaked
      /\ d[k].burst = 0 /\ d[k].waited = 0 /\ Len(d[k].high) = 0 /\ Len(d[k].low) = 0
      /\ \A j \in Conns \ {k} : d[j] = c[j]
  BY <1>1 DEF ConnType
<1>. HIDE DEF d
<1>4. ConnOK(d[k], lv)
  BY <1>1, <1>3, MuxNumbers DEF ConnOK
<1>5. QueueOK(d[k].high, k, c, st) /\ QueueOK(d[k].low, k, c, st) /\ Apart(d[k].high, d[k].low)
  BY <1>3 DEF QueueOK, Apart
<1>6. \A h \in hd : h.conn = k =>
              /\ \A i \in 1..Len(d[k].high) : d[k].high[i].id # h.id
              /\ \A i \in 1..Len(d[k].low) : d[k].low[i].id # h.id
  BY <1>3
<1>7. Good(p, d, st, hd, lv)
  BY <1>2, <1>3, <1>4, <1>5, <1>6, RecordChanged
<1>. QED
  BY <1>7 DEF d

\* The reader ends, and the server is not heard from on the connection.
LEMMA ReaderGone ==
    ASSUME NEW p, NEW c, NEW st, NEW hd, NEW lv, Good(p, c, st, hd, lv), NEW k \in Conns
    PROVE  Good(p, [c EXCEPT ![k].reader = FALSE], st, {h \in hd : h.conn # k}, lv)
<1>. DEFINE d == [c EXCEPT ![k].reader = FALSE]
            nhd == {h \in hd : h.conn # k}
<1>1. /\ Typed(c, st, hd) /\ PoolOK(p, c) /\ (\A j \in Conns : ConnOK(c[j], lv)) /\ PlacesOK(c, st)
      /\ FramesOK(c, st, hd) /\ DataOK(c, st, hd)
  BY DEF Good
<1>2. d \in [Conns -> ConnType]
  BY <1>1, ZenonT(60) DEF Typed, ConnType
<1>3. \A j \in Conns :
         /\ d[j].state = c[j].state /\ d[j].next = c[j].next /\ d[j].high = c[j].high /\ d[j].low = c[j].low
         /\ d[j].count = c[j].count /\ d[j].ids = c[j].ids /\ d[j].leaked = c[j].leaked /\ d[j].writer = c[j].writer
         /\ d[j].burst = c[j].burst /\ d[j].waited = c[j].waited
  BY <1>1 DEF Typed, ConnType
<1>4. d[k].reader = FALSE /\ \A j \in Conns \ {k} : d[j].reader = c[j].reader
  BY <1>1 DEF Typed, ConnType
<1>5. \A h : h \in nhd <=> h \in hd /\ h.conn # k
  OBVIOUS
<1>. HIDE DEF d, nhd
<1>6. Typed(d, st, nhd)
  BY <1>1, <1>2, <1>5 DEF Typed
<1>7. PoolOK(p, d)
  <2>1. \A i \in DOMAIN p : p[i] \in Conns
    BY <1>1 DEF PoolOK
  <2>. QED
    BY <1>1, <1>3, <2>1 DEF PoolOK
<1>8. ASSUME NEW j \in Conns PROVE ConnOK(d[j], lv)
  <2>1. d[j].state = None => ~d[j].writer /\ ~d[j].reader
    BY <1>1, <1>3, <1>4 DEF ConnOK
  <2>. QED
    BY <1>1, <1>3, <2>1 DEF ConnOK
<1>9. PlacesOK(d, st)
  BY <1>1, <1>3 DEF PlacesOK
<1>10. \A f : \A j \in Conns : Known(f, j, c, st) => Known(f, j, d, st)
  BY <1>3 DEF Known
<1>11. FramesOK(d, st, nhd)
  <2>1. ASSUME NEW j \in Conns
        PROVE  QueueOK(d[j].high, j, d, st) /\ QueueOK(d[j].low, j, d, st) /\ Apart(d[j].high, d[j].low)
    <3>1. QueueOK(d[j].high, j, c, st) /\ QueueOK(d[j].low, j, c, st) /\ Apart(d[j].high, d[j].low)
      BY <1>1, <1>3 DEF FramesOK
    <3>. QED
      BY <1>10, <3>1 DEF QueueOK
  <2>2. ASSUME NEW h \in nhd PROVE HeardOK(h, d, st, nhd)
    <3>1. HeardOK(h, c, st, hd) /\ h.conn \in Conns \ {k} /\ h \in hd
      BY <1>1, <1>5 DEF FramesOK, Typed, HeardType
    <3>2. d[h.conn].reader /\ h.id # 0 /\ \A g \in nhd : g.conn = h.conn /\ g.id = h.id => g = h
      BY <1>4, <1>5, <3>1 DEF HeardOK
    <3>3. Known(h, h.conn, d, st)
      BY <1>10, <3>1 DEF HeardOK
    <3>. QED
      BY <1>3, <3>1, <3>2, <3>3 DEF HeardOK
  <2>. QED
    BY <2>1, <2>2 DEF FramesOK
<1>12. DataOK(d, st, nhd)
  <2>1. ASSUME NEW s \in Streams, Open(st, s), ~st[s].full
        PROVE  \E n \in Nat :
                  /\ InOrder(st[s].data, st[s].seen, n)
                  /\ \A h \in nhd : h.conn = st[s].conn /\ h.id = st[s].id => h.n = n
                  /\ \/ \E h \in nhd : h.conn = st[s].conn /\ h.id = st[s].id
                     \/ d[st[s].conn].reader => n = 0
    <3>1. PICK n \in Nat :
                  /\ InOrder(st[s].data, st[s].seen, n)
                  /\ \A h \in hd : h.conn = st[s].conn /\ h.id = st[s].id => h.n = n
                  /\ \/ \E h \in hd : h.conn = st[s].conn /\ h.id = st[s].id
                     \/ c[st[s].conn].reader => n = 0
      BY <1>1, <2>1 DEF DataOK, Open
    <3>2. st[s].conn \in Conns
      BY <1>1, <2>1 DEF PlacesOK, Open
    <3>3. CASE st[s].conn = k
      BY <1>4, <1>5, <3>1, <3>3
    <3>4. CASE st[s].conn # k
      BY <1>4, <1>5, <3>1, <3>2, <3>4
    <3>. QED
      BY <3>3, <3>4
  <2>. QED
    BY <2>1 DEF DataOK, Open
<1>. QED
  BY <1>6, <1>7, <1>8, <1>9, <1>11, <1>12 DEF Good, d, nhd

\* The writer takes a frame from the low queue.
LEMMA LowTaken ==
    ASSUME MuxAssumption, NEW p, NEW c, NEW st, NEW hd, NEW lv, Good(p, c, st, hd, lv), NEW k \in Conns,
           c[k].low # <<>>
    PROVE  Good(p, [c EXCEPT ![k].low = Tail(@), ![k].burst = 0, ![k].waited = 0], st, hd, lv)
<1>. DEFINE q == Tail(c[k].low)
            d1 == [c EXCEPT ![k].low = q]
            d2 == [d1 EXCEPT ![k].burst = 0]
            d == [c EXCEPT ![k].low = Tail(@), ![k].burst = 0, ![k].waited = 0]
<1>1. c[k] \in ConnType /\ ConnOK(c[k], lv) /\ c \in [Conns -> ConnType]
  BY QueuesOf DEF Good, Typed
<1>2. /\ QueueOK(c[k].high, k, c, st) /\ QueueOK(c[k].low, k, c, st) /\ Apart(c[k].high, c[k].low)
      /\ \A h \in hd : h.conn = k =>
            /\ \A i \in 1..Len(c[k].high) : c[k].high[i].id # h.id
            /\ \A i \in 1..Len(c[k].low) : c[k].low[i].id # h.id
  BY QueuesOf
<1>3. c[k].low \in Seq(Frame) /\ Len(c[k].low) \in Nat
  BY <1>1, ConnFields
<1>4. /\ q \in Seq(Frame) /\ Len(q) = Len(c[k].low) - 1 /\ QueueOK(q, k, c, st)
      /\ \A i \in 1..Len(q) : i + 1 \in 1..Len(c[k].low) /\ q[i] = c[k].low[i + 1]
  BY <1>2, <1>3, Left
<1>. HIDE DEF q
<1>5. d \in [Conns -> ConnType]
  <2>1. d = [d2 EXCEPT ![k].waited = 0]
    BY DEF q
  <2>2. d1 \in [Conns -> ConnType]
    BY <1>1, <1>4 DEF ConnType
  <2>. HIDE DEF d1
  <2>3. d2 \in [Conns -> ConnType]
    BY <2>2, ZenonT(60) DEF ConnType
  <2>. HIDE DEF d2, d
  <2>. QED
    BY <2>1, <2>3, ZenonT(60) DEF ConnType
<1>6. /\ d[k].state = c[k].state /\ d[k].reader = c[k].reader /\ d[k].next = c[k].next /\ d[k].writer = c[k].writer
      /\ d[k].count = c[k].count /\ d[k].ids = c[k].ids /\ d[k].leaked = c[k].leaked
      /\ d[k].burst = 0 /\ d[k].waited = 0 /\ d[k].high = c[k].high /\ d[k].low = q
      /\ \A j \in Conns \ {k} : d[j] = c[j]
  BY <1>1 DEF ConnType, q
<1>. HIDE DEF d
<1>7. ConnOK(d[k], lv)
  BY <1>1, <1>3, <1>4, <1>6, MuxNumbers DEF ConnOK
<1>8. QueueOK(d[k].high, k, c, st) /\ QueueOK(d[k].low, k, c, st) /\ Apart(d[k].high, d[k].low)
  BY <1>2, <1>4, <1>6, SMTT(40) DEF Apart
<1>9. \A h \in hd : h.conn = k =>
              /\ \A i \in 1..Len(d[k].high) : d[k].high[i].id # h.id
              /\ \A i \in 1..Len(d[k].low) : d[k].low[i].id # h.id
  BY <1>2, <1>4, <1>6, SMTT(40)
<1>10. Good(p, d, st, hd, lv)
  BY <1>5, <1>6, <1>7, <1>8, <1>9, RecordChanged
<1>. QED
  BY <1>10 DEF d

\* It takes one from the high queue: no more than Burst of them while another waits.
LEMMA HighTaken ==
    ASSUME MuxAssumption, NEW p, NEW c, NEW st, NEW hd, NEW lv, Good(p, c, st, hd, lv), NEW k \in Conns,
           c[k].high # <<>>, c[k].low # <<>> => c[k].burst < Burst
    PROVE  Good(p, [c EXCEPT ![k].high = Tail(@), ![k].burst = IF @ < Burst + 1 THEN @ + 1 ELSE @,
                             ![k].waited = IF c[k].low # <<>> THEN @ + 1 ELSE 0], st, hd, lv)
<1>. DEFINE q == Tail(c[k].high)
            b == IF c[k].burst < Burst + 1 THEN c[k].burst + 1 ELSE c[k].burst
            w == IF c[k].low # <<>> THEN c[k].waited + 1 ELSE 0
            d1 == [c EXCEPT ![k].high = q]
            d2 == [d1 EXCEPT ![k].burst = b]
            d == [c EXCEPT ![k].high = Tail(@), ![k].burst = IF @ < Burst + 1 THEN @ + 1 ELSE @,
                             ![k].waited = IF c[k].low # <<>> THEN @ + 1 ELSE 0]
<1>1. c[k] \in ConnType /\ ConnOK(c[k], lv) /\ c \in [Conns -> ConnType]
  BY QueuesOf DEF Good, Typed
<1>2. /\ QueueOK(c[k].high, k, c, st) /\ QueueOK(c[k].low, k, c, st) /\ Apart(c[k].high, c[k].low)
      /\ \A h \in hd : h.conn = k =>
            /\ \A i \in 1..Len(c[k].high) : c[k].high[i].id # h.id
            /\ \A i \in 1..Len(c[k].low) : c[k].low[i].id # h.id
  BY QueuesOf
<1>3. /\ c[k].high \in Seq(Frame) /\ Len(c[k].high) \in Nat /\ c[k].burst \in Nat /\ c[k].waited \in Nat
      /\ Burst \in Nat /\ QueueSize \in Nat
  BY <1>1, ConnFields, MuxNumbers
<1>4. /\ q \in Seq(Frame) /\ Len(q) = Len(c[k].high) - 1 /\ QueueOK(q, k, c, st)
      /\ \A i \in 1..Len(q) : i + 1 \in 1..Len(c[k].high) /\ q[i] = c[k].high[i + 1]
  BY <1>2, <1>3, Left
<1>5. b \in Nat /\ w \in Nat /\ w <= b /\ w <= Burst
  BY <1>1, <1>3 DEF ConnOK
<1>6. d = [d2 EXCEPT ![k].waited = w]
  BY <1>1 DEF ConnType
<1>7. /\ d[k].state = c[k].state /\ d[k].reader = c[k].reader /\ d[k].next = c[k].next /\ d[k].writer = c[k].writer
      /\ d[k].count = c[k].count /\ d[k].ids = c[k].ids /\ d[k].leaked = c[k].leaked
      /\ d[k].burst = b /\ d[k].waited = w /\ d[k].high = q /\ d[k].low = c[k].low
      /\ \A j \in Conns \ {k} : d[j] = c[j]
  BY <1>1, <1>6 DEF ConnType
<1>. HIDE DEF q, b, w, d
<1>8. d \in [Conns -> ConnType]
  <2>1. d1 \in [Conns -> ConnType]
    BY <1>1, <1>4 DEF ConnType
  <2>. HIDE DEF d1
  <2>2. d2 \in [Conns -> ConnType]
    BY <1>5, <2>1, ZenonT(60) DEF ConnType
  <2>. HIDE DEF d2
  <2>. QED
    BY <1>5, <1>6, <2>2, ZenonT(60) DEF ConnType
<1>9. ConnOK(d[k], lv)
  BY <1>1, <1>3, <1>4, <1>5, <1>7 DEF ConnOK
<1>10. QueueOK(d[k].high, k, c, st) /\ QueueOK(d[k].low, k, c, st) /\ Apart(d[k].high, d[k].low)
  BY <1>2, <1>4, <1>7, SMTT(40) DEF Apart
<1>11. \A h \in hd : h.conn = k =>
              /\ \A i \in 1..Len(d[k].high) : d[k].high[i].id # h.id
              /\ \A i \in 1..Len(d[k].low) : d[k].low[i].id # h.id
  BY <1>2, <1>4, <1>7
<1>12. Good(p, d, st, hd, lv)
  BY <1>7, <1>8, <1>9, <1>10, <1>11, RecordChanged
<1>. QED
  BY <1>12 DEF d

\* A new connection joins the pool: nothing refers to it.
LEMMA Joins ==
    ASSUME MuxAssumption, NEW p, NEW c, NEW st, NEW hd, NEW lv \in Nat, Good(p, c, st, hd, lv), NEW k \in Conns,
           c[k].state = None
    PROVE  Good(Append(p, k), [c EXCEPT ![k] = NewConn], st, hd, lv)
<1>. DEFINE d == [c EXCEPT ![k] = NewConn]
            np == Append(p, k)
<1>1. /\ Typed(c, st, hd) /\ PoolOK(p, c) /\ (\A j \in Conns : ConnOK(c[j], lv)) /\ PlacesOK(c, st)
      /\ FramesOK(c, st, hd) /\ DataOK(c, st, hd)
  BY DEF Good
<1>2. /\ NewConn \in ConnType /\ NewConn.state = "used" /\ NewConn.next = 1 /\ NewConn.count = 0
      /\ NewConn.ids = {} /\ NewConn.leaked = 0 /\ NewConn.burst = 0 /\ NewConn.waited = 0
      /\ Len(NewConn.high) = 0 /\ Len(NewConn.low) = 0
  <2>1. <<>> \in Seq(Frame)
    OBVIOUS
  <2>. QED
    BY <2>1 DEF NewConn, ConnType
<1>3. d \in [Conns -> ConnType] /\ d[k] = NewConn /\ \A j \in Conns : j = k \/ d[j] = c[j]
  BY <1>1, <1>2 DEF Typed
<1>4. ~c[k].reader /\ None # "used"
  BY <1>1, MuxNumbers DEF ConnOK
<1>5. \A s \in Streams : Open(st, s) => st[s].conn \in Conns \ {k}
  BY <1>1, <1>4 DEF PlacesOK, Open
<1>6. \A h \in hd : h.conn \in Conns \ {k}
  BY <1>1, <1>4 DEF FramesOK, HeardOK, Typed, HeardType
<1>. HIDE DEF d, np
<1>7. Typed(d, st, hd)
  BY <1>1, <1>3 DEF Typed
<1>8. PoolOK(np, d)
  <2>1. /\ p \in Seq(Conns) /\ Len(p) \in Nat /\ np \in Seq(Conns) /\ Len(np) = Len(p) + 1
        /\ DOMAIN p = 1..Len(p) /\ DOMAIN np = 1..Len(np)
    BY <1>1, AppendProperties, LenProperties DEF PoolOK, np
  <2>2. \A i \in 1..Len(np) : (i \in 1..Len(p) /\ np[i] = p[i]) \/ (i = Len(p) + 1 /\ np[i] = k)
    BY <1>1, <2>1, AppendProperties DEF PoolOK, np
  <2>3. \A i \in 1..Len(p) : p[i] \in Conns /\ p[i] # k
    BY <1>1, <1>4, <2>1 DEF PoolOK
  <2>4. \A i, j \in DOMAIN np : np[i] = np[j] => i = j
    BY <1>1, <2>1, <2>2, <2>3 DEF PoolOK
  <2>5. \A i \in DOMAIN np : d[np[i]].state = "used"
    BY <1>1, <1>2, <1>3, <2>1, <2>2, <2>3 DEF PoolOK
  <2>. QED
    BY <2>1, <2>4, <2>5 DEF PoolOK
<1>9. \A j \in Conns : ConnOK(d[j], lv)
  <2>1. ConnOK(NewConn, lv)
    BY <1>2, <1>4, MuxNumbers DEF ConnOK
  <2>. QED
    BY <1>1, <1>3, <2>1
<1>10. PlacesOK(d, st)
  <2>1. \A s \in Streams : Open(st, s) => st[s].conn \in Conns /\ d[st[s].conn].state = "used"
    BY <1>1, <1>3, <1>5 DEF PlacesOK, Open
  <2>2. ASSUME NEW j \in Conns
        PROVE  /\ d[j].count = Cardinality(Of(st, j)) + d[j].leaked
               /\ IsFiniteSet(d[j].ids) /\ Cardinality(d[j].ids) = d[j].count
               /\ \A s \in Of(st, j) : st[s].id \in d[j].ids
               /\ \A s, t \in Of(st, j) : st[s].id = st[t].id => s = t
    <3>1. CASE j = k
      <4>1. Of(st, j) = {} /\ Cardinality({}) = 0 /\ IsFiniteSet({})
        BY <1>5, <3>1, OfIs, FS_EmptySet
      <4>2. d[j].count = 0 /\ d[j].ids = {} /\ d[j].leaked = 0
        BY <1>2, <1>3, <3>1
      <4>3. \A s \in Of(st, j) : FALSE
        BY <4>1
      <4>. QED
        BY <4>1, <4>2, <4>3
    <3>2. CASE j # k
      BY <1>1, <1>3, <3>2 DEF PlacesOK
    <3>. QED
      BY <3>1, <3>2
  <2>. QED
    BY <2>1, <2>2 DEF PlacesOK, Open
<1>11. FramesOK(d, st, hd)
  <2>1. \A j \in Conns : \A f : j # k /\ Known(f, j, c, st) => Known(f, j, d, st)
    BY <1>3 DEF Known
  <2>2. ASSUME NEW j \in Conns
        PROVE  QueueOK(d[j].high, j, d, st) /\ QueueOK(d[j].low, j, d, st) /\ Apart(d[j].high, d[j].low)
    <3>1. CASE j = k
      BY <1>2, <1>3, <3>1 DEF QueueOK, Apart
    <3>2. CASE j # k
      <4>1. QueueOK(c[j].high, j, c, st) /\ QueueOK(c[j].low, j, c, st) /\ Apart(c[j].high, c[j].low)
        BY <1>1 DEF FramesOK
      <4>. QED
        BY <1>3, <2>1, <3>2, <4>1 DEF QueueOK
    <3>. QED
      BY <3>1, <3>2
  <2>3. ASSUME NEW h \in hd PROVE HeardOK(h, d, st, hd)
    <3>1. HeardOK(h, c, st, hd)
      BY <1>1 DEF FramesOK
    <3>2. d[h.conn] = c[h.conn]
      BY <1>3, <1>6
    <3>3. Known(h, h.conn, d, st)
      BY <1>6, <2>1, <3>1 DEF HeardOK
    <3>. QED
      BY <3>1, <3>2, <3>3 DEF HeardOK
  <2>. QED
    BY <2>2, <2>3 DEF FramesOK
<1>12. DataOK(d, st, hd)
  <2>1. \A s \in Streams : Open(st, s) => d[st[s].conn] = c[st[s].conn]
    BY <1>3, <1>5
  <2>. QED
    BY <1>1, <2>1 DEF DataOK, Open
<1>. QED
  BY <1>7, <1>8, <1>9, <1>10, <1>11, <1>12 DEF Good, d, np

\* A stream's number is its connection's, and above 0.
LEMMA StreamPlace ==
    ASSUME NEW p, NEW c, NEW st, NEW hd, NEW lv, Good(p, c, st, hd, lv), NEW s \in Streams, Open(st, s)
    PROVE  /\ st[s].conn \in Conns /\ s \in Of(st, st[s].conn) /\ c[st[s].conn].state = "used"
           /\ st[s].id \in c[st[s].conn].ids /\ st[s].id \in 1..(c[st[s].conn].next - 1)
           /\ st[s] \in StreamType /\ c[st[s].conn] \in ConnType
           /\ \A t \in Of(st, st[s].conn) : st[t].id = st[s].id => t = s
<1>1. st[s].conn \in Conns /\ c[st[s].conn].state = "used" /\ s \in Of(st, st[s].conn)
  BY DEF Good, PlacesOK, Open, Of
<1>2. st[s].id \in c[st[s].conn].ids /\ \A t \in Of(st, st[s].conn) : st[t].id = st[s].id => t = s
  BY <1>1 DEF Good, PlacesOK
<1>3. c[st[s].conn].ids \subseteq 1..(c[st[s].conn].next - 1)
  BY <1>1 DEF Good, ConnOK
<1>. QED
  BY <1>1, <1>2, <1>3 DEF Good, Typed

\* A stream is handed out: no frame has its number yet.
LEMMA GoesLive ==
    ASSUME NEW p, NEW c, NEW st, NEW hd, NEW lv, Good(p, c, st, hd, lv), NEW s \in Streams, st[s].pc = "opening"
    PROVE  LET k == st[s].conn
               f == [id |-> st[s].id, lease |-> st[s].lease]
               nst == [st EXCEPT ![s].pc = "live"]
           IN /\ Good(p, c, nst, hd, lv) /\ (\A j : Of(nst, j) = Of(st, j))
              /\ k \in Conns /\ f \in Frame /\ f.id # 0 /\ Known(f, k, c, nst)
              /\ \A i \in 1..Len(c[k].high) : c[k].high[i].id # f.id
              /\ \A i \in 1..Len(c[k].low) : c[k].low[i].id # f.id
              /\ \A h \in hd : h.conn = k => h.id # f.id
<1>. DEFINE k == st[s].conn
            f == [id |-> st[s].id, lease |-> st[s].lease]
            nst == [st EXCEPT ![s].pc = "live"]
<1>1. /\ Typed(c, st, hd) /\ PoolOK(p, c) /\ (\A j \in Conns : ConnOK(c[j], lv)) /\ PlacesOK(c, st)
      /\ FramesOK(c, st, hd) /\ DataOK(c, st, hd)
  BY DEF Good
<1>2. Open(st, s)
  BY DEF Open
<1>3. /\ k \in Conns /\ s \in Of(st, k) /\ st[s].id \in 1..(c[k].next - 1) /\ st[s] \in StreamType /\ c[k] \in ConnType
      /\ \A t \in Of(st, k) : st[t].id = st[s].id => t = s
  BY <1>2, StreamPlace
<1>4. /\ nst \in [Streams -> StreamType] /\ \A t \in Streams \ {s} : nst[t] = st[t]
  BY <1>1, <1>3 DEF Typed, StreamType
<1>5. /\ nst[s].pc = "live" /\ nst[s].conn = k /\ nst[s].id = st[s].id /\ nst[s].lease = st[s].lease
      /\ nst[s].data = st[s].data /\ nst[s].seen = st[s].seen /\ nst[s].full = st[s].full
  BY <1>1, <1>3 DEF Typed, StreamType
<1>. HIDE DEF nst
<1>6. \A t \in Streams : /\ nst[t].conn = st[t].conn /\ nst[t].id = st[t].id /\ nst[t].lease = st[t].lease
                         /\ nst[t].data = st[t].data /\ nst[t].seen = st[t].seen /\ nst[t].full = st[t].full
                         /\ (Open(nst, t) <=> Open(st, t)) /\ (st[t].pc = "live" => nst[t].pc = "live")
  BY <1>2, <1>4, <1>5 DEF Open
<1>. HIDE DEF k
<1>7. ASSUME NEW j PROVE Of(nst, j) = Of(st, j)
  <2>1. \A t : t \in Of(nst, j) <=> t \in Of(st, j)
    BY <1>6, OfIs
  <2>. QED
    BY <2>1
<1>8. \A j \in Conns : \A g : Known(g, j, c, st) => Known(g, j, c, nst)
  <2>1. ASSUME NEW j \in Conns, NEW g, Known(g, j, c, st), NEW t \in Of(nst, j), nst[t].id = g.id
        PROVE  nst[t].pc = "live" /\ nst[t].lease = g.lease
    <3>1. t \in Of(st, j) /\ t \in Streams
      BY <1>7, OfIs
    <3>. QED
      BY <1>6, <2>1, <3>1 DEF Known
  <2>. QED
    BY <2>1 DEF Known
<1>9. \A g : Known(g, k, c, st) => g.id # st[s].id
  BY <1>3 DEF Known
<1>10. Typed(c, nst, hd)
  BY <1>1, <1>4 DEF Typed
<1>11. PlacesOK(c, nst)
  <2>1. \A t \in Streams : Open(nst, t) => nst[t].conn \in Conns /\ c[nst[t].conn].state = "used"
    BY <1>1, <1>6 DEF PlacesOK, Open
  <2>2. ASSUME NEW j \in Conns
        PROVE  /\ c[j].count = Cardinality(Of(nst, j)) + c[j].leaked
               /\ IsFiniteSet(c[j].ids) /\ Cardinality(c[j].ids) = c[j].count
               /\ \A t \in Of(nst, j) : nst[t].id \in c[j].ids
               /\ \A t, u \in Of(nst, j) : nst[t].id = nst[u].id => t = u
    <3>1. \A t \in Of(st, j) : nst[t].id = st[t].id
      BY <1>6, OfIs
    <3>. QED
      BY <1>1, <1>7, <3>1 DEF PlacesOK
  <2>. QED
    BY <2>1, <2>2 DEF PlacesOK, Open
<1>12. FramesOK(c, nst, hd)
  <2>1. \A j \in Conns : QueueOK(c[j].high, j, c, nst) /\ QueueOK(c[j].low, j, c, nst)
    BY <1>1, <1>8 DEF FramesOK, QueueOK
  <2>2. \A h \in hd : HeardOK(h, c, nst, hd)
    BY <1>1, <1>8 DEF FramesOK, HeardOK, Typed, HeardType
  <2>. QED
    BY <1>1, <2>1, <2>2 DEF FramesOK
<1>13. DataOK(c, nst, hd)
  BY <1>1, <1>6 DEF DataOK, Open
<1>14. Good(p, c, nst, hd, lv)
  BY <1>1, <1>10, <1>11, <1>12, <1>13 DEF Good
<1>15. f \in Frame /\ f.id # 0 /\ f.id = st[s].id /\ f.lease = st[s].lease
  BY <1>3 DEF StreamType, Frame
<1>. HIDE DEF f
<1>16. Known(f, k, c, nst)
  <2>1. f.id < c[k].next
    BY <1>3, <1>15 DEF ConnType
  <2>2. ASSUME NEW t \in Of(nst, k), nst[t].id = f.id PROVE t = s
    BY <1>3, <1>6, <1>7, <1>15, <2>2, OfIs
  <2>. QED
    BY <1>5, <1>15, <2>1, <2>2 DEF Known
<1>17. /\ \A i \in 1..Len(c[k].high) : c[k].high[i].id # f.id
       /\ \A i \in 1..Len(c[k].low) : c[k].low[i].id # f.id
       /\ \A h \in hd : h.conn = k => h.id # f.id
  BY <1>1, <1>3, <1>9, <1>15 DEF FramesOK, QueueOK, HeardOK
<1>. QED
  BY <1>3, <1>7, <1>14, <1>15, <1>16, <1>17 DEF nst, k, f

\* A caller gets a place and a number that no frame has.
LEMMA PlacedGood ==
    ASSUME MuxAssumption, NEW p, NEW c, NEW st, NEW hd, NEW lv \in Nat, Good(p, c, st, hd, lv), lv + 1 <= MaxLeases,
           NEW s \in Streams, ~Open(st, s), NEW k \in Conns, c[k].state = "used", c[k].count < MaxStreams,
           NEW udp \in BOOLEAN
    PROVE  LET id == c[k].next
               nst == [st EXCEPT ![s] = NewStream(k, id, udp, lv + 1)]
               d == [c EXCEPT ![k].next = @ + 1, ![k].count = @ + 1, ![k].ids = @ \union {id}]
           IN Good(p, d, nst, hd, lv + 1)
<1>. DEFINE id == c[k].next
            new == NewStream(k, id, udp, lv + 1)
            nst == [st EXCEPT ![s] = new]
            n1 == id + 1
            c1 == c[k].count + 1
            d1 == [c EXCEPT ![k].next = n1]
            d2 == [d1 EXCEPT ![k].count = c1]
            d == [c EXCEPT ![k].next = @ + 1, ![k].count = @ + 1, ![k].ids = @ \union {id}]
<1>1. /\ Typed(c, st, hd) /\ PoolOK(p, c) /\ (\A j \in Conns : ConnOK(c[j], lv)) /\ PlacesOK(c, st)
      /\ FramesOK(c, st, hd) /\ DataOK(c, st, hd)
  BY DEF Good
<1>2. c[k] \in ConnType /\ ConnOK(c[k], lv) /\ c \in [Conns -> ConnType] /\ st \in [Streams -> StreamType]
  BY <1>1 DEF Typed
<1>3. /\ id \in Nat /\ id # 0 /\ id <= MaxLeases /\ MaxLeases \in Nat /\ lv + 1 \in 0..MaxLeases
      /\ c[k].count \in Nat /\ c[k].leaked \in Nat /\ c[k].ids \subseteq 1..(id - 1) /\ c[k].ids \subseteq 1..MaxLeases
      /\ id + 1 \in Nat \ {0} /\ id + 1 <= lv + 2 /\ c[k].count + 1 \in Nat /\ c[k].count + 1 <= MaxStreams
  <2>1. id \in Nat \ {0} /\ c[k].count \in Nat /\ c[k].leaked \in Nat /\ c[k].ids \subseteq 1..MaxLeases
    BY <1>2, ConnFields
  <2>2. MaxLeases \in Nat /\ MaxStreams \in Nat
    BY MuxNumbers
  <2>3. id <= lv + 1 /\ c[k].ids \subseteq 1..(id - 1)
    BY <1>2 DEF ConnOK
  <2>. HIDE DEF id
  <2>. QED
    BY <2>1, <2>2, <2>3
<1>4. /\ new \in StreamType /\ new.pc = "opening" /\ new.conn = k /\ new.id = id /\ new.data = <<>>
      /\ new.seen = 0 /\ new.full = FALSE
  <2>1. <<>> \in Seq(0..MaxFrames)
    OBVIOUS
  <2>. QED
    BY <1>3, <2>1 DEF NewStream, StreamType
<1>. HIDE DEF new
<1>5. nst \in [Streams -> StreamType] /\ nst[s] = new /\ \A t \in Streams \ {s} : nst[t] = st[t]
  BY <1>2, <1>4
<1>6. d \in [Conns -> ConnType]
  <2>1. d = [d2 EXCEPT ![k].ids = @ \union {id}]
    OBVIOUS
  <2>2. n1 \in Nat \ {0} /\ c1 \in Nat
    BY <1>3
  <2>. HIDE DEF n1, c1
  <2>3. d1 \in [Conns -> ConnType] /\ d1[k].ids = c[k].ids
    BY <1>2, <2>2 DEF ConnType
  <2>. HIDE DEF d1
  <2>4. d2 \in [Conns -> ConnType] /\ d2[k].ids = c[k].ids
    BY <2>2, <2>3, ZenonT(60) DEF ConnType
  <2>5. c[k].ids \union {id} \subseteq 1..MaxLeases
    BY <1>3
  <2>. HIDE DEF d2, d, id
  <2>. QED
    BY <2>1, <2>4, <2>5, ZenonT(60) DEF ConnType
<1>7. /\ d[k].state = c[k].state /\ d[k].reader = c[k].reader /\ d[k].next = id + 1 /\ d[k].writer = c[k].writer
      /\ d[k].count = c[k].count + 1 /\ d[k].ids = c[k].ids \union {id} /\ d[k].leaked = c[k].leaked
      /\ d[k].burst = c[k].burst /\ d[k].waited = c[k].waited /\ d[k].high = c[k].high /\ d[k].low = c[k].low
      /\ \A j \in Conns \ {k} : d[j] = c[j]
  BY <1>2 DEF ConnType
<1>8. \A j \in Conns : /\ d[j].state = c[j].state /\ d[j].reader = c[j].reader /\ d[j].high = c[j].high /\ d[j].low = c[j].low
                       /\ d[j].next \in Nat /\ c[j].next \in Nat /\ d[j].next >= c[j].next
  <2>1. \A j \in Conns : c[j].next \in Nat
    BY <1>2 DEF ConnType
  <2>2. d[k].next \in Nat /\ d[k].next >= c[k].next
    BY <1>3, <1>7
  <2>3. \A j \in Conns : j = k \/ d[j] = c[j]
    BY <1>7
  <2>. HIDE DEF d
  <2>4. ASSUME NEW j \in Conns, j # k PROVE d[j].next \in Nat /\ d[j].next >= c[j].next
    BY <2>1, <2>3, <2>4
  <2>. QED
    BY <1>7, <2>1, <2>2, <2>3, <2>4
<1>9. \A t \in Streams : t = s \/ nst[t] = st[t]
  BY <1>5
<1>10. Open(nst, s) /\ nst[s].conn = k /\ nst[s].id = id /\ nst[s].data = <<>> /\ nst[s].seen = 0 /\ nst[s].full = FALSE
  BY <1>4, <1>5 DEF Open
<1>. HIDE DEF d, nst
<1>11. Of(nst, k) = Of(st, k) \union {s} /\ s \notin Of(st, k) /\ \A j \in Conns : j # k => Of(nst, j) = Of(st, j)
  <2>1. \A t : \A j \in Conns : t \in Of(nst, j) <=> (t \in Of(st, j) \/ (t = s /\ j = k))
    BY <1>9, <1>10, OfIs DEF Open
  <2>2. s \notin Of(st, k)
    BY OfIs
  <2>3. Of(nst, k) = Of(st, k) \union {s}
    BY <2>1
  <2>4. ASSUME NEW j \in Conns, j # k PROVE Of(nst, j) = Of(st, j)
    BY <2>1, <2>4
  <2>. QED
    BY <2>2, <2>3, <2>4
<1>12. Typed(d, nst, hd)
  BY <1>1, <1>5, <1>6 DEF Typed
<1>13. PoolOK(p, d)
  <2>1. \A i \in DOMAIN p : p[i] \in Conns
    BY <1>1 DEF PoolOK
  <2>. QED
    BY <1>1, <1>8, <2>1 DEF PoolOK
<1>14. ASSUME NEW j \in Conns PROVE ConnOK(d[j], lv + 1)
  <2>1. CASE j = k
    <3>1. d[k].ids \subseteq 1..(d[k].next - 1)
      <4>1. \A x \in 1..(id - 1) : x \in 1..id
        BY <1>3
      <4>2. id \in 1..id /\ d[k].next - 1 = id
        BY <1>3, <1>7
      <4>. QED
        BY <1>3, <1>7, <4>1, <4>2
    <3>2. d[k].next <= lv + 2 /\ d[k].count <= MaxStreams
      BY <1>3, <1>7
    <3>. QED
      BY <1>2, <1>7, <2>1, <3>1, <3>2 DEF ConnOK
  <2>2. CASE j # k
    <3>1. d[j] = c[j] /\ ConnOK(c[j], lv) /\ c[j].next \in Nat
      BY <1>1, <1>7, <1>8, <2>2
    <3>. QED
      BY <3>1 DEF ConnOK
  <2>. QED
    BY <2>1, <2>2
<1>15. PlacesOK(d, nst)
  <2>1. \A t \in Streams : Open(nst, t) => nst[t].conn \in Conns /\ d[nst[t].conn].state = "used"
    <3>1. \A t \in Streams : Open(st, t) => st[t].conn \in Conns /\ c[st[t].conn].state = "used"
      BY <1>1 DEF PlacesOK, Open
    <3>. QED
      BY <1>8, <1>9, <1>10, <3>1 DEF Open
  <2>2. ASSUME NEW j \in Conns
        PROVE  /\ d[j].count = Cardinality(Of(nst, j)) + d[j].leaked
               /\ IsFiniteSet(d[j].ids) /\ Cardinality(d[j].ids) = d[j].count
               /\ \A t \in Of(nst, j) : nst[t].id \in d[j].ids
               /\ \A t, u \in Of(nst, j) : nst[t].id = nst[u].id => t = u
    <3>1. /\ c[j].count = Cardinality(Of(st, j)) + c[j].leaked
          /\ IsFiniteSet(c[j].ids) /\ Cardinality(c[j].ids) = c[j].count
          /\ \A t \in Of(st, j) : st[t].id \in c[j].ids
          /\ \A t, u \in Of(st, j) : st[t].id = st[u].id => t = u
      BY <1>1 DEF PlacesOK
    <3>2. CASE j = k
      <4>1. Cardinality(Of(nst, k)) = Cardinality(Of(st, k)) + 1 /\ Cardinality(Of(st, k)) \in Nat
        BY <1>11, OfFinite, FS_AddElement
      <4>2. id \notin c[k].ids
        BY <1>3
      <4>3. IsFiniteSet(d[k].ids) /\ Cardinality(d[k].ids) = c[k].count + 1
        <5>1. IsFiniteSet(c[k].ids) /\ Cardinality(c[k].ids) = c[k].count
          BY <3>1, <3>2
        <5>2. IsFiniteSet(c[k].ids \union {id}) /\ Cardinality(c[k].ids \union {id}) = Cardinality(c[k].ids) + 1
          BY <4>2, <5>1, FS_AddElement
        <5>. QED
          BY <1>7, <5>1, <5>2
      <4>4. d[k].count = Cardinality(Of(nst, k)) + d[k].leaked
        BY <1>3, <1>7, <3>1, <3>2, <4>1
      <4>5. ASSUME NEW t \in Of(nst, k)
            PROVE  (t = s /\ nst[t].id = id) \/ (t \in Of(st, k) /\ nst[t].id = st[t].id /\ nst[t].id \in c[k].ids)
        BY <1>9, <1>10, <1>11, <3>1, <3>2, OfIs
      <4>6. \A t \in Of(nst, k) : nst[t].id \in d[k].ids
        BY <1>7, <4>5
      <4>7. \A t, u \in Of(nst, k) : nst[t].id = nst[u].id => t = u
        BY <3>1, <3>2, <4>2, <4>5
      <4>. QED
        BY <1>7, <3>2, <4>3, <4>4, <4>6, <4>7
    <3>3. CASE j # k
      <4>1. Of(nst, j) = Of(st, j) /\ d[j] = c[j] /\ \A t \in Of(st, j) : nst[t] = st[t]
        BY <1>7, <1>9, <1>10, <1>11, <3>3, OfIs
      <4>. QED
        BY <3>1, <4>1
    <3>. QED
      BY <3>2, <3>3
  <2>. QED
    BY <2>1, <2>2 DEF PlacesOK, Open
<1>16. ASSUME NEW j \in Conns, NEW f, Known(f, j, c, st), f.id \in Nat PROVE Known(f, j, d, nst)
  <2>1. f.id < d[j].next /\ f.id < c[j].next
    BY <1>8, <1>16 DEF Known
  <2>2. ASSUME NEW t \in Of(nst, j), nst[t].id = f.id PROVE nst[t].pc = "live" /\ nst[t].lease = f.lease
    <3>1. t # s
      <4>1. t = s => j = k /\ nst[t].id = id
        BY <1>10, OfIs
      <4>. QED
        BY <2>1, <2>2, <4>1, <1>16, <1>3
    <3>2. t \in Of(st, j) /\ nst[t] = st[t]
      BY <1>9, <1>11, <3>1, OfIs, <2>2
    <3>. QED
      BY <1>16, <2>2, <3>2 DEF Known
  <2>. QED
    BY <2>1, <2>2 DEF Known
<1>17. FramesOK(d, nst, hd)
  <2>1. ASSUME NEW j \in Conns
        PROVE  QueueOK(d[j].high, j, d, nst) /\ QueueOK(d[j].low, j, d, nst) /\ Apart(d[j].high, d[j].low)
    <3>1. QueueOK(c[j].high, j, c, st) /\ QueueOK(c[j].low, j, c, st) /\ Apart(c[j].high, c[j].low)
      BY <1>1 DEF FramesOK
    <3>2. /\ \A i \in 1..Len(c[j].high) : c[j].high[i].id \in Nat
          /\ \A i \in 1..Len(c[j].low) : c[j].low[i].id \in Nat
      BY <1>2, ConnFrames DEF Frame
    <3>3. QueueOK(c[j].high, j, d, nst)
      BY <1>16, <3>1, <3>2 DEF QueueOK
    <3>4. QueueOK(c[j].low, j, d, nst)
      BY <1>16, <3>1, <3>2 DEF QueueOK
    <3>. QED
      BY <1>8, <3>1, <3>3, <3>4
  <2>2. ASSUME NEW h \in hd PROVE HeardOK(h, d, nst, hd)
    <3>1. HeardOK(h, c, st, hd) /\ h.conn \in Conns /\ h.id \in Nat
      BY <1>1 DEF FramesOK, Typed, HeardType
    <3>2. Known(h, h.conn, d, nst)
      BY <1>16, <3>1 DEF HeardOK
    <3>. QED
      BY <1>8, <3>1, <3>2 DEF HeardOK
  <2>. QED
    BY <2>1, <2>2 DEF FramesOK
<1>18. DataOK(d, nst, hd)
  <2>1. ASSUME NEW t \in Streams, Open(nst, t), ~nst[t].full
        PROVE  \E n \in Nat :
                  /\ InOrder(nst[t].data, nst[t].seen, n)
                  /\ \A h \in hd : h.conn = nst[t].conn /\ h.id = nst[t].id => h.n = n
                  /\ \/ \E h \in hd : h.conn = nst[t].conn /\ h.id = nst[t].id
                     \/ d[nst[t].conn].reader => n = 0
    <3>1. CASE t = s
      <4>1. InOrder(nst[s].data, nst[s].seen, 0)
        <5>1. InOrder(<<>>, 0, 0)
          BY DEF InOrder
        <5>. QED
          BY <1>10, <5>1
      <4>2. ASSUME NEW h \in hd PROVE ~(h.conn = k /\ h.id = id)
        <5>1. h.conn = k => h.id < c[k].next /\ h.id \in Nat
          BY <1>1 DEF FramesOK, HeardOK, Known, Typed, HeardType
        <5>. QED
          BY <5>1, <1>3
      <4>. QED
        BY <1>10, <3>1, <4>1, <4>2
    <3>2. CASE t # s
      <4>1. nst[t] = st[t] /\ Open(st, t)
        BY <1>9, <2>1, <3>2 DEF Open
      <4>2. st[t].conn \in Conns
        BY <1>1, <4>1 DEF PlacesOK, Open
      <4>3. PICK n \in Nat :
                  /\ InOrder(st[t].data, st[t].seen, n)
                  /\ \A h \in hd : h.conn = st[t].conn /\ h.id = st[t].id => h.n = n
                  /\ \/ \E h \in hd : h.conn = st[t].conn /\ h.id = st[t].id
                     \/ c[st[t].conn].reader => n = 0
        BY <1>1, <2>1, <4>1 DEF DataOK, Open
      <4>. QED
        BY <1>8, <4>1, <4>2, <4>3
    <3>. QED
      BY <3>1, <3>2
  <2>. QED
    BY <2>1 DEF DataOK, Open
<1>. QED
  BY <1>12, <1>13, <1>14, <1>15, <1>17, <1>18 DEF Good, d, nst, new, id

\* A caller without a stream is a caller.
LEMMA NoStreamFacts ==
    ASSUME MuxAssumption
    PROVE  NoStream \in StreamType /\ NoStream.pc = "idle" /\ NoStream.data = <<>>
<1>1. <<>> \in Seq(0..MaxFrames) /\ 0 \in 0..MaxLeases
  BY MuxNumbers
<1>. QED
  BY <1>1 DEF NoStream, StreamType

\* d is c but for the place with number id on k, which is given back or lost.
PlaceGone(c, d, k, id) ==
    /\ d \in [Conns -> ConnType] /\ \A j \in Conns \ {k} : d[j] = c[j]
    /\ d[k].state = c[k].state /\ d[k].reader = c[k].reader /\ d[k].writer = c[k].writer /\ d[k].next = c[k].next
    /\ d[k].high = c[k].high /\ d[k].low = c[k].low /\ d[k].burst = c[k].burst /\ d[k].waited = c[k].waited
    /\ \/ d[k].ids = c[k].ids \ {id} /\ d[k].count = c[k].count - 1 /\ d[k].leaked = c[k].leaked
       \/ d[k].ids = c[k].ids /\ d[k].count = c[k].count /\ d[k].leaked = c[k].leaked + 1

\* A stream goes, and its place with it.
LEMMA StreamGone ==
    ASSUME MuxAssumption, NEW p, NEW c, NEW st, NEW hd, NEW lv \in Nat, Good(p, c, st, hd, lv),
           NEW s \in Streams, Open(st, s), NEW d, PlaceGone(c, d, st[s].conn, st[s].id)
    PROVE  Good(p, d, [st EXCEPT ![s] = NoStream], hd, lv)
<1>. DEFINE nst == [st EXCEPT ![s] = NoStream]
            k == st[s].conn
<1>1. /\ Typed(c, st, hd) /\ PoolOK(p, c) /\ (\A j \in Conns : ConnOK(c[j], lv)) /\ PlacesOK(c, st)
      /\ FramesOK(c, st, hd) /\ DataOK(c, st, hd)
  BY DEF Good
<1>2. /\ k \in Conns /\ s \in Of(st, k) /\ st[s].id \in c[k].ids /\ c[k] \in ConnType /\ ConnOK(c[k], lv)
      /\ \A t \in Of(st, k) : st[t].id = st[s].id => t = s
  <2>1. /\ st[s].conn \in Conns /\ s \in Of(st, st[s].conn) /\ st[s].id \in c[st[s].conn].ids
        /\ c[st[s].conn] \in ConnType /\ \A t \in Of(st, st[s].conn) : st[t].id = st[s].id => t = s
    BY StreamPlace
  <2>. QED
    BY <1>1, <2>1
<1>. HIDE DEF k
<1>0. PlaceGone(c, d, k, st[s].id)
  BY DEF k
<1>same. /\ d \in [Conns -> ConnType] /\ \A j \in Conns \ {k} : d[j] = c[j]
         /\ d[k].state = c[k].state /\ d[k].reader = c[k].reader /\ d[k].writer = c[k].writer /\ d[k].next = c[k].next
         /\ d[k].high = c[k].high /\ d[k].low = c[k].low /\ d[k].burst = c[k].burst /\ d[k].waited = c[k].waited
  BY <1>0 DEF PlaceGone
<1>gone. \/ d[k].ids = c[k].ids \ {st[s].id} /\ d[k].count = c[k].count - 1 /\ d[k].leaked = c[k].leaked
         \/ d[k].ids = c[k].ids /\ d[k].count = c[k].count /\ d[k].leaked = c[k].leaked + 1
  BY <1>0 DEF PlaceGone
<1>3. c[k].count \in Nat /\ c[k].leaked \in Nat /\ c[k].ids \subseteq 1..(c[k].next - 1) /\ c[k].count <= MaxStreams
  BY <1>2, ConnFields DEF ConnOK
<1>4. nst \in [Streams -> StreamType] /\ nst[s] = NoStream /\ \A t \in Streams : t = s \/ nst[t] = st[t]
  BY <1>1, NoStreamFacts DEF Typed
<1>5. ~Open(nst, s)
  BY <1>4, NoStreamFacts DEF Open
<1>6. \A j \in Conns : /\ d[j].state = c[j].state /\ d[j].reader = c[j].reader /\ d[j].next = c[j].next
                       /\ d[j].high = c[j].high /\ d[j].low = c[j].low
  BY <1>same
<1>. HIDE DEF nst
<1>7. Of(nst, k) = Of(st, k) \ {s} /\ \A j \in Conns : j # k => Of(nst, j) = Of(st, j)
  <2>1. \A t : \A j \in Conns : t \in Of(nst, j) <=> (t \in Of(st, j) /\ t # s)
    BY <1>4, <1>5, OfIs DEF Open
  <2>2. Of(nst, k) = Of(st, k) \ {s}
    BY <1>2, <2>1
  <2>3. ASSUME NEW j \in Conns, j # k PROVE Of(nst, j) = Of(st, j)
    <3>1. s \notin Of(st, j)
      BY <2>3, OfIs DEF k
    <3>. QED
      BY <2>1, <3>1
  <2>. QED
    BY <2>2, <2>3
<1>8. Typed(d, nst, hd)
  BY <1>1, <1>4, <1>same DEF Typed
<1>9. PoolOK(p, d)
  <2>1. \A i \in DOMAIN p : p[i] \in Conns
    BY <1>1 DEF PoolOK
  <2>. QED
    BY <1>1, <1>6, <2>1 DEF PoolOK
<1>10. ASSUME NEW j \in Conns PROVE ConnOK(d[j], lv)
  <2>1. CASE j = k
    <3>1. d[k].ids \subseteq 1..(d[k].next - 1)
      BY <1>3, <1>same, <1>gone
    <3>2. d[k].count <= MaxStreams
      BY <1>3, <1>gone, MuxNumbers
    <3>. QED
      BY <1>2, <1>same, <2>1, <3>1, <3>2 DEF ConnOK
  <2>2. CASE j # k
    BY <1>1, <1>same, <2>2
  <2>. QED
    BY <2>1, <2>2
<1>11. \A j \in Conns : \A t \in Of(nst, j) : nst[t] = st[t] /\ t \in Of(st, j) /\ t # s
  <2>1. ASSUME NEW j \in Conns, NEW t \in Of(nst, j) PROVE t # s /\ t \in Streams
    BY <1>5, OfIs
  <2>2. ASSUME NEW j \in Conns, NEW t \in Of(nst, j) PROVE t \in Of(st, j)
    <3>1. CASE j = k
      BY <1>7, <3>1
    <3>2. CASE j # k
      BY <1>7, <3>2
    <3>. QED
      BY <3>1, <3>2
  <2>. QED
    BY <1>4, <2>1, <2>2
<1>12. PlacesOK(d, nst)
  <2>1. \A t \in Streams : Open(nst, t) => nst[t].conn \in Conns /\ d[nst[t].conn].state = "used"
    <3>1. \A t \in Streams : Open(nst, t) => nst[t] = st[t] /\ Open(st, t)
      BY <1>4, <1>5 DEF Open
    <3>2. \A t \in Streams : Open(st, t) => st[t].conn \in Conns /\ c[st[t].conn].state = "used"
      BY <1>1 DEF PlacesOK, Open
    <3>. QED
      BY <1>6, <3>1, <3>2
  <2>2. ASSUME NEW j \in Conns
        PROVE  /\ d[j].count = Cardinality(Of(nst, j)) + d[j].leaked
               /\ IsFiniteSet(d[j].ids) /\ Cardinality(d[j].ids) = d[j].count
               /\ \A t \in Of(nst, j) : nst[t].id \in d[j].ids
               /\ \A t, u \in Of(nst, j) : nst[t].id = nst[u].id => t = u
    <3>1. /\ c[j].count = Cardinality(Of(st, j)) + c[j].leaked
          /\ IsFiniteSet(c[j].ids) /\ Cardinality(c[j].ids) = c[j].count
          /\ \A t \in Of(st, j) : st[t].id \in c[j].ids
          /\ \A t, u \in Of(st, j) : st[t].id = st[u].id => t = u
      BY <1>1 DEF PlacesOK
    <3>2. \A t, u \in Of(nst, j) : nst[t].id = nst[u].id => t = u
      BY <1>11, <3>1
    <3>3. CASE j = k
      <4>1. Cardinality(Of(nst, k)) = Cardinality(Of(st, k)) - 1 /\ Cardinality(Of(st, k)) \in Nat
        <5>1. IsFiniteSet(Of(st, k)) /\ Cardinality(Of(st, k)) \in Nat
          BY OfFinite
        <5>. QED
          BY <1>2, <1>7, <5>1, FS_RemoveElement, ZenonT(60)
      <4>2. CASE d[k].ids = c[k].ids \ {st[s].id} /\ d[k].count = c[k].count - 1 /\ d[k].leaked = c[k].leaked
        <5>1. IsFiniteSet(c[k].ids) /\ Cardinality(c[k].ids) = c[k].count
          BY <3>1, <3>3
        <5>2. IsFiniteSet(d[k].ids) /\ Cardinality(d[k].ids) = c[k].count - 1
          <6>1. /\ IsFiniteSet(c[k].ids \ {st[s].id})
                /\ Cardinality(c[k].ids \ {st[s].id}) = Cardinality(c[k].ids) - 1
            BY <1>2, <5>1, FS_RemoveElement
          <6>. QED
            BY <4>2, <5>1, <6>1
        <5>3. d[k].count = Cardinality(Of(nst, k)) + d[k].leaked
          <6>1. c[k].count = Cardinality(Of(st, k)) + c[k].leaked
            BY <3>1, <3>3
          <6>. QED
            BY <1>3, <4>1, <4>2, <6>1
        <5>4. \A t \in Of(nst, k) : nst[t].id \in d[k].ids
          BY <1>2, <1>11, <3>1, <3>3, <4>2, SMTT(40)
        <5>. QED
          BY <3>2, <3>3, <4>2, <5>2, <5>3, <5>4
      <4>3. CASE d[k].ids = c[k].ids /\ d[k].count = c[k].count /\ d[k].leaked = c[k].leaked + 1
        <5>1. d[k].count = Cardinality(Of(nst, k)) + d[k].leaked
          BY <1>3, <3>1, <3>3, <4>1, <4>3
        <5>2. \A t \in Of(nst, k) : nst[t].id \in d[k].ids
          BY <1>2, <1>11, <3>1, <3>3, <4>3
        <5>. QED
          BY <3>1, <3>2, <3>3, <4>3, <5>1, <5>2
      <4>. QED
        BY <1>gone, <4>2, <4>3
    <3>4. CASE j # k
      <4>1. Of(nst, j) = Of(st, j) /\ d[j] = c[j]
        BY <1>7, <1>same, <3>4
      <4>. QED
        BY <1>11, <3>1, <3>2, <4>1
    <3>. QED
      BY <3>3, <3>4
  <2>. QED
    BY <2>1, <2>2 DEF PlacesOK, Open
<1>13. ASSUME NEW j \in Conns, NEW f, Known(f, j, c, st) PROVE Known(f, j, d, nst)
  BY <1>6, <1>11, <1>13 DEF Known
<1>14. FramesOK(d, nst, hd)
  <2>1. ASSUME NEW j \in Conns
        PROVE  QueueOK(d[j].high, j, d, nst) /\ QueueOK(d[j].low, j, d, nst) /\ Apart(d[j].high, d[j].low)
    <3>1. QueueOK(c[j].high, j, c, st) /\ QueueOK(c[j].low, j, c, st) /\ Apart(c[j].high, c[j].low)
      BY <1>1 DEF FramesOK
    <3>2. QueueOK(c[j].high, j, d, nst)
      BY <1>13, <3>1 DEF QueueOK
    <3>3. QueueOK(c[j].low, j, d, nst)
      BY <1>13, <3>1 DEF QueueOK
    <3>. QED
      BY <1>6, <3>1, <3>2, <3>3
  <2>2. ASSUME NEW h \in hd PROVE HeardOK(h, d, nst, hd)
    <3>1. HeardOK(h, c, st, hd) /\ h.conn \in Conns
      BY <1>1 DEF FramesOK, Typed, HeardType
    <3>2. Known(h, h.conn, d, nst)
      BY <1>13, <3>1 DEF HeardOK
    <3>3. /\ d[h.conn].reader = c[h.conn].reader
          /\ d[h.conn].high = c[h.conn].high /\ d[h.conn].low = c[h.conn].low
      BY <1>6, <3>1
    <3>. QED
      BY <3>1, <3>2, <3>3 DEF HeardOK
  <2>. QED
    BY <2>1, <2>2 DEF FramesOK
<1>15. DataOK(d, nst, hd)
  <2>1. \A t \in Streams : Open(nst, t) => nst[t] = st[t] /\ Open(st, t)
    BY <1>4, <1>5 DEF Open
  <2>2. \A t \in Streams : Open(st, t) => d[st[t].conn].reader = c[st[t].conn].reader
    BY <1>1, <1>6 DEF PlacesOK, Open
  <2>3. ASSUME NEW t \in Streams, Open(nst, t), ~nst[t].full
        PROVE  \E n \in Nat :
                  /\ InOrder(nst[t].data, nst[t].seen, n)
                  /\ \A h \in hd : h.conn = nst[t].conn /\ h.id = nst[t].id => h.n = n
                  /\ \/ \E h \in hd : h.conn = nst[t].conn /\ h.id = nst[t].id
                     \/ d[nst[t].conn].reader => n = 0
    <3>1. nst[t] = st[t] /\ Open(st, t) /\ d[st[t].conn].reader = c[st[t].conn].reader
      BY <2>1, <2>2, <2>3
    <3>2. \E n \in Nat :
              /\ InOrder(st[t].data, st[t].seen, n)
              /\ \A h \in hd : h.conn = st[t].conn /\ h.id = st[t].id => h.n = n
              /\ \/ \E h \in hd : h.conn = st[t].conn /\ h.id = st[t].id
                 \/ c[st[t].conn].reader => n = 0
      BY <1>1, <2>3, <3>1 DEF DataOK, Open
    <3>. QED
      BY <3>1, <3>2
  <2>. QED
    BY <2>3 DEF DataOK, Open
<1>. QED
  BY <1>8, <1>9, <1>10, <1>12, <1>14, <1>15 DEF Good, nst

\* The end of the stream, or the next chunk, behind chunks in order.
LEMMA AppendInOrder ==
    ASSUME NEW q \in Seq(0..MaxFrames), NEW seen \in Nat, NEW n \in Nat, InOrder(q, seen, n)
    PROVE  InOrder(Append(q, 0), seen, n) /\ InOrder(Append(q, n + 1), seen, n + 1)
<1>1. ASSUME NEW e PROVE LET a == Append(q, e)
                         IN /\ Len(q) \in Nat /\ Len(a) = Len(q) + 1 /\ a[Len(q) + 1] = e
                            /\ \A i \in 1..Len(q) : a[i] = q[i] /\ q[i] \in Nat
  <2>1. Len(q) \in Nat /\ \A i \in 1..Len(q) : q[i] \in Nat
    <3>1. \A i \in 1..Len(q) : q[i] \in 0..MaxFrames
      BY ElementOfSeq
    <3>. QED
      BY <3>1, LenProperties
  <2>2. Len(Append(q, e)) = Len(q) + 1 /\ Append(q, e)[Len(q) + 1] = e /\ \A i \in 1..Len(q) : Append(q, e)[i] = q[i]
    OBVIOUS
  <2>. QED
    BY <2>1, <2>2
<1>2. InOrder(Append(q, 0), seen, n)
  <2>. DEFINE a == Append(q, 0)
  <2>1. /\ Len(q) \in Nat /\ Len(a) = Len(q) + 1 /\ a[Len(q) + 1] = 0
        /\ \A i \in 1..Len(q) : a[i] = q[i] /\ q[i] \in Nat
    BY <1>1
  <2>. HIDE DEF a
  <2>2. \A i \in 1..Len(a) : a[i] # 0 => i \in 1..Len(q) /\ a[i] = q[i]
    BY <2>1
  <2>3. \A i \in 1..Len(a) : a[i] # 0 => seen < a[i] /\ a[i] <= n
    BY <2>2 DEF InOrder
  <2>4. \A i, j \in 1..Len(a) : i < j /\ a[i] # 0 /\ a[j] # 0 => a[i] < a[j]
    BY <2>2 DEF InOrder
  <2>5. ASSUME NEW v \in (seen + 1)..n PROVE \E i \in 1..Len(a) : a[i] = v
    <3>1. PICK i \in 1..Len(q) : q[i] = v
      BY DEF InOrder
    <3>2. i \in 1..Len(a) /\ a[i] = v
      BY <2>1, <3>1
    <3>. QED
      BY <3>2
  <2>. QED
    BY <2>3, <2>4, <2>5 DEF InOrder, a
<1>3. InOrder(Append(q, n + 1), seen, n + 1)
  <2>. DEFINE a == Append(q, n + 1)
  <2>1. /\ Len(q) \in Nat /\ Len(a) = Len(q) + 1 /\ a[Len(q) + 1] = n + 1
        /\ \A i \in 1..Len(q) : a[i] = q[i] /\ q[i] \in Nat
    BY <1>1
  <2>. HIDE DEF a
  <2>2. \A i \in 1..Len(a) : (i \in 1..Len(q) /\ a[i] = q[i] /\ q[i] \in Nat) \/ (i = Len(q) + 1 /\ a[i] = n + 1)
    BY <2>1
  <2>3. ASSUME NEW i \in 1..Len(a), a[i] # 0 PROVE seen < a[i] /\ a[i] <= n + 1
    <3>1. CASE i \in 1..Len(q) /\ a[i] = q[i] /\ q[i] \in Nat
      <4>1. seen < q[i] /\ q[i] <= n
        BY <2>3, <3>1 DEF InOrder
      <4>. QED
        BY <3>1, <4>1
    <3>2. CASE i = Len(q) + 1 /\ a[i] = n + 1
      BY <3>2 DEF InOrder
    <3>. QED
      BY <2>2, <3>1, <3>2
  <2>4. ASSUME NEW i \in 1..Len(a), NEW j \in 1..Len(a), i < j, a[i] # 0, a[j] # 0 PROVE a[i] < a[j]
    <3>1. i \in 1..Len(q) /\ a[i] = q[i] /\ q[i] \in Nat
      BY <2>1, <2>4
    <3>2. CASE j \in 1..Len(q) /\ a[j] = q[j] /\ q[j] \in Nat
      BY <2>4, <3>1, <3>2 DEF InOrder
    <3>3. CASE j = Len(q) + 1 /\ a[j] = n + 1
      <4>1. q[i] <= n
        BY <2>4, <3>1 DEF InOrder
      <4>. QED
        BY <3>1, <3>3, <4>1
    <3>. QED
      BY <2>2, <3>2, <3>3
  <2>5. ASSUME NEW v \in (seen + 1)..(n + 1) PROVE \E i \in 1..Len(a) : a[i] = v
    <3>1. CASE v = n + 1
      <4>1. Len(q) + 1 \in 1..Len(a)
        BY <2>1
      <4>. QED
        BY <2>1, <3>1, <4>1
    <3>2. CASE v # n + 1
      <4>1. v \in (seen + 1)..n
        BY <3>2
      <4>2. PICK i \in 1..Len(q) : q[i] = v
        BY <4>1 DEF InOrder
      <4>3. i \in 1..Len(a) /\ a[i] = v
        BY <2>1, <4>2
      <4>. QED
        BY <4>3
    <3>. QED
      BY <3>1, <3>2
  <2>6. seen <= n + 1
    BY DEF InOrder
  <2>. QED
    BY <2>3, <2>4, <2>5, <2>6 DEF InOrder, a
<1>. QED
  BY <1>2, <1>3

\* The first of chunks in order is the next one, and the others are in order behind it.
LEMMA TailInOrder ==
    ASSUME NEW q \in Seq(0..MaxFrames), q # <<>>, NEW seen \in Nat, NEW n \in Nat, InOrder(q, seen, n)
    PROVE  /\ Head(q) = 0 => InOrder(Tail(q), seen, n)
           /\ Head(q) # 0 => Head(q) = seen + 1 /\ InOrder(Tail(q), Head(q), n)
<1>. DEFINE t == Tail(q)
            f == Head(q)
<1>1. Len(q) \in Nat /\ Len(q) # 0 /\ \A i \in 1..Len(q) : q[i] \in Nat
  <2>1. \A i \in 1..Len(q) : q[i] \in 0..MaxFrames
    BY ElementOfSeq
  <2>. QED
    BY <2>1, EmptySeq, LenProperties
<1>2. Len(t) = Len(q) - 1 /\ f = q[1] /\ \A i \in 1..Len(t) : t[i] = q[i + 1]
  BY <1>1, HeadTailProperties
<1>. HIDE DEF t, f
<1>3. 1 \in 1..Len(q) /\ f \in Nat /\ \A i \in 1..Len(t) : i + 1 \in 1..Len(q) /\ i \in Nat /\ t[i] \in Nat /\ t[i] = q[i + 1]
  BY <1>1, <1>2
<1>4. \A i \in 1..Len(q) : i = 1 \/ (i - 1 \in 1..Len(t) /\ t[i - 1] = q[i])
  <2>1. ASSUME NEW i \in 1..Len(q), i # 1 PROVE i - 1 \in 1..Len(t) /\ t[i - 1] = q[i]
    <3>1. i - 1 \in 1..Len(t) /\ i - 1 + 1 = i
      BY <1>1, <1>2, <2>1
    <3>. QED
      BY <1>2, <3>1
  <2>. QED
    BY <2>1
<1>5. \A i, j \in 1..Len(t) : i < j /\ t[i] # 0 /\ t[j] # 0 => t[i] < t[j]
  <2>1. ASSUME NEW i \in 1..Len(t), NEW j \in 1..Len(t), i < j, t[i] # 0, t[j] # 0 PROVE t[i] < t[j]
    <3>1. i + 1 < j + 1
      BY <2>1
    <3>. QED
      BY <1>3, <2>1, <3>1 DEF InOrder
  <2>. QED
    BY <2>1
<1>6. ASSUME f = 0 PROVE InOrder(t, seen, n)
  <2>1. \A i \in 1..Len(t) : t[i] # 0 => seen < t[i] /\ t[i] <= n
    BY <1>3 DEF InOrder
  <2>2. ASSUME NEW v \in (seen + 1)..n PROVE \E i \in 1..Len(t) : t[i] = v
    <3>1. PICK i \in 1..Len(q) : q[i] = v
      BY DEF InOrder
    <3>2. i # 1
      <4>1. v # 0
        OBVIOUS
      <4>. QED
        BY <1>2, <1>6, <3>1, <4>1
    <3>. QED
      BY <1>4, <3>1, <3>2
  <2>3. seen <= n
    BY DEF InOrder
  <2>. QED
    BY <1>5, <2>1, <2>2, <2>3 DEF InOrder
<1>7. ASSUME f # 0 PROVE f = seen + 1 /\ InOrder(t, f, n)
  <2>1. seen < f /\ f <= n
    BY <1>2, <1>3, <1>7 DEF InOrder
  <2>2. ASSUME NEW i \in 1..Len(q), i # 1, q[i] # 0 PROVE f < q[i]
    BY <1>2, <1>3, <1>7, <2>2 DEF InOrder
  <2>3. f = seen + 1
    <3>1. seen + 1 \in (seen + 1)..n
      BY <1>3, <2>1
    <3>2. PICK i \in 1..Len(q) : q[i] = seen + 1
      BY <3>1 DEF InOrder
    <3>3. CASE i = 1
      BY <1>2, <3>2, <3>3
    <3>4. CASE i # 1
      <4>1. f < seen + 1
        BY <2>2, <3>2, <3>4
      <4>. QED
        BY <1>3, <2>1, <4>1
    <3>. QED
      BY <3>3, <3>4
  <2>4. \A i \in 1..Len(t) : t[i] # 0 => f < t[i] /\ t[i] <= n
    <3>1. ASSUME NEW i \in 1..Len(t), t[i] # 0 PROVE f < t[i] /\ t[i] <= n
      <4>1. i + 1 \in 1..Len(q) /\ i + 1 # 1 /\ t[i] = q[i + 1]
        BY <1>3
      <4>2. q[i + 1] <= n
        BY <3>1, <4>1 DEF InOrder
      <4>. QED
        BY <2>2, <3>1, <4>1, <4>2
    <3>. QED
      BY <3>1
  <2>5. ASSUME NEW v \in (f + 1)..n PROVE \E i \in 1..Len(t) : t[i] = v
    <3>1. v \in (seen + 1)..n /\ v # f
      BY <1>3, <2>3
    <3>2. PICK i \in 1..Len(q) : q[i] = v
      BY <3>1 DEF InOrder
    <3>3. i # 1
      BY <1>2, <3>1, <3>2
    <3>. QED
      BY <1>4, <3>2, <3>3
  <2>. QED
    BY <1>5, <2>1, <2>3, <2>4, <2>5 DEF InOrder
<1>. QED
  BY <1>6, <1>7 DEF t, f

\* The streams of connection k frame h is for, the callers when they have got chunk n, and
\* what the server heard when it has sent the frame.
To(c, st, k, h) == {s \in Of(st, k) : st[s].id = h.id /\ h.id \in c[k].ids}
Got(st, to, n) ==
    [s \in Streams |->
       IF s \in to
       THEN [st[s] EXCEPT !.data = Deliver(@, n), !.full = @ \/ Len(st[s].data) >= DataSize]
       ELSE st[s]]
Chunk(h, close) == IF close THEN 0 ELSE h.n + 1
Answered(hd, h, close) == (hd \ {h}) \union {IF close THEN h ELSE [h EXCEPT !.n = Chunk(h, close)]}

\* A frame of the server goes to the stream that was opened with its number, if that one is
\* still there, and to no other.
LEMMA Delivered ==
    ASSUME MuxAssumption, NEW p, NEW c, NEW st, NEW hd, NEW lv, Good(p, c, st, hd, lv), NEW k \in Conns,
           NEW h \in hd, h.conn = k, NEW close \in BOOLEAN, h.n < MaxFrames,
           \A s \in Streams : Len(st[s].data) <= DataSize
    PROVE  LET to == To(c, st, k, h)
               nst == Got(st, to, Chunk(h, close))
           IN /\ Good(p, c, nst, Answered(hd, h, close), lv)
              /\ \A s \in to : st[s].lease = h.lease
              /\ \A s \in Streams : Len(nst[s].data) <= DataSize
              /\ \A i \in Answered(hd, h, close) : i.n = h.n + 1 \/ i \in hd
<1>. DEFINE n == IF close THEN 0 ELSE h.n + 1
            to == {s \in Of(st, k) : st[s].id = h.id /\ h.id \in c[k].ids}
            got(s) == [st[s] EXCEPT !.data = Deliver(@, n), !.full = @ \/ Len(st[s].data) >= DataSize]
            nst == [s \in Streams |->
                      IF s \in to
                      THEN [st[s] EXCEPT !.data = Deliver(@, n), !.full = @ \/ Len(st[s].data) >= DataSize]
                      ELSE st[s]]
            g == IF close THEN h ELSE [h EXCEPT !.n = n]
            nhd == (hd \ {h}) \union {g}
<1>1. /\ Typed(c, st, hd) /\ PoolOK(p, c) /\ (\A j \in Conns : ConnOK(c[j], lv)) /\ PlacesOK(c, st)
      /\ FramesOK(c, st, hd) /\ DataOK(c, st, hd)
  BY DEF Good
<1>2. /\ h \in HeardType /\ HeardOK(h, c, st, hd) /\ c[k].reader
  BY <1>1 DEF Typed, FramesOK, HeardOK
<1>3. /\ h.n \in Nat /\ MaxFrames \in Nat /\ DataSize \in Nat /\ h.n + 1 \in 0..MaxFrames /\ n \in 0..MaxFrames
  BY <1>2, MuxNumbers DEF HeardType
<1>. HIDE DEF n
<1>4. /\ g \in HeardType /\ g.conn = k /\ g.id = h.id /\ g.lease = h.lease /\ g.n = IF close THEN h.n ELSE h.n + 1
  <2>1. CASE close
    BY <1>2, <2>1
  <2>2. CASE ~close
    <3>1. n = h.n + 1
      BY <2>2 DEF n
    <3>. QED
      BY <1>2, <1>3, <2>2, <3>1 DEF HeardType
  <2>. QED
    BY <2>1, <2>2
<1>5. \A i : i \in nhd <=> (i \in hd /\ i # h) \/ i = g
  OBVIOUS
<1>. HIDE DEF g, nhd
<1>6. \A s \in to : s \in Streams /\ Open(st, s) /\ st[s].conn = k /\ st[s].id = h.id /\ st[s].lease = h.lease
  <2>1. \A s \in to : s \in Of(st, k) /\ st[s].id = h.id
    OBVIOUS
  <2>2. \A s \in Of(st, k) : st[s].id = h.id => st[s].lease = h.lease
    BY <1>2 DEF HeardOK, Known
  <2>. QED
    BY <2>1, <2>2, OfIs
<1>7. \A s \in Streams : Open(st, s) /\ st[s].conn = k /\ st[s].id = h.id => s \in to
  <2>1. ASSUME NEW s \in Streams, Open(st, s), st[s].conn = k, st[s].id = h.id PROVE s \in to
    <3>1. s \in Of(st, k)
      BY <2>1, OfIs
    <3>2. st[s].id \in c[k].ids
      BY <1>1, <3>1 DEF PlacesOK
    <3>. QED
      BY <2>1, <3>1, <3>2
  <2>. QED
    BY <2>1
<1>8. \A s \in Streams : nst[s] = IF s \in to THEN got(s) ELSE st[s]
  OBVIOUS
<1>9. ASSUME NEW s \in Streams
      PROVE  LET q == IF Len(st[s].data) < DataSize THEN Append(st[s].data, n) ELSE st[s].data
             IN /\ got(s) \in StreamType /\ got(s).pc = st[s].pc /\ got(s).conn = st[s].conn /\ got(s).id = st[s].id
                /\ got(s).lease = st[s].lease /\ got(s).data = q /\ got(s).seen = st[s].seen
                /\ got(s).full = (st[s].full \/ Len(st[s].data) >= DataSize)
                /\ Len(q) <= DataSize
  <2>. DEFINE q == IF Len(st[s].data) < DataSize THEN Append(st[s].data, n) ELSE st[s].data
              b == st[s].full \/ Len(st[s].data) >= DataSize
              m == [st[s] EXCEPT !.data = q]
  <2>1. st[s] \in StreamType /\ st[s].data \in Seq(0..MaxFrames) /\ st[s].full \in BOOLEAN
    BY <1>1 DEF Typed, StreamType
  <2>2. q \in Seq(0..MaxFrames) /\ Len(q) <= DataSize /\ b \in BOOLEAN
    <3>1. Len(st[s].data) \in Nat /\ Len(st[s].data) <= DataSize
      BY <2>1, LenProperties
    <3>2. CASE Len(st[s].data) < DataSize
      <4>1. /\ Append(st[s].data, n) \in Seq(0..MaxFrames)
            /\ Len(Append(st[s].data, n)) = Len(st[s].data) + 1
        BY <1>3, <2>1, AppendProperties
      <4>. QED
        BY <1>3, <3>1, <3>2, <4>1
    <3>3. CASE ~(Len(st[s].data) < DataSize)
      BY <2>1, <3>1, <3>3
    <3>4. b \in BOOLEAN
      BY <2>1
    <3>. QED
      BY <3>2, <3>3, <3>4
  <2>3. got(s) = [m EXCEPT !.full = b]
    BY DEF Deliver
  <2>4. got(s).data = q /\ got(s).full = b
    BY <2>1 DEF StreamType, Deliver
  <2>5. /\ got(s).pc = st[s].pc /\ got(s).conn = st[s].conn /\ got(s).id = st[s].id
        /\ got(s).lease = st[s].lease /\ got(s).seen = st[s].seen
    BY <2>1 DEF StreamType
  <2>. HIDE DEF q, b, got
  <2>6. m \in StreamType
    BY <2>1, <2>2 DEF StreamType
  <2>. HIDE DEF m
  <2>7. got(s) \in StreamType
    BY <2>2, <2>3, <2>6 DEF StreamType
  <2>. QED
    BY <2>2, <2>4, <2>5, <2>7 DEF q, b
<1>. HIDE DEF got, nst, to
<1>10. /\ nst \in [Streams -> StreamType]
  <2>1. \A s \in Streams : nst[s] \in StreamType
    BY <1>1, <1>8, <1>9 DEF Typed
  <2>2. nst = [s \in Streams |-> nst[s]]
    BY DEF nst
  <2>. QED
    BY <2>1, <2>2
<1>11. \A s \in Streams : /\ nst[s].pc = st[s].pc /\ nst[s].conn = st[s].conn /\ nst[s].id = st[s].id
                          /\ nst[s].lease = st[s].lease /\ nst[s].seen = st[s].seen
                          /\ Open(nst, s) <=> Open(st, s)
  BY <1>8, <1>9 DEF Open
<1>12. ASSUME NEW j PROVE Of(nst, j) = Of(st, j)
  <2>1. \A t : t \in Of(nst, j) <=> t \in Of(st, j)
    BY <1>11, OfIs
  <2>. QED
    BY <2>1
<1>13. ASSUME NEW j, NEW f, Known(f, j, c, st) PROVE Known(f, j, c, nst)
  <2>1. \A s \in Of(st, j) : nst[s].id = st[s].id /\ nst[s].pc = st[s].pc /\ nst[s].lease = st[s].lease
    BY <1>11, OfIs
  <2>. QED
    BY <1>12, <1>13, <2>1 DEF Known
<1>14. Typed(c, nst, nhd)
  BY <1>1, <1>4, <1>5, <1>10 DEF Typed
<1>15. PlacesOK(c, nst)
  <2>1. \A t \in Streams : Open(nst, t) => nst[t].conn \in Conns /\ c[nst[t].conn].state = "used"
    BY <1>1, <1>11 DEF PlacesOK, Open
  <2>2. ASSUME NEW j \in Conns
        PROVE  /\ c[j].count = Cardinality(Of(nst, j)) + c[j].leaked
               /\ IsFiniteSet(c[j].ids) /\ Cardinality(c[j].ids) = c[j].count
               /\ \A t \in Of(nst, j) : nst[t].id \in c[j].ids
               /\ \A t, u \in Of(nst, j) : nst[t].id = nst[u].id => t = u
    <3>1. \A t \in Of(st, j) : nst[t].id = st[t].id
      BY <1>11, OfIs
    <3>. QED
      BY <1>1, <1>12, <3>1 DEF PlacesOK
  <2>. QED
    BY <2>1, <2>2 DEF PlacesOK, Open
<1>16. FramesOK(c, nst, nhd)
  <2>1. \A j \in Conns : QueueOK(c[j].high, j, c, nst) /\ QueueOK(c[j].low, j, c, nst)
    BY <1>1, <1>13 DEF FramesOK, QueueOK
  <2>2. \A i \in hd : i.conn = k /\ i.id = h.id => i = h
    BY <1>2 DEF HeardOK
  <2>3. HeardOK(g, c, nst, nhd)
    <3>1. Known(g, k, c, nst)
      <4>1. Known(h, k, c, nst)
        BY <1>2, <1>13 DEF HeardOK
      <4>. QED
        BY <1>4, <4>1 DEF Known
    <3>. QED
      BY <1>2, <1>4, <1>5, <2>2, <3>1 DEF HeardOK
  <2>4. ASSUME NEW i \in hd, i # h PROVE HeardOK(i, c, nst, nhd)
    <3>1. HeardOK(i, c, st, hd)
      BY <1>1 DEF FramesOK
    <3>2. Known(i, i.conn, c, nst)
      BY <1>13, <3>1 DEF HeardOK
    <3>. QED
      BY <1>4, <1>5, <2>2, <2>4, <3>1, <3>2 DEF HeardOK
  <2>. QED
    BY <1>1, <1>5, <2>1, <2>3, <2>4 DEF FramesOK
<1>17. DataOK(c, nst, nhd)
  <2>1. ASSUME NEW s \in Streams, Open(nst, s), ~nst[s].full
        PROVE  \E m \in Nat :
                  /\ InOrder(nst[s].data, nst[s].seen, m)
                  /\ \A i \in nhd : i.conn = nst[s].conn /\ i.id = nst[s].id => i.n = m
                  /\ \/ \E i \in nhd : i.conn = nst[s].conn /\ i.id = nst[s].id
                     \/ c[nst[s].conn].reader => m = 0
    <3>1. Open(st, s) /\ st[s] \in StreamType
      BY <1>1, <1>11, <2>1 DEF Typed
    <3>2. s \in to => ~st[s].full /\ Len(st[s].data) < DataSize /\ nst[s].data = Append(st[s].data, n)
      <4>1. Len(st[s].data) \in Nat
        <5>1. st[s].data \in Seq(0..MaxFrames)
          BY <3>1 DEF StreamType
        <5>. QED
          BY <5>1, LenProperties
      <4>2. ASSUME s \in to PROVE nst[s] = got(s)
        BY <1>8, <4>2
      <4>3. got(s).full = (st[s].full \/ Len(st[s].data) >= DataSize)
        BY <1>9
      <4>4. got(s).data = IF Len(st[s].data) < DataSize THEN Append(st[s].data, n) ELSE st[s].data
        BY <1>9
      <4>. QED
        <5>1. ASSUME s \in to PROVE ~(st[s].full \/ Len(st[s].data) >= DataSize)
          BY <2>1, <4>2, <4>3, <5>1
        <5>2. ASSUME s \in to PROVE ~st[s].full /\ Len(st[s].data) < DataSize
          BY <1>3, <4>1, <5>1, <5>2
        <5>. QED
          BY <4>2, <4>4, <5>2
    <3>3. ~st[s].full
      BY <1>8, <2>1, <3>2
    <3>4. PICK m \in Nat :
                  /\ InOrder(st[s].data, st[s].seen, m)
                  /\ \A i \in hd : i.conn = st[s].conn /\ i.id = st[s].id => i.n = m
                  /\ \/ \E i \in hd : i.conn = st[s].conn /\ i.id = st[s].id
                     \/ c[st[s].conn].reader => m = 0
      BY <1>1, <3>1, <3>3 DEF DataOK, Open
    <3>5. nst[s].conn = st[s].conn /\ nst[s].id = st[s].id /\ nst[s].seen = st[s].seen
      BY <1>11
    <3>6. CASE s \in to
      <4>1. st[s].conn = k /\ st[s].id = h.id /\ m = h.n
        BY <1>6, <3>4, <3>6
      <4>2. \A i \in nhd : i.conn = k /\ i.id = h.id => i = g
        BY <1>2, <1>5 DEF HeardOK
      <4>3. InOrder(nst[s].data, st[s].seen, g.n) /\ g.n \in Nat
        <5>1. st[s].data \in Seq(0..MaxFrames) /\ st[s].seen \in Nat
          BY <3>1 DEF StreamType
        <5>2. InOrder(Append(st[s].data, 0), st[s].seen, m) /\ InOrder(Append(st[s].data, m + 1), st[s].seen, m + 1)
          BY <3>4, <5>1, AppendInOrder
        <5>3. n = IF close THEN 0 ELSE m + 1
          BY <4>1 DEF n
        <5>4. nst[s].data = Append(st[s].data, n) /\ g.n = (IF close THEN m ELSE m + 1)
          BY <1>4, <3>2, <3>6, <4>1
        <5>5. CASE close
          BY <5>2, <5>3, <5>4, <5>5
        <5>6. CASE ~close
          BY <5>2, <5>3, <5>4, <5>6
        <5>. QED
          BY <5>5, <5>6
      <4>4. g \in nhd
        BY <1>5
      <4>. QED
        BY <1>4, <3>5, <4>1, <4>2, <4>3, <4>4
    <3>7. CASE s \notin to
      <4>1. ~(st[s].conn = k /\ st[s].id = h.id)
        BY <1>7, <3>1, <3>7
      <4>2. nst[s].data = st[s].data
        BY <1>8, <3>7
      <4>3. \A i : i.conn = st[s].conn /\ i.id = st[s].id => (i \in nhd <=> i \in hd)
        BY <1>4, <1>5, <4>1
      <4>. QED
        BY <3>4, <3>5, <4>2, <4>3
    <3>. QED
      BY <3>6, <3>7
  <2>. QED
    BY <2>1 DEF DataOK, Open
<1>18. Good(p, c, nst, nhd, lv)
  BY <1>1, <1>14, <1>15, <1>16, <1>17 DEF Good
<1>19. \A s \in Streams : Len(nst[s].data) <= DataSize
  BY <1>8, <1>9
<1>20. \A i \in nhd : i.n = h.n + 1 \/ i \in hd
  BY <1>4, <1>5 DEF g
<1>21. \A s \in to : st[s].lease = h.lease
  BY <1>6
<1>. QED
  <2>1. nst = Got(st, To(c, st, k, h), Chunk(h, close)) /\ nhd = Answered(hd, h, close) /\ to = To(c, st, k, h)
    BY DEF nst, nhd, g, n, to, Got, To, Chunk, Answered
  <2>. QED
    BY <1>18, <1>19, <1>20, <1>21, <2>1

\* The parts of the invariant that Good leaves out.
Rest ==
    /\ \A s \in Streams : Len(stream[s].data) <= DataSize
    /\ \A h \in heard : h.n <= frames
    /\ warm \in {"check", "connecting", "done"} /\ leases \in 0..MaxLeases /\ frames \in 0..MaxFrames
    /\ ~strayed /\ ~gap

\* The invariant is Good and the rest.
LEMMA Parts == IInv <=> Good(pool, conn, stream, heard, leases) /\ Rest
BY DEF IInv, Good, Rest

\* What every lemma about a step starts from.
LEMMA Start ==
    ASSUME MuxAssumption, IInv
    PROVE  /\ Good(pool, conn, stream, heard, leases) /\ Rest /\ leases \in Nat /\ frames \in Nat
           /\ conn \in [Conns -> ConnType] /\ stream \in [Streams -> StreamType]
<1>1. Good(pool, conn, stream, heard, leases) /\ Rest
  BY Parts
<1>. QED
  BY <1>1, MuxNumbers DEF Good, Typed, Rest

\* A caller without a stream moves on.
LEMMA Moved ==
    ASSUME NEW p, NEW c, NEW st, NEW hd, NEW lv, Good(p, c, st, hd, lv), NEW s \in Streams, ~Open(st, s),
           NEW pc \in {"idle", "lease", "connecting"}
    PROVE  /\ Good(p, c, [st EXCEPT ![s].pc = pc], hd, lv)
           /\ \A t \in Streams : [st EXCEPT ![s].pc = pc][t].data = st[t].data
<1>. DEFINE nst == [st EXCEPT ![s].pc = pc]
<1>1. st \in [Streams -> StreamType]
  BY DEF Good, Typed
<1>2. nst \in [Streams -> StreamType] /\ nst[s].pc = pc /\ nst[s].data = st[s].data
  BY <1>1 DEF StreamType
<1>3. \A t \in Streams : t = s \/ nst[t] = st[t]
  BY <1>1
<1>4. \A t \in Streams : nst[t].data = st[t].data
  BY <1>2, <1>3
<1>. HIDE DEF nst
<1>5. \A t \in Streams : Open(nst, t) <=> Open(st, t)
  BY <1>2, <1>3 DEF Open
<1>6. \A t \in Streams : Open(st, t) => nst[t] = st[t]
  BY <1>3
<1>7. Good(p, c, nst, hd, lv)
  BY <1>2, <1>5, <1>6, SameOpen
<1>. QED
  BY <1>4, <1>7 DEF nst

\* Every step preserves the invariant; the steps of the callers first.
LEMMA LeaseInv ==
    ASSUME MuxAssumption, IInv, NEW s \in Streams, NEW udp \in BOOLEAN, Lease(s, udp)
    PROVE  IInv'
<1>1. /\ Good(pool, conn, stream, heard, leases) /\ Rest /\ leases \in Nat
      /\ conn \in [Conns -> ConnType] /\ stream \in [Streams -> StreamType]
  BY Start
<1>2. /\ ~Open(stream, s) /\ leases + 1 <= MaxLeases /\ leases + 1 \in 0..MaxLeases
      /\ warm' = warm /\ heard' = heard /\ frames' = frames /\ strayed' = strayed /\ gap' = gap
  BY <1>1, MuxNumbers DEF Lease, Open
<1>3. PICK p \in SeqOf(Conns, Len(pool)) :
          /\ Kept(p) /\ pool' = p
          /\ \/ \E i \in Roomy(p) : (\A j \in Roomy(p) : i <= j) /\ Placed(s, udp, p[i], p)
             \/ Roomy(p) = {} /\ NotPlaced(s, p)
  BY DEF Lease
<1>4. Good(p, conn, stream, heard, leases)
  <2>1. p \in Seq(Conns)
    BY DEF SeqOf
  <2>2. InItsOrder(p, pool) /\ Pooled(p) \subseteq Pooled(pool)
    BY <1>3 DEF Kept, InItsOrder
  <2>. QED
    BY <1>1, <2>1, <2>2, PoolKept
<1>5. CASE \E i \in Roomy(p) : Placed(s, udp, p[i], p)
  <2>1. PICK i \in Roomy(p) : Placed(s, udp, p[i], p)
    BY <1>5
  <2>. DEFINE k == p[i]
              nst == [stream EXCEPT ![s] = NewStream(k, conn[k].next, udp, leases + 1)]
              d == [conn EXCEPT ![k].next = @ + 1, ![k].count = @ + 1, ![k].ids = @ \union {conn[k].next}]
  <2>2. k \in Conns /\ conn[k].state = "used" /\ conn[k].count < MaxStreams
    BY <1>4 DEF Good, PoolOK, Roomy
  <2>3. stream' = nst /\ conn' = Reclaimed(d, p, nst) /\ leases' = leases + 1
    BY <2>1 DEF Placed, NewId
  <2>4. \A t \in Streams : nst[t].data = <<>> \/ nst[t].data = stream[t].data
    BY <1>1 DEF NewStream
  <2>5. Good(p, d, nst, heard, leases + 1)
    BY <1>1, <1>2, <1>4, <2>2, PlacedGood
  <2>. HIDE DEF d, nst
  <2>6. Good(p, Reclaimed(d, p, nst), nst, heard, leases + 1)
    BY <1>1, <2>5, ReclaimedGood
  <2>7. Good(pool, conn, stream, heard, leases)'
    BY <1>2, <1>3, <2>3, <2>6
  <2>8. Rest'
    <3>1. \A t \in Streams : Len(nst[t].data) <= DataSize
      <4>1. Len(<<>>) = 0
        OBVIOUS
      <4>. QED
        BY <1>1, <2>4, <4>1, MuxNumbers, SMTT(40) DEF Rest
    <3>. QED
      BY <1>1, <1>2, <2>3, <3>1 DEF Rest
  <2>. QED
    BY <2>7, <2>8, Parts, PTL
<1>6. CASE NotPlaced(s, p)
  <2>. DEFINE pc == IF PoolHasRoom(p) THEN "connecting" ELSE "idle"
              nst == [stream EXCEPT ![s].pc = pc]
              d == Reclaimed(conn, p, stream)
  <2>1. stream' = nst /\ conn' = d /\ leases' = leases
    BY <1>6 DEF NotPlaced
  <2>2. Good(p, d, stream, heard, leases)
    BY <1>1, <1>4, ReclaimedGood
  <2>3. pc \in {"idle", "lease", "connecting"}
    OBVIOUS
  <2>. HIDE DEF d, pc
  <2>4. Good(p, d, nst, heard, leases) /\ \A t \in Streams : nst[t].data = stream[t].data
    <3>1. Good(p, d, nst, heard, leases)
      BY <1>2, <2>2, <2>3, Moved
    <3>2. \A t \in Streams : nst[t].data = stream[t].data
      BY <1>2, <2>2, <2>3, Moved
    <3>. QED
      BY <3>1, <3>2
  <2>. HIDE DEF nst
  <2>5. Good(pool, conn, stream, heard, leases)'
    BY <1>2, <1>3, <2>1, <2>4
  <2>6. Rest'
    BY <1>1, <1>2, <2>1, <2>4 DEF Rest
  <2>. QED
    BY <2>5, <2>6, Parts, PTL
<1>. QED
  BY <1>3, <1>5, <1>6

\* The connection is there, or there is none.
LEMMA ConnectInv ==
    ASSUME MuxAssumption, IInv, NEW s \in Streams, (\E k \in Conns : Connected(s, k)) \/ ConnectFails(s)
    PROVE  IInv'
<1>1. /\ Good(pool, conn, stream, heard, leases) /\ Rest /\ leases \in Nat
      /\ conn \in [Conns -> ConnType] /\ stream \in [Streams -> StreamType]
  BY Start
<1>2. /\ ~Open(stream, s) /\ warm' = warm /\ heard' = heard /\ leases' = leases /\ frames' = frames
      /\ strayed' = strayed /\ gap' = gap
  BY DEF Connected, ConnectFails, Open
<1>3. ASSUME NEW k \in Conns, Connected(s, k) PROVE IInv'
  <2>. DEFINE nst == [stream EXCEPT ![s].pc = "lease"]
              d == [conn EXCEPT ![k] = NewConn]
  <2>1. stream' = nst /\ conn' = d /\ pool' = Append(pool, k) /\ conn[k].state = None
    BY <1>3 DEF Connected
  <2>2. Good(Append(pool, k), d, stream, heard, leases)
    BY <1>1, <2>1, Joins
  <2>. HIDE DEF d
  <2>3. Good(Append(pool, k), d, nst, heard, leases) /\ \A t \in Streams : nst[t].data = stream[t].data
    <3>1. Good(Append(pool, k), d, nst, heard, leases)
      BY <1>2, <2>2, Moved
    <3>2. \A t \in Streams : nst[t].data = stream[t].data
      BY <1>2, <2>2, Moved
    <3>. QED
      BY <3>1, <3>2
  <2>. HIDE DEF nst
  <2>4. Good(pool, conn, stream, heard, leases)'
    BY <1>2, <2>1, <2>3
  <2>5. Rest'
    BY <1>1, <1>2, <2>1, <2>3 DEF Rest
  <2>. QED
    BY <2>4, <2>5, Parts, PTL
<1>4. ASSUME ConnectFails(s) PROVE IInv'
  <2>. DEFINE nst == [stream EXCEPT ![s] = NoStream]
  <2>1. stream' = nst /\ conn' = conn /\ pool' = pool
    BY <1>4 DEF ConnectFails
  <2>2. /\ nst \in [Streams -> StreamType] /\ nst[s] = NoStream /\ \A t \in Streams : t = s \/ nst[t] = stream[t]
    BY <1>1, NoStreamFacts
  <2>. HIDE DEF nst
  <2>3. \A t \in Streams : Open(nst, t) <=> Open(stream, t)
    BY <1>2, <2>2, NoStreamFacts DEF Open
  <2>4. \A t \in Streams : Open(stream, t) => nst[t] = stream[t]
    BY <1>2, <2>2
  <2>5. Good(pool, conn, nst, heard, leases)
    BY <1>1, <2>2, <2>3, <2>4, SameOpen
  <2>6. Good(pool, conn, stream, heard, leases)'
    BY <1>2, <2>1, <2>5
  <2>7. \A t \in Streams : Len(nst[t].data) <= DataSize
    <3>1. Len(NoStream.data) = 0
      BY NoStreamFacts
    <3>. QED
      BY <1>1, <2>2, <3>1, MuxNumbers DEF Rest
  <2>8. Rest'
    BY <1>1, <1>2, <2>1, <2>7 DEF Rest
  <2>. QED
    BY <2>6, <2>8, Parts, PTL
<1>. QED
  BY <1>3, <1>4

\* The pre_warm task.
LEMMA WarmInv ==
    ASSUME MuxAssumption, IInv, WarmCheck \/ WarmFails \/ \E k \in Conns : WarmConnected(k)
    PROVE  IInv'
<1>1. Good(pool, conn, stream, heard, leases) /\ Rest /\ leases \in Nat
  BY Start
<1>2. /\ stream' = stream /\ heard' = heard /\ leases' = leases /\ frames' = frames /\ strayed' = strayed /\ gap' = gap
      /\ warm' \in {"check", "connecting", "done"}
  BY DEF WarmCheck, WarmFails, WarmConnected
<1>3. Rest'
  BY <1>1, <1>2 DEF Rest
<1>4. Good(pool, conn, stream, heard, leases)'
  <2>1. CASE \E k \in Conns : WarmConnected(k)
    <3>1. PICK k \in Conns : WarmConnected(k)
      BY <2>1
    <3>2. Good(Append(pool, k), [conn EXCEPT ![k] = NewConn], stream, heard, leases)
      BY <1>1, <3>1, Joins DEF WarmConnected
    <3>. QED
      BY <1>2, <3>1, <3>2 DEF WarmConnected
  <2>2. CASE WarmCheck \/ WarmFails
    <3>1. pool' = pool /\ conn' = conn
      BY <2>2 DEF WarmCheck, WarmFails
    <3>. QED
      BY <1>1, <1>2, <3>1
  <2>. QED
    BY <2>1, <2>2
<1>. QED
  BY <1>3, <1>4, Parts, PTL

\* A data or close frame has no number.
LEMMA OtherKnown ==
    ASSUME MuxAssumption, NEW p, NEW c, NEW st, NEW hd, NEW lv, Good(p, c, st, hd, lv), NEW k \in Conns
    PROVE  Other \in Frame /\ Other.id = 0 /\ Known(Other, k, c, st)
<1>1. Other \in Frame /\ Other.id = 0
  BY MuxNumbers DEF Other, Frame
<1>2. c[k] \in ConnType
  BY DEF Good, Typed
<1>3. 0 < c[k].next
  BY <1>2 DEF ConnType
<1>4. ASSUME NEW s \in Of(st, k) PROVE st[s].id # 0
  <2>1. s \in Streams /\ Open(st, s)
    BY OfIs
  <2>2. st[s].id \in 1..(c[st[s].conn].next - 1)
    BY <2>1, StreamPlace
  <2>. QED
    BY <2>2
<1>. QED
  BY <1>1, <1>3, <1>4 DEF Known

\* A frame goes to one of the two queues.
LEMMA PutGood ==
    ASSUME MuxAssumption, NEW p, NEW c, NEW st, NEW hd, NEW lv, Good(p, c, st, hd, lv), NEW k \in Conns,
           NEW f \in Frame, Known(f, k, c, st), f.id = 0 => f = Other,
           f.id # 0 => /\ \A i \in 1..Len(c[k].high) : c[k].high[i].id # f.id
                       /\ \A i \in 1..Len(c[k].low) : c[k].low[i].id # f.id
                       /\ \A h \in hd : h.conn = k => h.id # f.id,
           NEW udp \in BOOLEAN, Len(IF udp THEN c[k].high ELSE c[k].low) < QueueSize
    PROVE  Good(p, IF udp THEN [c EXCEPT ![k].high = Append(@, f)] ELSE [c EXCEPT ![k].low = Append(@, f)], st, hd, lv)
<1>1. Len(c[k].high) < QueueSize => Good(p, [c EXCEPT ![k].high = Append(@, f)], st, hd, lv)
  BY Sent
<1>2. Len(c[k].low) < QueueSize => Good(p, [c EXCEPT ![k].low = Append(@, f)], st, hd, lv)
  BY Sent
<1>. HIDE DEF Good
<1>3. CASE udp
  BY <1>1, <1>3
<1>4. CASE ~udp
  BY <1>2, <1>4
<1>. QED
  BY <1>3, <1>4

\* The stream's data or close frame.
LEMMA PutOther ==
    ASSUME MuxAssumption, Good(pool, conn, stream, heard, leases), NEW s \in Streams, Open(stream, s), CanPut(s),
           NEW cmd, cmd # "open"
    PROVE  Good(pool, Put(conn, s, cmd), stream, heard, leases)
<1>. DEFINE k == stream[s].conn
<1>1. k \in Conns /\ stream[s].udp \in BOOLEAN
  BY StreamPlace DEF StreamType
<1>2. Other \in Frame /\ Other.id = 0 /\ Known(Other, k, conn, stream)
  BY <1>1, OtherKnown
<1>3. Len(IF stream[s].udp THEN conn[k].high ELSE conn[k].low) < QueueSize
  BY DEF CanPut, Queue
<1>4. Put(conn, s, cmd) = IF stream[s].udp THEN [conn EXCEPT ![k].high = Append(@, Other)]
                                           ELSE [conn EXCEPT ![k].low = Append(@, Other)]
  BY DEF Put
<1>. HIDE DEF k
<1>5. Good(pool, IF stream[s].udp THEN [conn EXCEPT ![k].high = Append(@, Other)]
                                  ELSE [conn EXCEPT ![k].low = Append(@, Other)], stream, heard, leases)
  BY <1>1, <1>2, <1>3, PutGood
<1>. QED
  BY <1>4, <1>5

\* The open frame is queued: the first with its number.
LEMMA OpenedInv ==
    ASSUME MuxAssumption, IInv, NEW s \in Streams, Opened(s)
    PROVE  IInv'
<1>1. /\ Good(pool, conn, stream, heard, leases) /\ Rest /\ leases \in Nat
      /\ conn \in [Conns -> ConnType] /\ stream \in [Streams -> StreamType]
  BY Start
<1>. DEFINE k == stream[s].conn
            f == [id |-> stream[s].id, lease |-> stream[s].lease]
            nst == [stream EXCEPT ![s].pc = "live"]
            d == IF stream[s].udp THEN [conn EXCEPT ![k].high = Append(@, f)] ELSE [conn EXCEPT ![k].low = Append(@, f)]
<1>2. /\ stream[s].pc = "opening" /\ pool' = pool /\ warm' = warm /\ heard' = heard /\ leases' = leases
      /\ frames' = frames /\ strayed' = strayed /\ gap' = gap /\ stream' = nst /\ conn' = d
  BY DEF Opened, Put
<1>3. Len(IF stream[s].udp THEN conn[k].high ELSE conn[k].low) < QueueSize
  BY DEF Opened, CanPut, Queue
<1>4. stream[s].udp \in BOOLEAN
  BY <1>1 DEF StreamType
<1>5. \A t \in Streams : nst[t].data = stream[t].data
  BY <1>1 DEF StreamType
<1>6. /\ Good(pool, conn, nst, heard, leases)
      /\ k \in Conns /\ f \in Frame /\ f.id # 0 /\ Known(f, k, conn, nst)
      /\ \A i \in 1..Len(conn[k].high) : conn[k].high[i].id # f.id
      /\ \A i \in 1..Len(conn[k].low) : conn[k].low[i].id # f.id
      /\ \A h \in heard : h.conn = k => h.id # f.id
  <2>1. Good(pool, conn, nst, heard, leases)
    BY <1>1, <1>2, GoesLive
  <2>2. k \in Conns /\ f \in Frame /\ f.id # 0
    BY <1>1, <1>2, GoesLive
  <2>3. Known(f, k, conn, nst)
    BY <1>1, <1>2, GoesLive
  <2>4. \A i \in 1..Len(conn[k].high) : conn[k].high[i].id # f.id
    BY <1>1, <1>2, GoesLive
  <2>5. \A i \in 1..Len(conn[k].low) : conn[k].low[i].id # f.id
    BY <1>1, <1>2, GoesLive
  <2>6. \A h \in heard : h.conn = k => h.id # f.id
    BY <1>1, <1>2, GoesLive
  <2>. QED
    BY <2>1, <2>2, <2>3, <2>4, <2>5, <2>6
<1>. HIDE DEF k, f, nst
<1>7. Good(pool, d, nst, heard, leases)
  BY <1>3, <1>4, <1>6, PutGood
<1>. HIDE DEF d
<1>8. Good(pool, conn, stream, heard, leases)'
  BY <1>2, <1>7
<1>9. Rest'
  BY <1>1, <1>2, <1>5 DEF Rest
<1>. QED
  BY <1>8, <1>9, Parts, PTL

\* A data or close frame is queued.
LEMMA SendInv ==
    ASSUME MuxAssumption, IInv, NEW s \in Streams, Write(s) \/ Shutdown(s)
    PROVE  IInv'
<1>1. Good(pool, conn, stream, heard, leases) /\ Rest
  BY Start
<1>2. PICK cmd \in {"data", "close"} :
        /\ Open(stream, s) /\ CanPut(s) /\ conn' = Put(conn, s, cmd) /\ pool' = pool /\ stream' = stream
        /\ warm' = warm /\ heard' = heard /\ leases' = leases /\ frames' = frames /\ strayed' = strayed /\ gap' = gap
  BY DEF Write, Shutdown, Open
<1>3. Good(pool, Put(conn, s, cmd), stream, heard, leases)
  BY <1>1, <1>2, PutOther
<1>4. Good(pool, conn, stream, heard, leases)'
  BY <1>2, <1>3
<1>5. Rest'
  BY <1>1, <1>2 DEF Rest
<1>. QED
  BY <1>4, <1>5, Parts, PTL

\* What a stream that goes leaves to the invariant.
LEMMA GoneRest ==
    ASSUME MuxAssumption, Rest, stream \in [Streams -> StreamType], NEW s \in Streams,
           stream' = [stream EXCEPT ![s] = NoStream], warm' = warm, heard' = heard, leases' = leases,
           frames' = frames, strayed' = strayed, gap' = gap
    PROVE  Rest'
<1>1. Len(NoStream.data) = 0
  BY NoStreamFacts
<1>2. \A t \in Streams : Len(stream'[t].data) <= DataSize
  BY <1>1, MuxNumbers DEF Rest
<1>. QED
  BY <1>2 DEF Rest

\* The lease fails and its place is lost.
LEMMA OpenFailsInv ==
    ASSUME MuxAssumption, IInv, NEW s \in Streams, OpenFails(s)
    PROVE  IInv'
<1>1. /\ Good(pool, conn, stream, heard, leases) /\ Rest /\ leases \in Nat
      /\ conn \in [Conns -> ConnType] /\ stream \in [Streams -> StreamType]
  BY Start
<1>. DEFINE k == stream[s].conn
            n == conn[k].leaked + 1
            nst == [stream EXCEPT ![s] = NoStream]
            d == [conn EXCEPT ![k].leaked = n]
<1>2. /\ Open(stream, s) /\ pool' = pool /\ warm' = warm /\ heard' = heard /\ leases' = leases
      /\ frames' = frames /\ strayed' = strayed /\ gap' = gap /\ stream' = nst /\ conn' = Reclaimed(d, pool, nst)
  BY DEF OpenFails, Open
<1>3. k \in Conns /\ conn[k] \in ConnType
  BY <1>1, <1>2, StreamPlace
<1>4. n \in Nat
  <2>1. conn[k].leaked \in Nat
    BY <1>3, ConnFields
  <2>. QED
    BY <2>1
<1>. HIDE DEF k, n
<1>5. d \in [Conns -> ConnType]
  BY <1>1, <1>3, <1>4 DEF ConnType
<1>6. /\ d[k].state = conn[k].state /\ d[k].reader = conn[k].reader /\ d[k].writer = conn[k].writer
      /\ d[k].next = conn[k].next /\ d[k].high = conn[k].high /\ d[k].low = conn[k].low
      /\ d[k].burst = conn[k].burst /\ d[k].waited = conn[k].waited
      /\ d[k].ids = conn[k].ids /\ d[k].count = conn[k].count /\ d[k].leaked = conn[k].leaked + 1
      /\ \A j \in Conns \ {k} : d[j] = conn[j]
  BY <1>1, <1>3 DEF ConnType, n
<1>. HIDE DEF d
<1>7. Good(pool, d, nst, heard, leases)
  <2>1. PlaceGone(conn, d, stream[s].conn, stream[s].id)
    BY <1>5, <1>6 DEF PlaceGone, k
  <2>. QED
    BY <1>1, <1>2, <2>1, StreamGone
<1>8. Good(pool, Reclaimed(d, pool, nst), nst, heard, leases)
  BY <1>1, <1>7, ReclaimedGood
<1>9. Good(pool, conn, stream, heard, leases)'
  BY <1>2, <1>8
<1>10. Rest'
  BY <1>1, <1>2, GoneRest
<1>. QED
  BY <1>9, <1>10, Parts, PTL

\* The stream goes and its place is given back.
LEMMA DropInv ==
    ASSUME MuxAssumption, IInv, NEW s \in Streams, Drop(s)
    PROVE  IInv'
<1>1. /\ Good(pool, conn, stream, heard, leases) /\ Rest /\ leases \in Nat
      /\ conn \in [Conns -> ConnType] /\ stream \in [Streams -> StreamType]
  BY Start
<1>. DEFINE k == stream[s].conn
            c == IF CanPut(s) THEN Put(conn, s, "close") ELSE conn
            nids == c[k].ids \ {stream[s].id}
            n == c[k].count - 1
            nst == [stream EXCEPT ![s] = NoStream]
            d1 == [c EXCEPT ![k].ids = nids]
            d == Returned(c, k, stream[s].id)
<1>2. /\ Open(stream, s) /\ pool' = pool /\ warm' = warm /\ heard' = heard /\ leases' = leases
      /\ frames' = frames /\ strayed' = strayed /\ gap' = gap /\ stream' = nst /\ conn' = Reclaimed(d, pool, nst)
  BY DEF Drop, Open
<1>3. Good(pool, c, stream, heard, leases)
  <2>1. CanPut(s) => Good(pool, Put(conn, s, "close"), stream, heard, leases)
    BY <1>1, <1>2, PutOther
  <2>. QED
    BY <1>1, <2>1
<1>. HIDE DEF c
<1>4. k \in Conns /\ c[k] \in ConnType /\ stream[s].id \in c[k].ids
  BY <1>2, <1>3, StreamPlace
<1>5. c \in [Conns -> ConnType] /\ IsFiniteSet(c[k].ids) /\ Cardinality(c[k].ids) = c[k].count
  BY <1>3, <1>4 DEF Good, Typed, PlacesOK
<1>6. n \in Nat /\ nids \subseteq 1..MaxLeases
  <2>1. c[k].count # 0
    BY <1>4, <1>5, FS_EmptySet
  <2>. QED
    BY <1>4, <2>1, SMTT(40) DEF ConnType
<1>7. d = [d1 EXCEPT ![k].count = n]
  BY DEF Returned
<1>8. /\ d[k].state = c[k].state /\ d[k].reader = c[k].reader /\ d[k].writer = c[k].writer
      /\ d[k].next = c[k].next /\ d[k].high = c[k].high /\ d[k].low = c[k].low
      /\ d[k].burst = c[k].burst /\ d[k].waited = c[k].waited
      /\ d[k].ids = nids /\ d[k].count = n /\ d[k].leaked = c[k].leaked
      /\ \A j \in Conns \ {k} : d[j] = c[j]
  BY <1>4, <1>5 DEF ConnType, Returned
<1>. HIDE DEF k, n, nids, d
<1>9. d \in [Conns -> ConnType]
  <2>1. d1 \in [Conns -> ConnType]
    BY <1>4, <1>5, <1>6 DEF ConnType
  <2>. HIDE DEF d1
  <2>. QED
    BY <1>6, <1>7, <2>1, ZenonT(60) DEF ConnType
<1>10. Good(pool, d, nst, heard, leases)
  <2>1. d[k].ids = c[k].ids \ {stream[s].id} /\ d[k].count = c[k].count - 1
    BY <1>8 DEF n, nids
  <2>2. k = stream[s].conn
    BY DEF k
  <2>3. \/ d[k].ids = c[k].ids \ {stream[s].id} /\ d[k].count = c[k].count - 1 /\ d[k].leaked = c[k].leaked
        \/ d[k].ids = c[k].ids /\ d[k].count = c[k].count /\ d[k].leaked = c[k].leaked + 1
    BY <1>8, <2>1
  <2>4. /\ d[k].state = c[k].state /\ d[k].reader = c[k].reader /\ d[k].writer = c[k].writer
        /\ d[k].next = c[k].next /\ d[k].high = c[k].high /\ d[k].low = c[k].low
        /\ d[k].burst = c[k].burst /\ d[k].waited = c[k].waited
    BY <1>8
  <2>5. (\A j \in Conns \ {k} : d[j] = c[j]) /\ leases \in Nat /\ Open(stream, s)
    BY <1>1, <1>2, <1>8
  <2>6. PlaceGone(c, d, stream[s].conn, stream[s].id)
    BY <1>9, <2>2, <2>3, <2>4, <2>5 DEF PlaceGone
  <2>. QED
    BY <1>3, <2>5, <2>6, StreamGone
<1>11. Good(pool, Reclaimed(d, pool, nst), nst, heard, leases)
  BY <1>1, <1>10, ReclaimedGood
<1>12. Good(pool, conn, stream, heard, leases)'
  BY <1>2, <1>11
<1>13. Rest'
  BY <1>1, <1>2, GoneRest
<1>. QED
  BY <1>12, <1>13, Parts, PTL

\* The stream reads the chunk after the last one.
LEMMA ReadInv ==
    ASSUME MuxAssumption, IInv, NEW s \in Streams, Read(s)
    PROVE  IInv'
<1>1. /\ Good(pool, conn, stream, heard, leases) /\ Rest /\ leases \in Nat
      /\ conn \in [Conns -> ConnType] /\ stream \in [Streams -> StreamType]
  BY Start
<1>. DEFINE q == stream[s].data
            f == Head(q)
            n == IF f = 0 THEN stream[s].seen ELSE f
            m == [stream EXCEPT ![s].data = Tail(q)]
            nst == [stream EXCEPT ![s].data = Tail(@), ![s].seen = IF f = 0 THEN @ ELSE f]
<1>2. /\ stream[s].pc = "live" /\ q # <<>> /\ pool' = pool /\ conn' = conn /\ warm' = warm /\ heard' = heard
      /\ leases' = leases /\ frames' = frames /\ strayed' = strayed /\ stream' = nst
      /\ gap' = (gap \/ (f # 0 /\ f # stream[s].seen + 1 /\ ~stream[s].full))
  BY DEF Read
<1>3. q \in Seq(0..MaxFrames) /\ stream[s].seen \in Nat /\ stream[s] \in StreamType
  BY <1>1 DEF StreamType
<1>4. f \in Nat /\ Tail(q) \in Seq(0..MaxFrames) /\ Len(Tail(q)) = Len(q) - 1 /\ Len(q) \in Nat
  <2>1. f \in 0..MaxFrames /\ Tail(q) \in Seq(0..MaxFrames) /\ Len(Tail(q)) = Len(q) - 1 /\ Len(q) \in Nat
    BY <1>2, <1>3, HeadTailProperties, LenProperties
  <2>. QED
    BY <2>1, MuxNumbers
<1>5. /\ nst[s].data = Tail(q) /\ nst[s].seen = n /\ nst[s].pc = stream[s].pc /\ nst[s].conn = stream[s].conn
      /\ nst[s].id = stream[s].id /\ nst[s].lease = stream[s].lease /\ nst[s].full = stream[s].full
      /\ \A t \in Streams : t = s \/ nst[t] = stream[t]
  BY <1>1 DEF StreamType
<1>6. nst = [m EXCEPT ![s].seen = n]
  BY <1>1 DEF StreamType
<1>7. n \in Nat
  BY <1>3, <1>4
<1>. HIDE DEF nst, n
<1>8. nst \in [Streams -> StreamType]
  <2>1. m \in [Streams -> StreamType]
    BY <1>1, <1>4, ZenonT(60) DEF StreamType
  <2>. HIDE DEF m
  <2>. QED
    BY <1>6, <1>7, <2>1, ZenonT(60) DEF StreamType
<1>. HIDE DEF q, f
<1>9. \A t \in Streams : /\ nst[t].pc = stream[t].pc /\ nst[t].conn = stream[t].conn /\ nst[t].id = stream[t].id
                         /\ nst[t].lease = stream[t].lease /\ nst[t].full = stream[t].full
                         /\ Open(nst, t) <=> Open(stream, t)
  BY <1>5 DEF Open
<1>10. ASSUME ~stream[s].full, NEW v \in Nat, InOrder(q, stream[s].seen, v)
       PROVE  InOrder(nst[s].data, nst[s].seen, v) /\ (f # 0 => f = stream[s].seen + 1)
  <2>1. /\ f = 0 => InOrder(Tail(q), stream[s].seen, v)
        /\ f # 0 => f = stream[s].seen + 1 /\ InOrder(Tail(q), f, v)
    BY <1>2, <1>3, <1>10, TailInOrder DEF f
  <2>. QED
    BY <1>5, <2>1 DEF n
<1>11. Good(pool, conn, nst, heard, leases)
  <2>1. /\ Typed(conn, stream, heard) /\ PoolOK(pool, conn) /\ (\A j \in Conns : ConnOK(conn[j], leases))
        /\ PlacesOK(conn, stream) /\ FramesOK(conn, stream, heard) /\ DataOK(conn, stream, heard)
    BY <1>1 DEF Good
  <2>2. ASSUME NEW j PROVE Of(nst, j) = Of(stream, j)
    <3>1. \A t : t \in Of(nst, j) <=> t \in Of(stream, j)
      BY <1>9, OfIs
    <3>. QED
      BY <3>1
  <2>3. ASSUME NEW j, NEW g, Known(g, j, conn, stream) PROVE Known(g, j, conn, nst)
    <3>1. \A t \in Of(stream, j) : nst[t].id = stream[t].id /\ nst[t].pc = stream[t].pc /\ nst[t].lease = stream[t].lease
      BY <1>9, OfIs
    <3>. QED
      BY <2>2, <2>3, <3>1 DEF Known
  <2>4. PlacesOK(conn, nst)
    <3>1. \A t \in Streams : Open(nst, t) => nst[t].conn \in Conns /\ conn[nst[t].conn].state = "used"
      BY <1>9, <2>1 DEF PlacesOK, Open
    <3>2. ASSUME NEW j \in Conns
          PROVE  /\ conn[j].count = Cardinality(Of(nst, j)) + conn[j].leaked
                 /\ IsFiniteSet(conn[j].ids) /\ Cardinality(conn[j].ids) = conn[j].count
                 /\ \A t \in Of(nst, j) : nst[t].id \in conn[j].ids
                 /\ \A t, u \in Of(nst, j) : nst[t].id = nst[u].id => t = u
      <4>1. \A t \in Of(stream, j) : nst[t].id = stream[t].id
        BY <1>9, OfIs
      <4>. QED
        BY <2>1, <2>2, <4>1 DEF PlacesOK
    <3>. QED
      BY <3>1, <3>2 DEF PlacesOK, Open
  <2>5. FramesOK(conn, nst, heard)
    <3>1. \A j \in Conns : QueueOK(conn[j].high, j, conn, nst) /\ QueueOK(conn[j].low, j, conn, nst)
      BY <2>1, <2>3 DEF FramesOK, QueueOK
    <3>2. \A h \in heard : HeardOK(h, conn, nst, heard)
      BY <2>1, <2>3 DEF FramesOK, HeardOK
    <3>. QED
      BY <2>1, <3>1, <3>2 DEF FramesOK
  <2>6. DataOK(conn, nst, heard)
    <3>1. ASSUME NEW t \in Streams, Open(nst, t), ~nst[t].full
          PROVE  \E v \in Nat :
                    /\ InOrder(nst[t].data, nst[t].seen, v)
                    /\ \A h \in heard : h.conn = nst[t].conn /\ h.id = nst[t].id => h.n = v
                    /\ \/ \E h \in heard : h.conn = nst[t].conn /\ h.id = nst[t].id
                       \/ conn[nst[t].conn].reader => v = 0
      <4>1. Open(stream, t) /\ ~stream[t].full /\ nst[t].conn = stream[t].conn /\ nst[t].id = stream[t].id
        BY <1>9, <3>1
      <4>2. PICK v \in Nat :
                    /\ InOrder(stream[t].data, stream[t].seen, v)
                    /\ \A h \in heard : h.conn = stream[t].conn /\ h.id = stream[t].id => h.n = v
                    /\ \/ \E h \in heard : h.conn = stream[t].conn /\ h.id = stream[t].id
                       \/ conn[stream[t].conn].reader => v = 0
        BY <2>1, <4>1 DEF DataOK, Open
      <4>3. InOrder(nst[t].data, nst[t].seen, v)
        <5>1. CASE t = s
          BY <1>10, <4>1, <4>2, <5>1 DEF q
        <5>2. CASE t # s
          BY <1>5, <4>2, <5>2
        <5>. QED
          BY <5>1, <5>2
      <4>. QED
        BY <4>1, <4>2, <4>3
    <3>. QED
      BY <3>1 DEF DataOK, Open
  <2>7. Typed(conn, nst, heard)
    BY <1>8, <2>1 DEF Typed
  <2>. QED
    BY <2>1, <2>4, <2>5, <2>6, <2>7 DEF Good
<1>12. ~gap'
  <2>1. Open(stream, s)
    BY <1>2 DEF Open
  <2>2. ~stream[s].full => \E v \in Nat : InOrder(q, stream[s].seen, v)
    BY <1>1, <2>1 DEF Good, DataOK, Open, q
  <2>3. ~gap
    BY <1>1 DEF Rest
  <2>. QED
    BY <1>2, <1>10, <2>2, <2>3
<1>13. \A t \in Streams : Len(nst[t].data) <= DataSize
  <2>1. Len(nst[s].data) <= DataSize
    <3>1. Len(q) <= DataSize /\ DataSize \in Nat
      BY <1>1, MuxNumbers DEF Rest, q
    <3>. QED
      BY <1>4, <1>5, <3>1
  <2>. QED
    BY <1>1, <1>5, <2>1 DEF Rest
<1>14. Good(pool, conn, stream, heard, leases)'
  BY <1>2, <1>11
<1>15. Rest'
  BY <1>1, <1>2, <1>12, <1>13 DEF Rest
<1>. QED
  BY <1>14, <1>15, Parts, PTL

\* The server hears the frame the writer took, if it opened a stream.
LEMMA WriterWritesInv ==
    ASSUME MuxAssumption, IInv, NEW k \in Conns, WriterWrites(k)
    PROVE  IInv'
<1>1. /\ Good(pool, conn, stream, heard, leases) /\ Rest /\ leases \in Nat /\ frames \in Nat
      /\ conn \in [Conns -> ConnType] /\ conn[k] \in ConnType
  BY Start
<1>. DEFINE low == TakesLow(k)
            f == IF low THEN Head(conn[k].low) ELSE Head(conn[k].high)
            g == [conn |-> k, id |-> f.id, lease |-> f.lease, n |-> 0]
            dl == [conn EXCEPT ![k].low = Tail(@), ![k].burst = 0, ![k].waited = 0]
            dh == [conn EXCEPT ![k].high = Tail(@), ![k].burst = IF @ < Burst + 1 THEN @ + 1 ELSE @,
                               ![k].waited = IF conn[k].low # <<>> THEN @ + 1 ELSE 0]
            d == IF low THEN dl ELSE dh
            nhd == IF f # Other /\ conn[k].reader THEN heard \union {g} ELSE heard
<1>2. /\ pool' = pool /\ stream' = stream /\ warm' = warm /\ leases' = leases /\ frames' = frames
      /\ strayed' = strayed /\ gap' = gap /\ conn' = d /\ heard' = nhd
      /\ (conn[k].high # <<>> \/ conn[k].low # <<>>)
  BY DEF WriterWrites
<1>3. /\ conn[k].high \in Seq(Frame) /\ conn[k].low \in Seq(Frame) /\ conn[k].burst \in Nat /\ Burst \in Nat
  BY <1>1, ConnFields, MuxNumbers
<1>4. /\ QueueOK(conn[k].high, k, conn, stream) /\ QueueOK(conn[k].low, k, conn, stream)
      /\ Apart(conn[k].high, conn[k].low)
      /\ \A h \in heard : h.conn = k =>
            /\ \A i \in 1..Len(conn[k].high) : conn[k].high[i].id # h.id
            /\ \A i \in 1..Len(conn[k].low) : conn[k].low[i].id # h.id
  BY <1>1, QueuesOf
\* The queues are as good without the frame, which no queue has twice.
<1>5. /\ Good(pool, d, stream, heard, leases) /\ d[k].reader = conn[k].reader /\ d[k].next = conn[k].next
      /\ f \in Frame /\ Known(f, k, conn, stream) /\ (f.id = 0 => f = Other)
      /\ f.id # 0 => /\ \A i \in 1..Len(d[k].high) : d[k].high[i].id # f.id
                     /\ \A i \in 1..Len(d[k].low) : d[k].low[i].id # f.id
                     /\ \A h \in heard : h.conn = k => h.id # f.id
  <2>1. CASE low
    <3>1. conn[k].low # <<>> /\ d = dl /\ f = Head(conn[k].low)
      BY <2>1 DEF TakesLow
    <3>2. /\ dl[k].reader = conn[k].reader /\ dl[k].next = conn[k].next
          /\ dl[k].high = conn[k].high /\ dl[k].low = Tail(conn[k].low)
      BY <1>1 DEF ConnType
    <3>3. Good(pool, dl, stream, heard, leases)
      BY <1>1, <3>1, LowTaken
    <3>4. /\ Head(conn[k].low) = conn[k].low[1] /\ Len(conn[k].low) \in Nat \ {0} /\ Head(conn[k].low) \in Frame
          /\ Known(Head(conn[k].low), k, conn, stream) /\ (Head(conn[k].low).id = 0 => Head(conn[k].low) = Other)
          /\ Head(conn[k].low).id # 0 => \A i \in 1..Len(Tail(conn[k].low)) : Tail(conn[k].low)[i].id # Head(conn[k].low).id
      BY <1>3, <1>4, <3>1, Left
    <3>. HIDE DEF d, dl, dh, f, low
    <3>5. 1 \in 1..Len(conn[k].low)
      BY <3>4
    <3>6. f.id # 0 => \A i \in 1..Len(conn[k].high) : conn[k].high[i].id # f.id
      BY <1>4, <3>1, <3>4, <3>5 DEF Apart
    <3>7. f.id # 0 => \A h \in heard : h.conn = k => h.id # f.id
      BY <1>4, <3>1, <3>4, <3>5
    <3>. QED
      BY <3>1, <3>2, <3>3, <3>4, <3>6, <3>7
  <2>2. CASE ~low
    <3>1. conn[k].high # <<>> /\ d = dh /\ f = Head(conn[k].high) /\ (conn[k].low # <<>> => conn[k].burst < Burst)
      BY <1>2, <1>3, <2>2 DEF TakesLow, LowFirst
    <3>2. /\ dh[k].reader = conn[k].reader /\ dh[k].next = conn[k].next
          /\ dh[k].low = conn[k].low /\ dh[k].high = Tail(conn[k].high)
      BY <1>1 DEF ConnType
    <3>3. Good(pool, dh, stream, heard, leases)
      BY <1>1, <3>1, HighTaken
    <3>4. /\ Head(conn[k].high) = conn[k].high[1] /\ Len(conn[k].high) \in Nat \ {0} /\ Head(conn[k].high) \in Frame
          /\ Known(Head(conn[k].high), k, conn, stream) /\ (Head(conn[k].high).id = 0 => Head(conn[k].high) = Other)
          /\ Head(conn[k].high).id # 0 => \A i \in 1..Len(Tail(conn[k].high)) : Tail(conn[k].high)[i].id # Head(conn[k].high).id
      BY <1>3, <1>4, <3>1, Left
    <3>. HIDE DEF d, dl, dh, f, low
    <3>5. 1 \in 1..Len(conn[k].high)
      BY <3>4
    <3>6. f.id # 0 => \A i \in 1..Len(conn[k].low) : conn[k].low[i].id # f.id
      BY <1>4, <3>1, <3>4, <3>5 DEF Apart
    <3>7. f.id # 0 => \A h \in heard : h.conn = k => h.id # f.id
      BY <1>4, <3>1, <3>4, <3>5
    <3>. QED
      BY <3>1, <3>2, <3>3, <3>4, <3>6, <3>7
  <2>. QED
    BY <2>1, <2>2
<1>6. f # Other => f.id # 0
  BY <1>5
<1>. HIDE DEF d, f, low
<1>7. Good(pool, d, stream, nhd, leases)
  <2>1. CASE f # Other /\ conn[k].reader
    <3>1. g \in HeardType /\ g.conn = k /\ g.id = f.id /\ g.lease = f.lease /\ g.n = 0
      BY <1>5, MuxNumbers DEF Frame, HeardType
    <3>. HIDE DEF g
    <3>2. Known(g, k, d, stream)
      BY <1>5, <3>1 DEF Known
    <3>3. Good(pool, d, stream, heard \union {g}, leases)
      BY <1>5, <1>6, <2>1, <3>1, <3>2, Heard
    <3>. QED
      BY <2>1, <3>3
  <2>2. CASE ~(f # Other /\ conn[k].reader)
    BY <1>5, <2>2
  <2>. QED
    BY <2>1, <2>2
<1>8. Good(pool, conn, stream, heard, leases)'
  BY <1>2, <1>7
<1>9. \A h \in nhd : h.n <= frames
  BY <1>1 DEF Rest
<1>10. Rest'
  BY <1>1, <1>2, <1>9 DEF Rest
<1>. QED
  BY <1>8, <1>10, Parts, PTL

\* A task of a connection ends.
LEMMA EndsInv ==
    ASSUME MuxAssumption, IInv, NEW k \in Conns, WriterEnds(k) \/ ReaderEnds(k)
    PROVE  IInv'
<1>1. Good(pool, conn, stream, heard, leases) /\ Rest /\ leases \in Nat
  BY Start
<1>2. /\ pool' = pool /\ stream' = stream /\ warm' = warm /\ leases' = leases /\ frames' = frames
      /\ strayed' = strayed /\ gap' = gap /\ heard' \subseteq heard
  BY DEF WriterEnds, ReaderEnds
<1>3. Good(pool, conn, stream, heard, leases)'
  <2>1. CASE WriterEnds(k)
    <3>. DEFINE d == [conn EXCEPT ![k].writer = FALSE, ![k].high = <<>>, ![k].low = <<>>,
                                  ![k].burst = 0, ![k].waited = 0]
    <3>1. conn' = Reclaimed(d, pool, stream) /\ heard' = heard
      BY <2>1 DEF WriterEnds
    <3>2. Good(pool, d, stream, heard, leases)
      BY <1>1, WriterGone
    <3>. HIDE DEF d
    <3>3. Good(pool, Reclaimed(d, pool, stream), stream, heard, leases)
      BY <1>1, <3>2, ReclaimedGood
    <3>. QED
      BY <1>2, <3>1, <3>3
  <2>2. CASE ReaderEnds(k)
    <3>. DEFINE d == [conn EXCEPT ![k].reader = FALSE]
                nhd == {h \in heard : h.conn # k}
    <3>1. conn' = Reclaimed(d, pool, stream) /\ heard' = nhd
      BY <2>2 DEF ReaderEnds
    <3>2. Good(pool, d, stream, nhd, leases)
      BY <1>1, ReaderGone
    <3>. HIDE DEF d, nhd
    <3>3. Good(pool, Reclaimed(d, pool, stream), stream, nhd, leases)
      BY <1>1, <3>2, ReclaimedGood
    <3>. QED
      BY <1>2, <3>1, <3>3
  <2>. QED
    BY <2>1, <2>2
<1>4. Rest'
  BY <1>1, <1>2 DEF Rest
<1>. QED
  BY <1>3, <1>4, Parts, PTL

\* A frame of the server is delivered, or nobody is there for it.
LEMMA ReaderReadsInv ==
    ASSUME MuxAssumption, IInv, NEW k \in Conns, NEW h \in heard, NEW close \in BOOLEAN, ReaderReads(k, h, close)
    PROVE  IInv'
<1>1. /\ Good(pool, conn, stream, heard, leases) /\ Rest /\ leases \in Nat /\ frames \in Nat
  BY Start
<1>. DEFINE to == To(conn, stream, k, h)
            nst == Got(stream, to, Chunk(h, close))
            nhd == Answered(heard, h, close)
<1>2. /\ h.conn = k /\ frames < MaxFrames /\ frames' = frames + 1 /\ pool' = pool /\ conn' = conn /\ warm' = warm
      /\ leases' = leases /\ gap' = gap /\ stream' = nst /\ heard' = nhd
      /\ strayed' = (strayed \/ \E s \in to : stream[s].lease # h.lease)
  BY DEF ReaderReads, Held, To, Got, Chunk, Answered
<1>3. /\ h.n \in Nat /\ h.n <= frames /\ h.n < MaxFrames /\ MaxFrames \in Nat
  <2>1. h.n \in 0..MaxFrames /\ h.n <= frames
    BY <1>1 DEF Rest, Good, Typed, HeardType
  <2>2. MaxFrames \in Nat
    BY MuxNumbers
  <2>. QED
    BY <1>1, <1>2, <2>1, <2>2
<1>4. \A s \in Streams : Len(stream[s].data) <= DataSize
  BY <1>1 DEF Rest
<1>5. Good(pool, conn, nst, nhd, leases)
  BY <1>1, <1>2, <1>3, <1>4, Delivered
<1>6. \A s \in to : stream[s].lease = h.lease
  BY <1>1, <1>2, <1>3, <1>4, Delivered
<1>7. \A s \in Streams : Len(nst[s].data) <= DataSize
  BY <1>1, <1>2, <1>3, <1>4, Delivered
<1>8. \A i \in nhd : i.n = h.n + 1 \/ i \in heard
  BY <1>1, <1>2, <1>3, <1>4, Delivered
<1>. HIDE DEF nst, nhd, to
<1>9. Good(pool, conn, stream, heard, leases)'
  BY <1>2, <1>5
<1>10. \A i \in nhd : i.n <= frames + 1
  <2>1. \A i \in heard : i.n \in Nat /\ i.n <= frames
    <3>1. \A i \in heard : i.n \in 0..MaxFrames
      BY <1>1 DEF Good, Typed, HeardType
    <3>. QED
      BY <1>1, <1>3, <3>1 DEF Rest
  <2>. QED
    BY <1>1, <1>3, <1>8, <2>1
<1>11. frames + 1 \in 0..MaxFrames
  BY <1>1, <1>2, <1>3
<1>12. Rest'
  BY <1>1, <1>2, <1>6, <1>7, <1>10, <1>11 DEF Rest
<1>. QED
  BY <1>9, <1>12, Parts, PTL

\* The invariant holds at first, and every step preserves it.
LEMMA InitIInv ==
    ASSUME MuxAssumption, Init
    PROVE  IInv
<1>1. /\ pool = <<>> /\ conn = [k \in Conns |-> NoConn] /\ stream = [s \in Streams |-> NoStream]
      /\ warm = "check" /\ heard = {} /\ leases = 0 /\ frames = 0 /\ strayed = FALSE /\ gap = FALSE
  BY DEF Init
<1>2. /\ \A k \in Conns : conn[k] = NoConn
      /\ \A s \in Streams : stream[s] = NoStream /\ ~Open(stream, s)
  BY <1>1, NoStreamFacts DEF Open
<1>3. Typed(conn, stream, heard)
  BY <1>1, NoConnFacts, NoStreamFacts DEF Typed
<1>4. PoolOK(pool, conn)
  BY <1>1 DEF PoolOK
<1>5. ASSUME NEW k \in Conns PROVE ConnOK(conn[k], leases)
  <2>1. Len(<<>>) = 0
    OBVIOUS
  <2>2. /\ NoConn.waited <= NoConn.burst /\ NoConn.waited <= Burst /\ NoConn.next <= 0 + 1
        /\ NoConn.count <= MaxStreams
    BY NoConnFacts, MuxNumbers
  <2>3. Len(NoConn.high) <= QueueSize /\ Len(NoConn.low) <= QueueSize
    BY <2>1, NoConnFacts, MuxNumbers
  <2>4. NoConn.ids \subseteq 1..(NoConn.next - 1) /\ ~NoConn.writer /\ ~NoConn.reader
    BY NoConnFacts
  <2>5. ConnOK(NoConn, 0)
    BY <2>2, <2>3, <2>4 DEF ConnOK
  <2>. QED
    BY <1>1, <1>2, <2>5
<1>6. PlacesOK(conn, stream)
  <2>1. ASSUME NEW k \in Conns PROVE Of(stream, k) = {}
    BY <1>2, OfIs
  <2>2. IsFiniteSet({}) /\ Cardinality({}) = 0
    BY FS_EmptySet
  <2>3. \A k \in Conns : conn[k].count = 0 /\ conn[k].leaked = 0 /\ conn[k].ids = {}
    BY <1>2, NoConnFacts
  <2>. QED
    BY <1>2, <2>1, <2>2, <2>3, SMTT(40) DEF PlacesOK, Open
<1>7. FramesOK(conn, stream, heard)
  <2>1. Len(<<>>) = 0
    OBVIOUS
  <2>2. \A k \in Conns : Len(conn[k].high) = 0 /\ Len(conn[k].low) = 0
    BY <1>2, <2>1, NoConnFacts
  <2>. QED
    BY <1>1, <2>2 DEF FramesOK, QueueOK, Apart
<1>8. DataOK(conn, stream, heard)
  BY <1>2 DEF DataOK, Open
<1>9. Rest
  <2>1. Len(<<>>) = 0
    OBVIOUS
  <2>. QED
    BY <1>1, <1>2, <2>1, NoStreamFacts, MuxNumbers DEF Rest
<1>. QED
  BY <1>3, <1>4, <1>5, <1>6, <1>7, <1>8, <1>9, Parts DEF Good

\* Each step has its lemma.
LEMMA NextIInv ==
    ASSUME MuxAssumption, IInv, [Next]_vars
    PROVE  IInv'
<1>1. ASSUME NEW s \in Streams, NEW udp \in BOOLEAN, Lease(s, udp) PROVE IInv'
  BY <1>1, LeaseInv
<1>2. ASSUME NEW s \in Streams, (\E k \in Conns : Connected(s, k)) \/ ConnectFails(s) PROVE IInv'
  BY <1>2, ConnectInv
<1>3. ASSUME NEW s \in Streams, Opened(s) PROVE IInv'
  BY <1>3, OpenedInv
<1>4. ASSUME NEW s \in Streams, OpenFails(s) PROVE IInv'
  BY <1>4, OpenFailsInv
<1>5. ASSUME NEW s \in Streams, Write(s) \/ Shutdown(s) PROVE IInv'
  BY <1>5, SendInv
<1>6. ASSUME NEW s \in Streams, Drop(s) PROVE IInv'
  BY <1>6, DropInv
<1>7. ASSUME NEW s \in Streams, Read(s) PROVE IInv'
  BY <1>7, ReadInv
<1>8. ASSUME WarmCheck \/ WarmFails \/ \E k \in Conns : WarmConnected(k) PROVE IInv'
  BY <1>8, WarmInv
<1>9. ASSUME NEW k \in Conns, WriterWrites(k) PROVE IInv'
  BY <1>9, WriterWritesInv
<1>10. ASSUME NEW k \in Conns, WriterEnds(k) \/ ReaderEnds(k) PROVE IInv'
  BY <1>10, EndsInv
<1>11. ASSUME NEW k \in Conns, NEW h \in heard, NEW close \in BOOLEAN, ReaderReads(k, h, close) PROVE IInv'
  BY <1>11, ReaderReadsInv
<1>12. ASSUME UNCHANGED vars PROVE IInv'
  <2>1. /\ Good(pool, conn, stream, heard, leases)' <=> Good(pool, conn, stream, heard, leases)
        /\ Rest' <=> Rest
    BY <1>12 DEF vars, Rest
  <2>. QED
    BY <2>1, Parts, PTL
<1>. QED
  BY <1>1, <1>2, <1>3, <1>4, <1>5, <1>6, <1>7, <1>8, <1>9, <1>10, <1>11, <1>12 DEF Next

\* The invariant says what is checked.
LEMMA IInvImplies ==
    ASSUME MuxAssumption, IInv
    PROVE  TypeOK /\ CountsExact /\ StreamsSeparate /\ GapOnlyWhenFull /\ LowPriorityServed
<1>1. /\ Good(pool, conn, stream, heard, leases) /\ Rest /\ leases \in Nat
      /\ conn \in [Conns -> ConnType] /\ stream \in [Streams -> StreamType]
  BY Start
<1>2. PoolOK(pool, conn) /\ (\A k \in Conns : ConnOK(conn[k], leases)) /\ PlacesOK(conn, stream)
  BY <1>1 DEF Good
<1>3. pool \in Seq(Conns) /\ Len(pool) = Cardinality(Pooled(pool))
  <2>. DEFINE n == Len(pool)
  <2>1. pool \in Seq(Conns) /\ n \in Nat /\ DOMAIN pool = 1..n
    BY <1>2, LenProperties DEF PoolOK
  <2>2. pool \in Surjection(1..n, Pooled(pool))
    BY <2>1 DEF Surjection, Pooled
  <2>3. pool \in Injection(1..n, Pooled(pool))
    <3>1. pool \in [1..n -> Pooled(pool)]
      BY <2>1 DEF Pooled
    <3>2. \A i, j \in DOMAIN pool : pool[i] = pool[j] => i = j
      BY <1>2 DEF PoolOK
    <3>. HIDE DEF n
    <3>. QED
      BY <3>1, <3>2 DEF Injection, IsInjective
  <2>. HIDE DEF n
  <2>4. IsFiniteSet(1..n) /\ Cardinality(1..n) = n
    <3>1. 1 \in Int /\ n \in Int
      BY <2>1
    <3>2. IsFiniteSet(1..n) /\ Cardinality(1..n) = IF 1 > n THEN 0 ELSE n - 1 + 1
      BY <3>1, FS_Interval
    <3>. QED
      BY <2>1, <3>2
  <2>5. Cardinality(Pooled(pool)) = Cardinality(1..n)
    BY <2>2, <2>3, <2>4, FS_Surjection
  <2>. QED
    BY <2>1, <2>4, <2>5 DEF n
<1>4. ASSUME NEW k \in Conns
      PROVE  /\ conn[k].high \in Seq(Frame) /\ Len(conn[k].high) <= QueueSize
             /\ conn[k].low \in Seq(Frame) /\ Len(conn[k].low) <= QueueSize
             /\ conn[k].next \in 1..(MaxLeases + 1) /\ conn[k].ids \subseteq 1..MaxLeases
             /\ conn[k].count \in 0..MaxStreams
  <2>1. /\ conn[k].high \in Seq(Frame) /\ conn[k].low \in Seq(Frame) /\ conn[k].next \in Nat \ {0}
        /\ conn[k].ids \subseteq 1..MaxLeases /\ conn[k].count \in Nat
    BY <1>1, ConnFields
  <2>2. /\ Len(conn[k].high) <= QueueSize /\ Len(conn[k].low) <= QueueSize
        /\ conn[k].next <= leases + 1 /\ conn[k].count <= MaxStreams
    BY <1>2 DEF ConnOK
  <2>3. leases <= MaxLeases /\ MaxLeases \in Nat /\ MaxStreams \in Nat
    BY <1>1, MuxNumbers DEF Rest
  <2>4. \A x \in Nat \ {0} : x <= leases + 1 => x \in 1..(MaxLeases + 1)
    BY <1>1, <2>3
  <2>5. conn[k].next \in 1..(MaxLeases + 1)
    BY <2>1, <2>2, <2>4
  <2>. QED
    BY <2>1, <2>2, <2>3, <2>5
<1>5. ASSUME NEW s \in Streams
      PROVE  /\ stream[s].pc \in {"idle", "lease", "connecting", "opening", "live"}
             /\ stream[s].conn \in Conns \union {None}
             /\ stream[s].data \in Seq(0..MaxFrames) /\ Len(stream[s].data) <= DataSize
  BY <1>1 DEF StreamType, Rest
<1>6. TypeOK
  BY <1>1, <1>3, <1>4, <1>5 DEF TypeOK, Rest
<1>7. CountsExact
  BY <1>2 DEF CountsExact, PlacesOK, Held
<1>8. LowPriorityServed
  BY <1>2 DEF LowPriorityServed, ConnOK
<1>9. StreamsSeparate /\ GapOnlyWhenFull
  BY <1>1 DEF Rest, StreamsSeparate, GapOnlyWhenFull
<1>. QED
  BY <1>6, <1>7, <1>8, <1>9

\* What every state of the pool satisfies.
THEOREM SpecIInv ==
    ASSUME MuxAssumption
    PROVE  Spec => []IInv
<1>1. Init => IInv
  BY InitIInv
<1>2. IInv /\ [Next]_vars => IInv'
  BY NextIInv
<1>. QED
  BY <1>1, <1>2, PTL DEF Spec
=============================================================================
