---------------------------- MODULE DoorsProofs ----------------------------
(***************************************************************************)
(* The ways in, for every size of their tables and windows.  First the      *)
(* admission of Handshake: the semaphore never leaks, the per-host counters *)
(* are exact, and the per-host limit holds; the inductive invariant is IInv. *)
(* Then what Doors puts beside it, each with the IInv of its module: the     *)
(* UDP associations of Socks5Udp, the snapshots of Dashboard, the limit of   *)
(* SubLimiter and the relays of Relays; and last all of them together.       *)
(***************************************************************************)
EXTENDS Doors, FiniteSetTheorems, SequenceTheorems, WellFoundedInduction, TLAPS

\* Any set of connections is finite, so its cardinality is a number.
LEMMA ConnSetsFinite ==
    ASSUME NEW T \in SUBSET Conns
    PROVE  IsFiniteSet(T) /\ Cardinality(T) \in Nat
BY HandshakeAssumption, FS_Subset, FS_CardinalityType

\* The set of guarded connections, and one host's share of it, when a
\* connection enters the handshake (Admit).
LEMMA EnterSets ==
    ASSUME IInv, NEW c \in Conns, NEW a \in Addrs,
           phase[c] \notin Guarded,
           phase' = [phase EXCEPT ![c] = "reading"],
           src' = [src EXCEPT ![c] = a]
    PROVE  /\ InHandshake' = InHandshake \cup {c}
           /\ c \notin InHandshake
           /\ FromHost(HostOf[a])' = FromHost(HostOf[a]) \cup {c}
           /\ c \notin FromHost(HostOf[a])
           /\ \A h \in Hosts \ {HostOf[a]} : FromHost(h)' = FromHost(h)
<1>1. phase \in [Conns -> Phases] /\ src \in [Conns -> Addrs \cup {NoAddr}]
  BY DEF IInv, TypeOK
<1>2. InHandshake' = InHandshake \cup {c}
  BY <1>1 DEF InHandshake, Guarded
<1>3. c \notin InHandshake
  BY DEF InHandshake
<1>4. \A d \in Conns \ {c} : src'[d] = src[d]
  BY <1>1
<1>5. src'[c] = a
  BY <1>1
<1>. QED
  BY <1>2, <1>3, <1>4, <1>5 DEF FromHost, InHandshake

\* The same sets when a guard is dropped (Release).
LEMMA LeaveSets ==
    ASSUME IInv, NEW c \in InHandshake,
           NEW next \in {"idle", "established"}, Release(c, next),
           NEW h \in Hosts, h = HostOf[src[c]]
    PROVE  /\ InHandshake' = InHandshake \ {c}
           /\ FromHost(h)' = FromHost(h) \ {c}
           /\ c \in FromHost(h)
           /\ \A x \in Hosts \ {h} : FromHost(x)' = FromHost(x)
<1>1. phase \in [Conns -> Phases] /\ src \in [Conns -> Addrs \cup {NoAddr}]
  BY DEF IInv, TypeOK
<1>2. c \in Conns /\ phase[c] \in Guarded
  BY DEF InHandshake
<1>3. phase' = [phase EXCEPT ![c] = next] /\ next \notin Guarded
  BY DEF Release, Guarded
<1>4. InHandshake' = InHandshake \ {c}
  BY <1>1, <1>2, <1>3 DEF InHandshake
<1>5. \A d \in Conns \ {c} : src'[d] = src[d]
  BY <1>1, <1>2 DEF Release
<1>. QED
  BY <1>2, <1>4, <1>5 DEF FromHost, InHandshake

\* Steps that keep every guarded connection where it is keep the invariant.
LEMMA SameSets ==
    ASSUME IInv, TypeOK', permits' = permits, active' = active,
           InHandshake' = InHandshake,
           \A c \in InHandshake : src'[c] = src[c]
    PROVE  IInv'
<1>1. \A h \in Hosts : FromHost(h)' = FromHost(h)
  BY DEF FromHost
<1>. QED
  BY <1>1 DEF IInv, SrcKnown, PermitsConserved, CountsExact, HostLimit, Hosts

\* Nobody is in the handshake at start.
THEOREM InitIInv == Init => IInv
<1>. SUFFICES ASSUME Init PROVE IInv
  OBVIOUS
<1>1. InHandshake = {}
  BY DEF Init, InHandshake, Guarded
<1>2. \A h \in Hosts : FromHost(h) = {}
  BY <1>1 DEF FromHost
<1>3. TypeOK
  BY HandshakeAssumption DEF Init, TypeOK, Phases, Guarded
<1>4. SrcKnown /\ PermitsConserved
  BY <1>1, FS_EmptySet, HandshakeAssumption DEF Init, SrcKnown, PermitsConserved
<1>5. CountsExact
  BY <1>2 DEF Init, CountsExact
<1>6. HostLimit
  BY <1>2, FS_EmptySet, HandshakeAssumption DEF HostLimit
<1>. QED
  BY <1>3, <1>4, <1>5, <1>6 DEF IInv

\* Admit takes one permit and one slot of the host for one new guard.
LEMMA AdmitIInv ==
    ASSUME IInv, NEW c \in Conns, NEW a \in Addrs, Admit(c, a)
    PROVE  IInv'
<1>. DEFINE h == HostOf[a]
<1>. USE HandshakeAssumption
<1>1. h \in Hosts
  BY DEF Hosts, Range
<1>2. phase[c] \notin Guarded
  BY DEF Admit, Guarded
<1>3. /\ InHandshake' = InHandshake \cup {c} /\ c \notin InHandshake
      /\ FromHost(h)' = FromHost(h) \cup {c} /\ c \notin FromHost(h)
      /\ \A x \in Hosts \ {h} : FromHost(x)' = FromHost(x)
  BY <1>2, EnterSets DEF Admit
<1>4. /\ IsFiniteSet(InHandshake) /\ Cardinality(InHandshake) \in Nat
      /\ \A x \in Hosts : IsFiniteSet(FromHost(x)) /\ Cardinality(FromHost(x)) \in Nat
  BY ConnSetsFinite DEF InHandshake, FromHost
<1>5. Cardinality(InHandshake') = Cardinality(InHandshake) + 1
  BY <1>3, <1>4, FS_AddElement
<1>6. Cardinality(FromHost(h)') = Cardinality(FromHost(h)) + 1
  BY <1>1, <1>3, <1>4, FS_AddElement, ZenonT(60)
<1>7. Count(h) = Cardinality(FromHost(h)) /\ Count(h) \in Nat
  BY <1>1, <1>4, FS_EmptySet DEF IInv, CountsExact, Count
<1>8. /\ active' = [x \in DOMAIN active \cup {h} |-> IF x = h THEN Count(h) + 1 ELSE active[x]]
      /\ permits' = permits - 1 /\ permits > 0 /\ Count(h) < PerHost
  BY DEF Admit, Track
<1>9. TypeOK'
  <2>1. permits' \in 0..Permits
    BY <1>8 DEF IInv, TypeOK
  <2>2. DOMAIN active' \subseteq Hosts /\ \A x \in DOMAIN active' : active'[x] \in Nat
    BY <1>1, <1>7, <1>8 DEF IInv, TypeOK
  <2>. QED
    BY <2>1, <2>2 DEF Admit, IInv, TypeOK, Phases, Guarded
<1>10. SrcKnown'
  BY <1>3 DEF SrcKnown, Admit, IInv, TypeOK, InHandshake
<1>11. PermitsConserved'
  BY <1>4, <1>5, <1>8 DEF IInv, PermitsConserved, TypeOK
<1>12. CountsExact'
  <2>. SUFFICES ASSUME NEW x \in Hosts
                PROVE  IF x \in DOMAIN active'
                       THEN active'[x] = Cardinality(FromHost(x)') /\ active'[x] > 0
                       ELSE FromHost(x)' = {}
    BY DEF CountsExact, Hosts
  <2>1. CASE x = h
    BY <2>1, <1>4, <1>6, <1>7, <1>8
  <2>2. CASE x # h
    BY <2>2, <1>3, <1>8 DEF IInv, CountsExact
  <2>. QED
    BY <2>1, <2>2
<1>13. HostLimit'
  <2>. SUFFICES ASSUME NEW x \in Hosts PROVE Cardinality(FromHost(x)') <= PerHost
    BY DEF HostLimit, Hosts
  <2>1. CASE x = h
    BY <2>1, <1>4, <1>6, <1>7, <1>8
  <2>2. CASE x # h
    BY <2>2, <1>3 DEF IInv, HostLimit
  <2>. QED
    BY <2>1, <2>2
<1>. QED
  BY <1>9, <1>10, <1>11, <1>12, <1>13 DEF IInv

\* Dropping a guard gives back exactly what Admit took.
LEMMA ReleaseIInv ==
    ASSUME IInv, NEW c \in InHandshake,
           NEW next \in {"idle", "established"}, Release(c, next)
    PROVE  IInv'
<1>. USE HandshakeAssumption
<1>1. c \in Conns /\ src[c] \in Addrs /\ HostOf[src[c]] \in Hosts
  BY DEF IInv, SrcKnown, InHandshake, Hosts, Range
<1>2. PICK h \in Hosts : h = HostOf[src[c]]
  BY <1>1
<1>3. /\ InHandshake' = InHandshake \ {c}
      /\ FromHost(h)' = FromHost(h) \ {c} /\ c \in FromHost(h)
      /\ \A x \in Hosts \ {h} : FromHost(x)' = FromHost(x)
  BY <1>2, LeaveSets
<1>4. /\ IsFiniteSet(InHandshake) /\ Cardinality(InHandshake) \in Nat
      /\ Cardinality(InHandshake') \in Nat
      /\ \A x \in Hosts : IsFiniteSet(FromHost(x)) /\ Cardinality(FromHost(x)) \in Nat
  BY <1>3, ConnSetsFinite DEF InHandshake, FromHost
<1>5. Cardinality(InHandshake') = Cardinality(InHandshake) - 1
  BY <1>3, <1>4, FS_RemoveElement
<1>6. Cardinality(FromHost(h)') = Cardinality(FromHost(h)) - 1
  BY <1>1, <1>3, <1>4, FS_RemoveElement, ZenonT(60)
<1>7. h \in DOMAIN active /\ active[h] = Cardinality(FromHost(h)) /\ active[h] > 0
  BY <1>1, <1>3 DEF IInv, CountsExact
<1>8. permits' = permits + 1
  BY DEF Release
<1>9. /\ DOMAIN active' \subseteq DOMAIN active
      /\ h \in DOMAIN active' <=> active[h] > 1
      /\ h \in DOMAIN active' => active'[h] = active[h] - 1
      /\ \A x \in Hosts \ {h} : /\ x \in DOMAIN active' <=> x \in DOMAIN active
                                /\ x \in DOMAIN active => active'[x] = active[x]
  <2>1. CASE active[h] > 1
    <3>1. active' = [active EXCEPT ![h] = @ - 1]
      BY <2>1, <1>2, <1>7 DEF Release, Untrack
    <3>. QED
      BY <3>1, <2>1, <1>7
  <2>2. CASE ~(active[h] > 1)
    <3>1. active' = [x \in DOMAIN active \ {h} |-> active[x]]
      BY <2>2, <1>2, <1>7 DEF Release, Untrack, Restrict
    <3>. QED
      BY <3>1, <2>2
  <2>. QED
    BY <2>1, <2>2
<1>10. TypeOK'
  <2>1. permits' \in 0..Permits
    BY <1>4, <1>5, <1>8 DEF IInv, TypeOK, PermitsConserved
  <2>2. DOMAIN active' \subseteq Hosts /\ \A x \in DOMAIN active' : active'[x] \in Nat
    BY <1>1, <1>7, <1>9 DEF IInv, TypeOK
  <2>3. phase' \in [Conns -> Phases]
    BY <1>1 DEF Release, IInv, TypeOK, Phases, Guarded
  <2>4. src' \in [Conns -> Addrs \cup {NoAddr}]
    BY <1>1 DEF Release, IInv, TypeOK
  <2>. QED
    BY <2>1, <2>2, <2>3, <2>4 DEF TypeOK, Hosts
<1>11. SrcKnown'
  BY <1>1, <1>3 DEF SrcKnown, Release, IInv, TypeOK, InHandshake
<1>12. PermitsConserved'
  BY <1>4, <1>5, <1>8 DEF IInv, PermitsConserved, TypeOK
<1>13. CountsExact'
  <2>. SUFFICES ASSUME NEW x \in Hosts
                PROVE  IF x \in DOMAIN active'
                       THEN active'[x] = Cardinality(FromHost(x)') /\ active'[x] > 0
                       ELSE FromHost(x)' = {}
    BY DEF CountsExact, Hosts
  <2>1. CASE x = h
    <3>1. IsFiniteSet(FromHost(h)')
      BY <1>1, <1>3, <1>4, FS_RemoveElement
    <3>2. Cardinality(FromHost(h)') = 0 <=> FromHost(h)' = {}
      BY <3>1, FS_EmptySet
    <3>. QED
      BY <2>1, <3>2, <1>1, <1>4, <1>6, <1>7, <1>9
  <2>2. CASE x # h
    BY <2>2, <1>3, <1>9 DEF IInv, CountsExact
  <2>. QED
    BY <2>1, <2>2
<1>14. HostLimit'
  <2>. SUFFICES ASSUME NEW x \in Hosts PROVE Cardinality(FromHost(x)') <= PerHost
    BY DEF HostLimit, Hosts
  <2>1. CASE x = h
    BY <2>1, <1>1, <1>4, <1>6 DEF IInv, HostLimit
  <2>2. CASE x # h
    BY <2>2, <1>3 DEF IInv, HostLimit
  <2>. QED
    BY <2>1, <2>2
<1>. QED
  BY <1>10, <1>11, <1>12, <1>13, <1>14 DEF IInv

\* Every step of the system preserves the invariant.
THEOREM NextIInv == IInv /\ [Next]_vars => IInv'
<1>. SUFFICES ASSUME IInv, [Next]_vars PROVE IInv'
  OBVIOUS
<1>1. CASE UNCHANGED vars
  BY <1>1 DEF vars, IInv, TypeOK, SrcKnown, PermitsConserved, CountsExact, HostLimit,
              InHandshake, FromHost, Hosts
<1>2. ASSUME NEW c \in Conns, Refuse(c), phase[c] = "idle" PROVE IInv'
  <2>1. TypeOK' /\ InHandshake' = InHandshake
    BY <1>2 DEF Refuse, IInv, TypeOK, InHandshake, Phases, Guarded, Hosts
  <2>. QED
    BY <1>2, <2>1, SameSets DEF Refuse
<1>3. ASSUME NEW c \in Conns, RejectNoPermit(c) PROVE IInv'
  BY <1>3, <1>2 DEF RejectNoPermit
<1>4. ASSUME NEW c \in Conns, NEW a \in Addrs, RejectHostLimit(c, a) PROVE IInv'
  BY <1>4, <1>2 DEF RejectHostLimit
<1>5. ASSUME NEW c \in Conns, NEW a \in Addrs, RejectMapFull(c, a) PROVE IInv'
  BY <1>5, <1>2 DEF RejectMapFull
<1>6. ASSUME NEW c \in Conns, NEW a \in Addrs, Admit(c, a) PROVE IInv'
  BY <1>6, AdmitIInv
<1>7. ASSUME NEW c \in Conns, HelloAccepted(c) \/ HelloUnknown(c) PROVE IInv'
  <2>1. TypeOK' /\ InHandshake' = InHandshake /\ permits' = permits
        /\ active' = active /\ src' = src
    BY <1>7 DEF HelloAccepted, HelloUnknown, IInv, TypeOK, InHandshake, Phases, Guarded, Hosts
  <2>. QED
    BY <2>1, SameSets
<1>8. ASSUME NEW c \in Conns, TlsDone(c) PROVE IInv'
  BY <1>8, ReleaseIInv DEF TlsDone, InHandshake, Guarded
<1>9. ASSUME NEW c \in Conns, HandshakeFails(c) PROVE IInv'
  BY <1>9, ReleaseIInv DEF HandshakeFails, InHandshake
<1>10. ASSUME NEW c \in Conns, HandshakeTimeout(c) PROVE IInv'
  BY <1>10, ReleaseIInv DEF HandshakeTimeout, InHandshake
<1>11. ASSUME NEW c \in Conns, Close(c) PROVE IInv'
  <2>1. TypeOK' /\ InHandshake' = InHandshake /\ permits' = permits /\ active' = active
    BY <1>11 DEF Close, IInv, TypeOK, InHandshake, Phases, Guarded, Hosts
  <2>2. \A d \in InHandshake : src'[d] = src[d]
    BY <1>11 DEF Close, IInv, TypeOK, InHandshake, Guarded
  <2>. QED
    BY <2>1, <2>2, SameSets
<1>. QED
  BY <1>1, <1>3, <1>4, <1>5, <1>6, <1>7, <1>8, <1>9, <1>10, <1>11 DEF Next

\* A tracked host is the host of some guarded connection, so there are never
\* more tracked hosts than permits in use.
LEMMA IInvImpliesMapBounded == IInv => MapBounded
<1>. SUFFICES ASSUME IInv PROVE MapBounded
  OBVIOUS
<1>. DEFINE hostOf == [c \in InHandshake |-> HostOf[src[c]]]
            hit == {hostOf[c] : c \in InHandshake}
<1>1. IsFiniteSet(InHandshake) /\ Cardinality(InHandshake) \in Nat
  BY ConnSetsFinite DEF InHandshake
<1>2. DOMAIN active \subseteq hit
  <2>. SUFFICES ASSUME NEW h \in DOMAIN active PROVE h \in hit
    OBVIOUS
  <2>1. h \in Hosts /\ Cardinality(FromHost(h)) > 0
    BY DEF IInv, CountsExact, TypeOK
  <2>2. FromHost(h) # {}
    BY <2>1, FS_EmptySet
  <2>. QED
    BY <2>2 DEF FromHost
<1>3. hostOf \in Surjection(InHandshake, hit)
  BY DEF Surjection
<1>4. IsFiniteSet(hit) /\ Cardinality(hit) <= Cardinality(InHandshake)
  BY <1>1, <1>3, FS_Surjection
<1>5. Cardinality(DOMAIN active) <= Cardinality(hit) /\ Cardinality(DOMAIN active) \in Nat
      /\ Cardinality(hit) \in Nat
  BY <1>2, <1>4, FS_Subset, FS_CardinalityType
<1>. QED
  BY <1>1, <1>4, <1>5, HandshakeAssumption DEF IInv, PermitsConserved, TypeOK, MapBounded

\* The admission control of accept_reality_bounded is correct for every number
\* of sockets, addresses, permits and slots: its state is well typed, permits
\* are conserved, the counters are exact, and no host exceeds its share.
THEOREM AdmissionCorrect == Spec => [](TypeOK /\ PermitsConserved /\ CountsExact /\ HostLimit)
<1>1. IInv => TypeOK /\ PermitsConserved /\ CountsExact /\ HostLimit
  BY DEF IInv
<1>. QED
  BY InitIInv, NextIInv, <1>1, PTL DEF Spec

\* The tracking map holds at most one entry per permit in use; with a map
\* larger than the semaphore its "full" refusal is unreachable.
THEOREM TrackingMapBounded == Spec => []MapBounded
BY InitIInv, NextIInv, IInvImpliesMapBounded, PTL DEF Spec
-----------------------------------------------------------------------------
(***************************************************************************)
(* Socks5Udp: until the counter of ids has gone round, the two maps of     *)
(* get_or_create_association name each other and a reply reaches only the  *)
(* address it answers.                                                     *)
(***************************************************************************)

\* Socks's finite sets and cardinalities are the library's.
LEMMA SocksSets ==
    ASSUME NEW T
    PROVE  (S!IsFiniteSet(T) <=> IsFiniteSet(T)) /\ S!Cardinality(T) = Cardinality(T)
<1>1. S!IsFiniteSet(T) <=> IsFiniteSet(T)
  BY DEF S!IsFiniteSet, IsFiniteSet
<1>2. S!Cardinality(T) = Cardinality(T)
  BY DEF S!Cardinality, Cardinality
<1>. QED
  BY <1>1, <1>2

Handler == [pc : {"none", "loop", "lock", "locked"}, from : SocksAddrs \union {S!None}]
Packet == [id : S!Ids, from : SocksAddrs]
Entry == [addr : SocksAddrs \union {S!None}, active : 0..now]

\* What holds of the maps until the counter has gone round.
FirstRound == S!IssuedBefore /\ S!PacketsOwned /\ S!CollectedStands /\ ~strayed

\* A number of the counter is an id, and in the first round its rank is that of the issue.
LEMMA NewIdNumbered ==
  ASSUME S!SocksAssumption, issued \in Nat
  PROVE  S!NewId \in S!Ids /\ (issued < IdSpace => S!Rank(S!NewId) = issued + 1)
<1>1. IdSpace \in Nat /\ IdSpace > 0
  BY DEF S!SocksAssumption
<1>2. S!NewId \in S!Ids
  BY <1>1 DEF S!NewId, S!Ids
<1>3. CASE issued + 1 < IdSpace
  <2>1. (issued + 1) % IdSpace = issued + 1
    BY <1>1, <1>3
  <2>. QED
    BY <1>1, <1>2, <1>3, <2>1 DEF S!NewId, S!Rank
<1>4. CASE issued + 1 = IdSpace
  <2>1. (issued + 1) % IdSpace = 0
    BY <1>1, <1>4
  <2>. QED
    BY <1>1, <1>2, <1>4, <2>1 DEF S!NewId, S!Rank
<1>5. CASE issued >= IdSpace
  BY <1>1, <1>2, <1>5
<1>. QED
  BY <1>1, <1>3, <1>4, <1>5

\* The invariant taken apart, with the types its parts need.
LEMMA SocksFacts ==
  ASSUME S!SocksAssumption, S!IInv
  PROVE  /\ now \in Nat /\ issued \in Nat /\ MaxIssued \in Nat /\ IdSpace \in Nat \ {0}
         /\ handler \in [Handlers -> Handler] /\ assoc \in [S!Ids -> Entry]
         /\ sessions \in [SocksAddrs -> S!Ids \union {S!NoId}] /\ S!NoId \notin S!Ids /\ S!None \notin SocksAddrs
         /\ queue \in Seq(Packet) /\ heard \subseteq Packet
         /\ cleaner \in [pc : {"sleep", "scanned", "locked"}, out : SUBSET [id : S!Ids, addr : SocksAddrs]]
         /\ S!Packets \subseteq Packet
         /\ issued <= IdSpace => FirstRound
<1>1. /\ now \in Nat /\ issued \in Nat /\ MaxIssued \in Nat /\ IdSpace \in Nat \ {0}
      /\ handler \in [Handlers -> Handler] /\ assoc \in [S!Ids -> Entry]
      /\ sessions \in [SocksAddrs -> S!Ids \union {S!NoId}] /\ S!None \notin SocksAddrs
      /\ queue \in Seq(Packet) /\ heard \subseteq Packet
      /\ cleaner \in [pc : {"sleep", "scanned", "locked"}, out : SUBSET [id : S!Ids, addr : SocksAddrs]]
  BY DEF S!SocksAssumption, S!IInv, S!TypeOK, Handler, Packet, Entry
<1>2. S!NoId \notin S!Ids
  BY <1>1 DEF S!NoId, S!Ids
<1>3. S!Packets \subseteq Packet
  BY <1>1 DEF S!Packets
<1>4. issued <= IdSpace => FirstRound
  BY DEF S!IInv, FirstRound
<1>. QED
  BY <1>1, <1>2, <1>3, <1>4

\* The handlers that ask are finitely many, and counted one by one.
LEMMA AskingCounted ==
  ASSUME S!SocksAssumption, S!IInv, NEW h \in Handlers, NEW r \in Handler,
         handler' = [handler EXCEPT ![h] = r]
  PROVE  /\ handler' \in [Handlers -> Handler]
         /\ \A g \in Handlers \ {h} : handler'[g] = handler[g]
         /\ handler'[h] = r
         /\ Cardinality(S!Asking) \in Nat /\ Cardinality(S!Asking') \in Nat
         /\ h \notin S!Asking => Cardinality(S!Asking') <= Cardinality(S!Asking) + 1
         /\ h \in S!Asking => Cardinality(S!Asking') <= Cardinality(S!Asking)
         /\ h \in S!Asking /\ r.pc \notin {"lock", "locked"} => Cardinality(S!Asking') = Cardinality(S!Asking) - 1
         /\ h \notin S!Asking /\ r.pc \notin {"lock", "locked"} => Cardinality(S!Asking') = Cardinality(S!Asking)
<1>1. /\ handler' \in [Handlers -> Handler] /\ handler'[h] = r
      /\ \A g \in Handlers \ {h} : handler'[g] = handler[g]
  BY SocksFacts
<1>2. IsFiniteSet(S!Asking) /\ Cardinality(S!Asking) \in Nat
  <2>1. S!Asking \subseteq Handlers /\ IsFiniteSet(Handlers)
    BY SocksSets DEF S!Asking, S!SocksAssumption
  <2>. QED
    BY <2>1, FS_Subset, FS_CardinalityType
<1>3. CASE r.pc \in {"lock", "locked"}
  <2>1. S!Asking' = S!Asking \union {h}
    BY <1>1, <1>3 DEF S!Asking
  <2>2. Cardinality(S!Asking \union {h}) = IF h \in S!Asking THEN Cardinality(S!Asking) ELSE Cardinality(S!Asking) + 1
    BY <1>2, FS_AddElement
  <2>. QED
    BY <1>1, <1>2, <1>3, <2>1, <2>2
<1>4. CASE r.pc \notin {"lock", "locked"}
  <2>1. S!Asking' = S!Asking \ {h}
    BY <1>1, <1>4 DEF S!Asking
  <2>2. /\ Cardinality(S!Asking \ {h}) = IF h \in S!Asking THEN Cardinality(S!Asking) - 1 ELSE Cardinality(S!Asking)
        /\ IsFiniteSet(S!Asking \ {h})
    BY <1>2, FS_RemoveElement
  <2>3. Cardinality(S!Asking \ {h}) \in Nat
    BY <2>2, FS_CardinalityType
  <2>. QED
    BY <1>1, <1>2, <1>4, <2>1, <2>2, <2>3
<1>. QED
  BY <1>3, <1>4

\* Entries that keep their address, and packets and a collection that agree with them.
LEMMA RoundKept ==
  ASSUME S!SocksAssumption, S!IInv, FirstRound, issued' = issued, sessions' = sessions,
         \A i \in S!Ids : assoc'[i].addr = assoc[i].addr /\ (assoc'[i] # S!NoAssoc => assoc[i] # S!NoAssoc),
         \A m \in S!Packets' : \/ m \in S!Packets
                               \/ m.id \in S!Ids /\ S!Rank(m.id) <= issued /\ assoc[m.id].addr \in {m.from, S!None},
         \A o \in cleaner'.out : \/ o \in cleaner.out
                                 \/ o.id \in S!Ids /\ assoc[o.id].addr = o.addr
  PROVE  S!IssuedBefore' /\ S!PacketsOwned' /\ S!CollectedStands'
<1>1. S!IssuedBefore'
  <2>1. ASSUME NEW a \in SocksAddrs, sessions[a] # S!NoId
        PROVE  assoc'[sessions[a]].addr = a
    BY <2>1, SocksFacts DEF FirstRound, S!IssuedBefore
  <2>2. ASSUME NEW i \in S!Ids, assoc'[i] # S!NoAssoc
        PROVE  S!Rank(i) <= issued /\ sessions[assoc'[i].addr] = i
    BY <2>2 DEF FirstRound, S!IssuedBefore
  <2>. QED
    BY <2>1, <2>2 DEF S!IssuedBefore, S!Rank
<1>2. S!PacketsOwned'
  <2>1. ASSUME NEW m \in S!Packets'
        PROVE  S!Rank(m.id) <= issued /\ assoc'[m.id].addr \in {m.from, S!None}
    <3>1. m.id \in S!Ids /\ S!Rank(m.id) <= issued /\ assoc[m.id].addr \in {m.from, S!None}
      BY SocksFacts DEF FirstRound, S!PacketsOwned, Packet
    <3>. QED
      BY <3>1
  <2>. QED
    BY <2>1 DEF S!PacketsOwned, S!Rank
<1>3. S!CollectedStands'
  <2>1. ASSUME NEW o \in cleaner'.out
        PROVE  assoc'[o.id].addr = o.addr
    <3>1. o.id \in S!Ids /\ assoc[o.id].addr = o.addr
      BY SocksFacts DEF FirstRound, S!CollectedStands
    <3>. QED
      BY <3>1
  <2>. QED
    BY <2>1 DEF S!CollectedStands
<1>. QED
  BY <1>1, <1>2, <1>3

\* A handler goes on, without the associations.
LEMMA HandlerIInv ==
  ASSUME S!SocksAssumption, S!IInv, NEW h \in Handlers, NEW r \in Handler,
         handler' = [handler EXCEPT ![h] = r], sessLock' \in Handlers \union {S!None},
         r.pc \in {"lock", "locked"} => r.from # S!None,
         issued + Cardinality(S!Asking') <= MaxIssued,
         UNCHANGED <<now, assocLock, sessions, assoc, issued, queue, tunnel, heard, cleaner, strayed>>
  PROVE  S!IInv'
<1>1. /\ handler' \in [Handlers -> Handler] /\ handler'[h] = r
      /\ \A g \in Handlers \ {h} : handler'[g] = handler[g]
  BY AskingCounted
<1>2. S!TypeOK'
  BY <1>1 DEF S!IInv, S!TypeOK, Handler
<1>3. S!Addressed'
  BY <1>1 DEF S!IInv, S!Addressed, S!Asking
<1>4. S!BoundKept'
  BY SocksSets DEF S!BoundKept
<1>5. issued <= IdSpace => (S!IssuedBefore /\ S!PacketsOwned /\ S!CollectedStands /\ ~strayed)'
  BY DEF S!IInv, S!IssuedBefore, S!PacketsOwned, S!Packets, S!CollectedStands, S!Rank
<1>. QED
  BY <1>2, <1>3, <1>4, <1>5 DEF S!IInv

\* The select loop up to the second lock of get_or_create_association.
LEMMA LoopIInv ==
  ASSUME S!SocksAssumption, S!IInv, NEW h \in Handlers,
         \/ S!Associate(h) \/ S!Disassociate(h) \/ S!LockSessions(h)
         \/ \E a \in SocksAddrs : S!Datagram(h, a)
  PROVE  S!IInv'
<1>. DEFINE n == Cardinality(S!Asking)
<1>1. /\ issued \in Nat /\ MaxIssued \in Nat /\ issued + n <= MaxIssued
      /\ handler \in [Handlers -> Handler] /\ handler[h] \in Handler /\ S!None \notin SocksAddrs
      /\ sessLock \in Handlers \union {S!None}
  BY SocksFacts, SocksSets DEF S!IInv, S!BoundKept, S!TypeOK
<1>2. CASE S!Associate(h) \/ S!Disassociate(h)
  <2>1. PICK p \in {"none", "loop"} : handler' = [handler EXCEPT ![h] = S!Idle(p)]
    BY <1>2 DEF S!Associate, S!Disassociate
  <2>2. S!Idle(p) \in Handler /\ S!Idle(p).pc = p
    BY <2>1 DEF S!Idle, Handler
  <2>3. /\ handler[h].pc \notin {"lock", "locked"}
        /\ UNCHANGED <<now, sessLock, assocLock, sessions, assoc, issued, queue, tunnel, heard, cleaner, strayed>>
    BY <1>2 DEF S!Associate, S!Disassociate
  <2>4. h \notin S!Asking /\ S!Idle(p).pc \notin {"lock", "locked"}
    BY <2>2, <2>3 DEF S!Asking
  <2>5. Cardinality(S!Asking') = n
    BY <2>1, <2>2, <2>4, AskingCounted
  <2>6. sessLock' \in Handlers \union {S!None} /\ issued + Cardinality(S!Asking') <= MaxIssued
    BY <1>1, <2>3, <2>5
  <2>. QED
    BY <2>1, <2>2, <2>3, <2>4, <2>6, HandlerIInv
<1>3. CASE S!LockSessions(h)
  <2>. DEFINE r == [handler[h] EXCEPT !.pc = "locked"]
  <2>1. /\ handler[h].pc = "lock" /\ sessLock' = h /\ handler' = [handler EXCEPT ![h] = r]
        /\ UNCHANGED <<now, assocLock, sessions, assoc, issued, queue, tunnel, heard, cleaner, strayed>>
    BY <1>1, <1>3 DEF S!LockSessions
  <2>2. r \in Handler /\ r.pc = "locked" /\ r.from = handler[h].from
    BY <1>1 DEF Handler
  <2>. HIDE DEF r
  <2>3. h \in S!Asking /\ r.from # S!None
    BY <2>1, <2>2 DEF S!Asking, S!IInv, S!Addressed
  <2>4. Cardinality(S!Asking') <= n /\ n \in Nat /\ Cardinality(S!Asking') \in Nat
    BY <2>1, <2>2, <2>3, AskingCounted
  <2>5. sessLock' \in Handlers \union {S!None} /\ issued + Cardinality(S!Asking') <= MaxIssued
    BY <1>1, <2>1, <2>4
  <2>. QED
    BY <2>1, <2>2, <2>3, <2>5, HandlerIInv
<1>4. CASE \E a \in SocksAddrs : S!Datagram(h, a)
  <2>1. PICK a \in SocksAddrs : S!Datagram(h, a)
    BY <1>4
  <2>. DEFINE r == [pc |-> "lock", from |-> a]
  <2>2. /\ handler[h].pc = "loop" /\ handler' = [handler EXCEPT ![h] = r]
        /\ issued + n < MaxIssued
        /\ UNCHANGED <<now, sessLock, assocLock, sessions, assoc, issued, queue, tunnel, heard, cleaner, strayed>>
    BY <2>1, SocksSets DEF S!Datagram, S!Asking
  <2>3. r \in Handler /\ r.pc = "lock" /\ r.from # S!None
    BY <1>1 DEF Handler
  <2>. HIDE DEF r
  <2>4. h \notin S!Asking
    BY <2>2 DEF S!Asking
  <2>5. Cardinality(S!Asking') <= n + 1 /\ n \in Nat /\ Cardinality(S!Asking') \in Nat
    BY <2>2, <2>3, <2>4, AskingCounted
  <2>6. sessLock' \in Handlers \union {S!None} /\ issued + Cardinality(S!Asking') <= MaxIssued
    BY <1>1, <2>2, <2>5
  <2>. QED
    BY <2>2, <2>3, <2>6, HandlerIInv
<1>. QED
  BY <1>2, <1>3, <1>4

\* The packet is on the queue or dropped.
LEMMA Queued ==
  ASSUME S!SocksAssumption, S!IInv, NEW m \in Packet, heard' = heard,
         queue' = IF S!HasRoom THEN Append(queue, m) ELSE queue
  PROVE  /\ queue' \in Seq(Packet) /\ Len(queue') <= QueueSize
         /\ S!Packets' \subseteq S!Packets \union {m}
<1>1. queue \in Seq(Packet) /\ Len(queue) <= QueueSize /\ QueueSize \in Nat
  BY SocksFacts DEF S!IInv, S!TypeOK, S!SocksAssumption
<1>2. CASE S!HasRoom
  <2>1. queue' = Append(queue, m) /\ Len(queue) < QueueSize
    BY <1>2 DEF S!HasRoom
  <2>2. /\ queue' \in Seq(Packet) /\ Len(queue') = Len(queue) + 1
        /\ \A n \in DOMAIN queue' : (n \in DOMAIN queue /\ queue'[n] = queue[n]) \/ queue'[n] = m
    BY <1>1, <2>1
  <2>3. Len(queue') <= QueueSize
    BY <1>1, <2>1, <2>2
  <2>. QED
    BY <2>2, <2>3 DEF S!Packets
<1>3. CASE ~S!HasRoom
  BY <1>1, <1>3 DEF S!Packets
<1>. QED
  BY <1>2, <1>3

\* get_or_create_association finds the association: a touch and a packet in its name.
LEMMA EnqueueKnownIInv ==
  ASSUME S!SocksAssumption, S!IInv, NEW h \in Handlers, S!Enqueue(h), sessions[handler[h].from] # S!NoId
  PROVE  /\ issued' = issued /\ sessions' \in [SocksAddrs -> S!Ids \union {S!NoId}]
         /\ assoc' \in [S!Ids -> Entry]
         /\ \A i \in S!Ids : assoc'[i].addr = S!None => assoc'[i] = S!NoAssoc
         /\ queue' \in Seq(Packet) /\ Len(queue') <= QueueSize
         /\ issued' <= IdSpace => S!IssuedBefore' /\ S!PacketsOwned' /\ S!CollectedStands'
<1>. DEFINE a == handler[h].from
            i == sessions[a]
            m == [id |-> i, from |-> a]
<1>1. /\ handler[h].pc = "locked" /\ issued' = issued
      /\ sessions' = [sessions EXCEPT ![a] = i]
      /\ assoc' = IF assoc[i] = S!NoAssoc THEN assoc ELSE [assoc EXCEPT ![i].active = now]
      /\ queue' = IF S!HasRoom THEN Append(queue, m) ELSE queue
      /\ UNCHANGED <<now, heard, cleaner>>
  BY DEF S!Enqueue
<1>2. a \in SocksAddrs /\ i \in S!Ids
  <2>1. handler[h] \in Handler /\ handler[h].from # S!None
    BY <1>1, SocksFacts DEF S!IInv, S!Addressed, S!Asking
  <2>. QED
    BY <2>1, SocksFacts DEF Handler
<1>3. m \in Packet /\ m.id = i /\ m.from = a
  BY <1>2 DEF Packet
<1>. HIDE DEF m
<1>4. /\ queue' \in Seq(Packet) /\ Len(queue') <= QueueSize
      /\ S!Packets' \subseteq S!Packets \union {m}
  BY <1>1, <1>3, Queued
<1>5. sessions' = sessions
  BY <1>1, <1>2, SocksFacts
<1>6. now \in 0..now /\ now \in Nat
  BY SocksFacts
<1>7. /\ assoc' \in [S!Ids -> Entry]
      /\ \A j \in S!Ids : assoc'[j].addr = assoc[j].addr /\ (assoc'[j] # S!NoAssoc => assoc[j] # S!NoAssoc)
      /\ \A j \in S!Ids : assoc[j] = S!NoAssoc => assoc'[j] = S!NoAssoc
  <2>. HIDE DEF i
  <2>1. CASE assoc[i] = S!NoAssoc
    BY <1>1, <2>1, SocksFacts
  <2>2. CASE assoc[i] # S!NoAssoc
    <3>1. assoc' = [assoc EXCEPT ![i].active = now]
      BY <1>1, <2>2
    <3>2. /\ \A j \in S!Ids \ {i} : assoc'[j] = assoc[j]
          /\ assoc'[i] = [assoc[i] EXCEPT !.active = now]
          /\ assoc[i] \in Entry
      BY <1>2, <3>1, SocksFacts
    <3>3. assoc'[i] \in Entry /\ assoc'[i].addr = assoc[i].addr
      BY <1>6, <3>2 DEF Entry
    <3>4. assoc' \in [S!Ids -> Entry]
      BY <1>2, <3>1, <3>2, <3>3, SocksFacts
    <3>. QED
      BY <2>2, <3>2, <3>3, <3>4
  <2>. QED
    BY <2>1, <2>2
<1>8. \A j \in S!Ids : assoc'[j].addr = S!None => assoc'[j] = S!NoAssoc
  BY <1>7 DEF S!IInv, S!Addressed
<1>9. ASSUME issued <= IdSpace
      PROVE  S!IssuedBefore' /\ S!PacketsOwned' /\ S!CollectedStands'
  <2>1. FirstRound
    BY <1>9, SocksFacts
  <2>2. assoc[i].addr = a /\ assoc[i] # S!NoAssoc
    <3>1. assoc[i].addr = a
      BY <1>2, <2>1 DEF FirstRound, S!IssuedBefore
    <3>. QED
      BY <1>2, <3>1, SocksFacts DEF S!NoAssoc
  <2>3. S!Rank(i) <= issued
    BY <1>2, <2>1, <2>2 DEF FirstRound, S!IssuedBefore
  <2>4. \A x \in S!Packets' : \/ x \in S!Packets
                              \/ x.id \in S!Ids /\ S!Rank(x.id) <= issued /\ assoc[x.id].addr \in {x.from, S!None}
    BY <1>2, <1>3, <1>4, <2>2, <2>3
  <2>. QED
    BY <1>1, <1>5, <1>7, <2>1, <2>4, RoundKept
<1>. QED
  BY <1>1, <1>4, <1>5, <1>7, <1>8, <1>9, SocksFacts

\* get_or_create_association makes an association with a number that nothing bears.
LEMMA EnqueueNewIInv ==
  ASSUME S!SocksAssumption, S!IInv, NEW h \in Handlers, S!Enqueue(h), sessions[handler[h].from] = S!NoId
  PROVE  /\ issued' = issued + 1 /\ sessions' \in [SocksAddrs -> S!Ids \union {S!NoId}]
         /\ assoc' \in [S!Ids -> Entry]
         /\ \A i \in S!Ids : assoc'[i].addr = S!None => assoc'[i] = S!NoAssoc
         /\ queue' \in Seq(Packet) /\ Len(queue') <= QueueSize
         /\ issued' <= IdSpace => S!IssuedBefore' /\ S!PacketsOwned' /\ S!CollectedStands'
<1>. DEFINE a == handler[h].from
            i == S!NewId
            m == [id |-> i, from |-> a]
            e == [addr |-> a, active |-> now]
<1>1. /\ handler[h].pc = "locked" /\ issued' = issued + 1
      /\ sessions' = [sessions EXCEPT ![a] = i]
      /\ assoc' = [assoc EXCEPT ![i] = e]
      /\ queue' = IF S!HasRoom THEN Append(queue, m) ELSE queue
      /\ UNCHANGED <<now, heard, cleaner>>
  BY DEF S!Enqueue
<1>2. a \in SocksAddrs /\ a # S!None
  <2>1. handler[h] \in Handler /\ handler[h].from # S!None
    BY <1>1, SocksFacts DEF S!IInv, S!Addressed, S!Asking
  <2>. QED
    BY <2>1, SocksFacts DEF Handler
<1>3. i \in S!Ids /\ (issued < IdSpace => S!Rank(i) = issued + 1) /\ issued \in Nat /\ IdSpace \in Nat \ {0}
  BY NewIdNumbered, SocksFacts
<1>4. now \in 0..now
  BY SocksFacts
<1>5. m \in Packet /\ m.id = i /\ m.from = a
  BY <1>2, <1>3 DEF Packet
<1>6. e \in Entry /\ e.addr = a /\ e # S!NoAssoc
  BY <1>2, <1>4 DEF Entry, S!NoAssoc
<1>. HIDE DEF m, e, i
<1>7. /\ queue' \in Seq(Packet) /\ Len(queue') <= QueueSize
      /\ S!Packets' \subseteq S!Packets \union {m}
  BY <1>1, <1>5, Queued
<1>8. /\ assoc' \in [S!Ids -> Entry] /\ assoc'[i] = e
      /\ \A j \in S!Ids \ {i} : assoc'[j] = assoc[j]
      /\ sessions' \in [SocksAddrs -> S!Ids \union {S!NoId}] /\ sessions'[a] = i
      /\ \A b \in SocksAddrs \ {a} : sessions'[b] = sessions[b]
  BY <1>1, <1>2, <1>3, <1>6, SocksFacts
<1>9. \A j \in S!Ids : assoc'[j].addr = S!None => assoc'[j] = S!NoAssoc
  BY <1>2, <1>6, <1>8 DEF S!IInv, S!Addressed
<1>10. ASSUME issued + 1 <= IdSpace
       PROVE  S!IssuedBefore' /\ S!PacketsOwned' /\ S!CollectedStands'
  <2>1. FirstRound /\ S!Rank(i) = issued + 1
    BY <1>3, <1>10, SocksFacts
  <2>2. \A j \in S!Ids : j # i => S!Rank(j) # S!Rank(i)
    BY <1>3 DEF S!Rank, S!Ids
  <2>3. assoc[i] = S!NoAssoc /\ assoc[i].addr = S!None
    <3>1. assoc[i] = S!NoAssoc
      BY <1>3, <2>1 DEF FirstRound, S!IssuedBefore
    <3>. QED
      BY <3>1 DEF S!NoAssoc
  <2>4. S!IssuedBefore'
    <3>1. ASSUME NEW j \in S!Ids, assoc'[j] # S!NoAssoc
          PROVE  S!Rank(j) <= issued + 1 /\ sessions'[assoc'[j].addr] = j
      <4>1. CASE j = i
        BY <1>3, <1>6, <1>8, <2>1, <4>1
      <4>2. CASE j # i
        <5>1. assoc'[j] = assoc[j] /\ assoc[j] # S!NoAssoc /\ assoc[j] \in Entry
          BY <1>8, <3>1, <4>2, SocksFacts
        <5>2. /\ S!Rank(j) <= issued /\ sessions[assoc[j].addr] = j
              /\ assoc[j].addr \in SocksAddrs
          BY <2>1, <5>1, <3>1 DEF FirstRound, S!IssuedBefore, S!IInv, S!Addressed, Entry
        <5>3. assoc[j].addr # a
          BY <5>2, SocksFacts
        <5>4. S!Rank(j) \in Nat
          BY <1>3 DEF S!Rank, S!Ids
        <5>. QED
          BY <1>3, <1>8, <5>1, <5>2, <5>3, <5>4
      <4>. QED
        BY <4>1, <4>2
    <3>2. ASSUME NEW b \in SocksAddrs, sessions'[b] # S!NoId
          PROVE  assoc'[sessions'[b]].addr = b
      <4>1. CASE b = a
        BY <1>6, <1>8, <4>1
      <4>2. CASE b # a
        <5>1. sessions'[b] = sessions[b] /\ sessions[b] \in S!Ids /\ assoc[sessions[b]].addr = b /\ b # S!None
          BY <1>8, <2>1, <3>2, <4>2, SocksFacts DEF FirstRound, S!IssuedBefore
        <5>2. sessions[b] # i
          BY <2>3, <5>1
        <5>. QED
          BY <1>8, <5>1, <5>2
      <4>. QED
        BY <4>1, <4>2
    <3>. QED
      BY <1>1, <3>1, <3>2 DEF S!IssuedBefore, S!Rank
  <2>5. S!PacketsOwned'
    <3>1. ASSUME NEW x \in S!Packets'
          PROVE  S!Rank(x.id) <= issued + 1 /\ assoc'[x.id].addr \in {x.from, S!None}
      <4>1. CASE x = m
        BY <1>3, <1>5, <1>6, <1>8, <2>1, <4>1
      <4>2. CASE x \in S!Packets
        <5>1. x.id \in S!Ids /\ S!Rank(x.id) <= issued /\ assoc[x.id].addr \in {x.from, S!None}
          BY <2>1, <4>2, SocksFacts DEF FirstRound, S!PacketsOwned, Packet
        <5>2. S!Rank(x.id) \in Nat
          BY <1>3, <5>1 DEF S!Rank, S!Ids
        <5>3. x.id # i
          BY <1>3, <2>1, <5>1, <5>2
        <5>. QED
          BY <1>3, <1>8, <5>1, <5>2, <5>3
      <4>. QED
        BY <1>7, <4>1, <4>2
    <3>. QED
      BY <1>1, <3>1 DEF S!PacketsOwned, S!Rank
  <2>6. S!CollectedStands'
    <3>1. ASSUME NEW o \in cleaner.out
          PROVE  assoc'[o.id].addr = o.addr
      <4>1. o.id \in S!Ids /\ o.addr \in SocksAddrs /\ assoc[o.id].addr = o.addr
        BY <2>1, SocksFacts DEF FirstRound, S!CollectedStands
      <4>2. o.id # i
        BY <2>3, <4>1, SocksFacts
      <4>. QED
        BY <1>8, <4>1, <4>2
    <3>. QED
      BY <1>1, <3>1 DEF S!CollectedStands
  <2>. QED
    BY <2>4, <2>5, <2>6
<1>. QED
  BY <1>1, <1>7, <1>8, <1>9, <1>10

\* A datagram that is queued or dropped preserves the invariant.
LEMMA EnqueueIInv ==
  ASSUME S!SocksAssumption, S!IInv, NEW h \in Handlers, S!Enqueue(h)
  PROVE  S!IInv'
<1>1. /\ handler[h].pc = "locked" /\ sessLock' = S!None /\ handler' = [handler EXCEPT ![h] = S!Idle("loop")]
      /\ UNCHANGED <<now, assocLock, tunnel, heard, cleaner, strayed>>
  BY DEF S!Enqueue
<1>2. /\ issued' \in {issued, issued + 1} /\ sessions' \in [SocksAddrs -> S!Ids \union {S!NoId}]
      /\ assoc' \in [S!Ids -> Entry]
      /\ \A i \in S!Ids : assoc'[i].addr = S!None => assoc'[i] = S!NoAssoc
      /\ queue' \in Seq(Packet) /\ Len(queue') <= QueueSize
      /\ issued' <= IdSpace => S!IssuedBefore' /\ S!PacketsOwned' /\ S!CollectedStands'
  BY EnqueueKnownIInv, EnqueueNewIInv
<1>3. S!Idle("loop") \in Handler /\ S!Idle("loop").pc = "loop"
  BY DEF S!Idle, Handler
<1>4. h \in S!Asking
  BY <1>1 DEF S!Asking
<1>5. /\ handler' \in [Handlers -> Handler] /\ handler'[h] = S!Idle("loop")
      /\ \A g \in Handlers \ {h} : handler'[g] = handler[g]
      /\ Cardinality(S!Asking') = Cardinality(S!Asking) - 1
      /\ Cardinality(S!Asking) \in Nat /\ Cardinality(S!Asking') \in Nat
  BY <1>1, <1>3, <1>4, AskingCounted
<1>6. S!BoundKept' /\ issued' \in 0..MaxIssued
  <2>1. issued \in Nat /\ MaxIssued \in Nat /\ issued + Cardinality(S!Asking) <= MaxIssued
    BY SocksFacts, SocksSets DEF S!IInv, S!BoundKept
  <2>. QED
    BY <1>2, <1>5, <2>1, SocksSets DEF S!BoundKept
<1>7. S!Addressed'
  <2>1. \A g \in S!Asking' : g \in S!Asking /\ handler'[g] = handler[g]
    BY <1>3, <1>5 DEF S!Asking
  <2>. QED
    BY <1>2, <2>1 DEF S!IInv, S!Addressed
<1>8. S!TypeOK'
  BY <1>1, <1>2, <1>5, <1>6 DEF S!IInv, S!TypeOK, Handler, Packet, Entry
<1>9. ASSUME issued' <= IdSpace PROVE ~strayed'
  <2>1. issued <= IdSpace
    BY <1>2, <1>9, SocksFacts
  <2>. QED
    BY <1>1, <2>1 DEF S!IInv
<1>. QED
  BY <1>2, <1>6, <1>7, <1>8, <1>9 DEF S!IInv

\* Connecting, losing the stream and writing to it make no packets.
LEMMA TunnelIInv ==
  ASSUME S!SocksAssumption, S!IInv, S!Connect \/ S!Upstream \/ S!Disconnect
  PROVE  S!IInv'
<1>1. UNCHANGED <<now, sessLock, assocLock, sessions, assoc, issued, handler, cleaner, strayed>>
  BY DEF S!Connect, S!Upstream, S!Disconnect
<1>2. queue \in Seq(Packet) /\ heard \subseteq Packet /\ Len(queue) <= QueueSize /\ QueueSize \in Nat
  BY SocksFacts DEF S!IInv, S!TypeOK, S!SocksAssumption
<1>3. /\ queue' \in Seq(Packet) /\ Len(queue') <= QueueSize /\ heard' \subseteq Packet
      /\ tunnel' \in {"up", "down"} /\ S!Packets' \subseteq S!Packets
  <2>1. CASE S!Connect \/ S!Disconnect
    BY <1>2, <2>1 DEF S!Connect, S!Disconnect, S!Packets
  <2>2. CASE S!Upstream
    <3>1. queue # <<>> /\ queue' = Tail(queue) /\ tunnel' \in {"up", "down"}
      BY <2>2 DEF S!Upstream
    <3>2. heard' \subseteq heard \union {Head(queue)}
      BY <2>2 DEF S!Upstream
    <3>3. /\ Len(queue) \in Nat /\ Len(queue) > 0 /\ Head(queue) = queue[1] /\ 1 \in DOMAIN queue
          /\ queue' \in Seq(Packet) /\ Len(queue') = Len(queue) - 1
          /\ \A n \in DOMAIN queue' : n + 1 \in DOMAIN queue /\ queue'[n] = queue[n + 1]
      BY <1>2, <3>1
    <3>4. queue[1] \in Packet
      BY <1>2, <3>3
    <3>. QED
      BY <1>2, <3>1, <3>2, <3>3, <3>4 DEF S!Packets
  <2>. QED
    BY <2>1, <2>2
<1>4. S!TypeOK'
  BY <1>1, <1>3 DEF S!IInv, S!TypeOK, Packet
<1>5. S!BoundKept' /\ S!Addressed'
  BY <1>1 DEF S!IInv, S!BoundKept, S!Addressed, S!Asking
<1>6. ASSUME issued <= IdSpace
      PROVE  (S!IssuedBefore /\ S!PacketsOwned /\ S!CollectedStands /\ ~strayed)'
  <2>1. FirstRound
    BY <1>6, SocksFacts
  <2>2. S!IssuedBefore' /\ S!PacketsOwned' /\ S!CollectedStands'
    BY <1>1, <1>3, <2>1, RoundKept
  <2>. QED
    BY <1>1, <2>1, <2>2 DEF FirstRound
<1>. QED
  BY <1>1, <1>4, <1>5, <1>6 DEF S!IInv

\* A reply goes to the owner of its number.
LEMMA DownstreamIInv ==
  ASSUME S!SocksAssumption, S!IInv, NEW m \in heard, S!Downstream(m)
  PROVE  S!IInv'
<1>1. /\ assoc' = IF assoc[m.id] = S!NoAssoc THEN assoc ELSE [assoc EXCEPT ![m.id].active = now]
      /\ strayed' = (strayed \/ assoc[m.id].addr \notin {m.from, S!None})
      /\ UNCHANGED <<now, sessLock, assocLock, sessions, issued, handler, queue, tunnel, heard, cleaner>>
  BY DEF S!Downstream
<1>2. m \in Packet /\ m.id \in S!Ids /\ m \in S!Packets /\ assoc[m.id] \in Entry /\ now \in 0..now
  BY SocksFacts DEF Packet, S!Packets
<1>3. /\ assoc' \in [S!Ids -> Entry]
      /\ \A j \in S!Ids : assoc'[j].addr = assoc[j].addr /\ (assoc'[j] # S!NoAssoc => assoc[j] # S!NoAssoc)
      /\ \A j \in S!Ids : assoc[j] = S!NoAssoc => assoc'[j] = S!NoAssoc
  <2>1. CASE assoc[m.id] = S!NoAssoc
    BY <1>1, <2>1, SocksFacts
  <2>2. CASE assoc[m.id] # S!NoAssoc
    <3>1. assoc' = [assoc EXCEPT ![m.id].active = now]
      BY <1>1, <2>2
    <3>2. /\ \A j \in S!Ids \ {m.id} : assoc'[j] = assoc[j]
          /\ assoc'[m.id] = [assoc[m.id] EXCEPT !.active = now]
      BY <1>2, <3>1, SocksFacts
    <3>3. assoc'[m.id] \in Entry /\ assoc'[m.id].addr = assoc[m.id].addr
      BY <1>2, <3>2 DEF Entry
    <3>4. assoc' \in [S!Ids -> Entry]
      BY <1>2, <3>1, <3>2, <3>3, SocksFacts
    <3>. QED
      BY <2>2, <3>2, <3>3, <3>4
  <2>. QED
    BY <2>1, <2>2
<1>4. strayed' \in BOOLEAN
  BY <1>1 DEF S!IInv, S!TypeOK
<1>5. S!TypeOK'
  BY <1>1, <1>3, <1>4 DEF S!IInv, S!TypeOK, Entry
<1>6. S!BoundKept' /\ S!Addressed'
  BY <1>1, <1>3 DEF S!IInv, S!BoundKept, S!Addressed, S!Asking
<1>7. ASSUME issued <= IdSpace
      PROVE  (S!IssuedBefore /\ S!PacketsOwned /\ S!CollectedStands /\ ~strayed)'
  <2>1. FirstRound
    BY <1>7, SocksFacts
  <2>2. S!Packets' = S!Packets
    BY <1>1 DEF S!Packets
  <2>3. S!IssuedBefore' /\ S!PacketsOwned' /\ S!CollectedStands'
    BY <1>1, <1>3, <2>1, <2>2, RoundKept
  <2>4. assoc[m.id].addr \in {m.from, S!None}
    BY <1>2, <2>1 DEF FirstRound, S!PacketsOwned
  <2>5. ~strayed'
    BY <1>1, <2>1, <2>4 DEF FirstRound
  <2>. QED
    BY <2>3, <2>5
<1>. QED
  BY <1>1, <1>5, <1>6, <1>7 DEF S!IInv

\* The cleanup task collects, and takes its first lock.
LEMMA CollectIInv ==
  ASSUME S!SocksAssumption, S!IInv, S!Scan \/ S!CleanerLocks
  PROVE  S!IInv'
<1>1. /\ UNCHANGED <<now, sessLock, sessions, assoc, issued, handler, queue, tunnel, heard, strayed>>
      /\ assocLock' \in {assocLock, S!Cleaner}
  BY DEF S!Scan, S!CleanerLocks
<1>2. /\ cleaner' \in [pc : {"sleep", "scanned", "locked"}, out : SUBSET [id : S!Ids, addr : SocksAddrs]]
      /\ \A o \in cleaner'.out : \/ o \in cleaner.out
                                 \/ o.id \in S!Ids /\ assoc[o.id].addr = o.addr
  <2>1. CASE S!CleanerLocks
    BY <2>1, SocksFacts DEF S!CleanerLocks
  <2>2. CASE S!Scan
    <3>. DEFINE old == {j \in S!Ids : assoc[j] # S!NoAssoc /\ now - assoc[j].active > IdleLimit}
                out == {[id |-> i, addr |-> assoc[i].addr] : i \in old}
    <3>1. cleaner' = [pc |-> "scanned", out |-> out]
      BY <2>2 DEF S!Scan
    <3>2. ASSUME NEW i \in old
          PROVE  i \in S!Ids /\ assoc[i].addr \in SocksAddrs
      BY SocksFacts DEF S!IInv, S!Addressed, Entry
    <3>3. \A o \in out : o \in [id : S!Ids, addr : SocksAddrs] /\ o.id \in S!Ids /\ assoc[o.id].addr = o.addr
      BY <3>2
    <3>. HIDE DEF out
    <3>. QED
      BY <3>1, <3>3
  <2>. QED
    BY <2>1, <2>2
<1>3. S!TypeOK'
  BY <1>1, <1>2 DEF S!IInv, S!TypeOK
<1>4. S!BoundKept' /\ S!Addressed'
  BY <1>1 DEF S!IInv, S!BoundKept, S!Addressed, S!Asking
<1>5. ASSUME issued <= IdSpace
      PROVE  (S!IssuedBefore /\ S!PacketsOwned /\ S!CollectedStands /\ ~strayed)'
  <2>1. FirstRound
    BY <1>5, SocksFacts
  <2>2. S!Packets' = S!Packets
    BY <1>1 DEF S!Packets
  <2>3. S!IssuedBefore' /\ S!PacketsOwned' /\ S!CollectedStands'
    BY <1>1, <1>2, <2>1, <2>2, RoundKept
  <2>. QED
    BY <1>1, <2>1, <2>3 DEF FirstRound
<1>. QED
  BY <1>1, <1>3, <1>4, <1>5 DEF S!IInv

\* What was collected is removed from both maps.
LEMMA RemoveIInv ==
  ASSUME S!SocksAssumption, S!IInv, S!Remove
  PROVE  S!IInv'
<1>. DEFINE gone == {i \in S!Ids : \E o \in cleaner.out : o.id = i}
<1>1. /\ assoc' = [i \in S!Ids |-> IF \E o \in cleaner.out : o.id = i THEN S!NoAssoc ELSE assoc[i]]
      /\ sessions' = [a \in SocksAddrs |-> IF a \in S!Forgotten(cleaner.out) THEN S!NoId ELSE sessions[a]]
      /\ assocLock' = S!None /\ cleaner' = [pc |-> "sleep", out |-> {}]
      /\ UNCHANGED <<now, sessLock, issued, handler, queue, tunnel, heard, strayed>>
  BY DEF S!Remove
<1>2. S!NoAssoc \in Entry /\ S!NoAssoc.addr = S!None
  BY SocksFacts DEF S!NoAssoc, Entry
<1>3. /\ assoc' \in [S!Ids -> Entry]
      /\ \A i \in S!Ids : assoc'[i] = IF i \in gone THEN S!NoAssoc ELSE assoc[i]
  BY <1>1, <1>2, SocksFacts
<1>4. /\ sessions' \in [SocksAddrs -> S!Ids \union {S!NoId}]
      /\ \A a \in SocksAddrs : sessions'[a] = IF \E o \in cleaner.out : o.addr = a THEN S!NoId ELSE sessions[a]
  BY <1>1, SocksFacts DEF S!Forgotten
<1>5. S!TypeOK'
  <2>1. cleaner' \in [pc : {"sleep", "scanned", "locked"}, out : SUBSET [id : S!Ids, addr : SocksAddrs]]
    BY <1>1
  <2>. QED
    BY <1>1, <1>3, <1>4, <2>1 DEF S!IInv, S!TypeOK, Entry
<1>6. S!BoundKept' /\ S!Addressed'
  BY <1>1, <1>2, <1>3 DEF S!IInv, S!BoundKept, S!Addressed, S!Asking
<1>7. ASSUME issued <= IdSpace
      PROVE  (S!IssuedBefore /\ S!PacketsOwned /\ S!CollectedStands /\ ~strayed)'
  <2>1. FirstRound
    BY <1>7, SocksFacts
  <2>2. ASSUME NEW i \in S!Ids, assoc'[i] # S!NoAssoc
        PROVE  S!Rank(i) <= issued /\ sessions'[assoc'[i].addr] = i
    <3>1. /\ i \notin gone /\ assoc'[i] = assoc[i] /\ assoc[i] # S!NoAssoc /\ assoc[i].addr \in SocksAddrs
      BY <1>3, <2>2, SocksFacts DEF S!IInv, S!Addressed, Entry
    <3>2. S!Rank(i) <= issued /\ sessions[assoc[i].addr] = i
      BY <2>1, <3>1 DEF FirstRound, S!IssuedBefore
    <3>3. ASSUME NEW o \in cleaner.out, o.addr = assoc[i].addr
          PROVE  FALSE
      <4>1. o.id \in S!Ids /\ assoc[o.id].addr = o.addr /\ o.addr # S!None
        BY <2>1, SocksFacts DEF FirstRound, S!CollectedStands
      <4>2. assoc[o.id] # S!NoAssoc
        BY <1>2, <4>1
      <4>3. sessions[o.addr] = o.id
        BY <2>1, <4>1, <4>2 DEF FirstRound, S!IssuedBefore
      <4>. QED
        BY <3>1, <3>2, <3>3, <4>1, <4>3
    <3>. QED
      BY <1>4, <3>1, <3>2, <3>3
  <2>3. ASSUME NEW a \in SocksAddrs, sessions'[a] # S!NoId
        PROVE  assoc'[sessions'[a]].addr = a
    <3>1. sessions'[a] = sessions[a] /\ sessions[a] \in S!Ids /\ ~\E o \in cleaner.out : o.addr = a
      BY <1>4, <2>3, SocksFacts
    <3>2. assoc[sessions[a]].addr = a
      BY <2>1, <2>3, <3>1 DEF FirstRound, S!IssuedBefore
    <3>3. sessions[a] \notin gone
      BY <2>1, <3>1, <3>2 DEF FirstRound, S!CollectedStands
    <3>. QED
      BY <1>3, <3>1, <3>2, <3>3
  <2>4. S!IssuedBefore'
    BY <1>1, <2>2, <2>3 DEF S!IssuedBefore, S!Rank
  <2>5. S!PacketsOwned'
    <3>1. ASSUME NEW m \in S!Packets
          PROVE  S!Rank(m.id) <= issued /\ assoc'[m.id].addr \in {m.from, S!None}
      <4>1. m.id \in S!Ids /\ S!Rank(m.id) <= issued /\ assoc[m.id].addr \in {m.from, S!None}
        BY <2>1, SocksFacts DEF FirstRound, S!PacketsOwned, Packet
      <4>. QED
        BY <1>2, <1>3, <4>1
    <3>2. S!Packets' = S!Packets
      BY <1>1 DEF S!Packets
    <3>. QED
      BY <1>1, <3>1, <3>2 DEF S!PacketsOwned, S!Rank
  <2>6. S!CollectedStands'
    BY <1>1 DEF S!CollectedStands
  <2>. QED
    BY <1>1, <2>1, <2>4, <2>5, <2>6 DEF FirstRound
<1>. QED
  BY <1>1, <1>5, <1>6, <1>7 DEF S!IInv

\* The clock moves the bound of the times, and a step that changes nothing nothing.
LEMMA SocksRestIInv ==
  ASSUME S!SocksAssumption, S!IInv, S!Tick \/ UNCHANGED S!vars
  PROVE  S!IInv'
<1>1. /\ UNCHANGED <<sessLock, assocLock, sessions, assoc, issued, handler, queue, tunnel, heard, cleaner, strayed>>
      /\ now' \in 0..MaxTime /\ now <= now'
  BY SocksFacts DEF S!Tick, S!vars, S!SocksAssumption, S!IInv, S!TypeOK
<1>2. assoc \in [S!Ids -> [addr : SocksAddrs \union {S!None}, active : 0..now']]
  <2>1. \A x \in 0..now : x \in 0..now'
    BY <1>1, SocksFacts
  <2>2. \A i \in S!Ids : assoc[i] \in [addr : SocksAddrs \union {S!None}, active : 0..now']
    BY <2>1, SocksFacts DEF Entry
  <2>. QED
    BY <2>2, SocksFacts
<1>3. S!TypeOK'
  BY <1>1, <1>2 DEF S!IInv, S!TypeOK
<1>. QED
  BY <1>1, <1>3 DEF S!IInv, S!BoundKept, S!Addressed, S!Asking, S!IssuedBefore, S!PacketsOwned, S!Packets, S!CollectedStands, S!Rank

\* Each step has its lemma.
LEMMA SocksNextIInv ==
  ASSUME S!SocksAssumption, S!IInv, [S!Next]_(S!vars)
  PROVE  S!IInv'
<1>1. ASSUME NEW h \in Handlers,
             \/ S!Associate(h) \/ S!Disassociate(h) \/ S!LockSessions(h)
             \/ \E a \in SocksAddrs : S!Datagram(h, a)
      PROVE  S!IInv'
  BY <1>1, LoopIInv
<1>2. ASSUME NEW h \in Handlers, S!Enqueue(h) PROVE S!IInv'
  BY <1>2, EnqueueIInv
<1>3. CASE S!Connect \/ S!Upstream \/ S!Disconnect
  BY <1>3, TunnelIInv
<1>4. ASSUME NEW m \in heard, S!Downstream(m) PROVE S!IInv'
  BY <1>4, DownstreamIInv
<1>5. CASE S!Scan \/ S!CleanerLocks
  BY <1>5, CollectIInv
<1>6. CASE S!Remove
  BY <1>6, RemoveIInv
<1>7. CASE S!Tick \/ UNCHANGED S!vars
  BY <1>7, SocksRestIInv
<1>. QED
  BY <1>1, <1>2, <1>3, <1>4, <1>5, <1>6, <1>7 DEF S!Next

\* The invariant holds at first.
LEMMA SocksInitIInv ==
  ASSUME S!SocksAssumption, S!Init
  PROVE  S!IInv
<1>1. /\ IdSpace \in Nat \ {0} /\ QueueSize \in Nat /\ MaxTime \in Nat /\ MaxIssued \in Nat
  BY DEF S!SocksAssumption
<1>2. /\ now = 0 /\ sessLock = S!None /\ assocLock = S!None /\ issued = 0
      /\ sessions = [a \in SocksAddrs |-> S!NoId] /\ assoc = [i \in S!Ids |-> S!NoAssoc]
      /\ handler = [h \in Handlers |-> S!Idle("none")]
      /\ queue = <<>> /\ tunnel = "down" /\ heard = {}
      /\ cleaner = [pc |-> "sleep", out |-> {}] /\ strayed = FALSE
  BY DEF S!Init
<1>3. S!TypeOK
  <2>1. 0 \in 0..now /\ now \in 0..MaxTime /\ issued \in 0..MaxIssued
    BY <1>1, <1>2
  <2>2. assoc \in [S!Ids -> Entry]
    BY <1>2, <2>1 DEF Entry, S!NoAssoc
  <2>3. handler \in [Handlers -> Handler]
    BY <1>2 DEF S!Idle, Handler
  <2>4. queue \in Seq([id : S!Ids, from : SocksAddrs]) /\ Len(queue) <= QueueSize
    BY <1>1, <1>2
  <2>5. cleaner \in [pc : {"sleep", "scanned", "locked"}, out : SUBSET [id : S!Ids, addr : SocksAddrs]]
    BY <1>2
  <2>. QED
    BY <1>2, <2>1, <2>2, <2>3, <2>4, <2>5 DEF S!TypeOK, Entry, Handler
<1>4. S!Asking = {}
  BY <1>2 DEF S!Asking, S!Idle
<1>5. Cardinality(S!Asking) = 0
  BY <1>4, FS_EmptySet
<1>6. S!BoundKept /\ S!Addressed
  BY <1>1, <1>2, <1>4, <1>5, SocksSets DEF S!BoundKept, S!Addressed
<1>7. S!IssuedBefore /\ S!CollectedStands /\ ~strayed
  BY <1>2 DEF S!IssuedBefore, S!CollectedStands
<1>8. S!PacketsOwned
  <2>1. S!Packets = {}
    BY <1>2 DEF S!Packets
  <2>. QED
    BY <2>1 DEF S!PacketsOwned
<1>. QED
  BY <1>3, <1>6, <1>7, <1>8 DEF S!IInv

\* The inductive invariant of the client's UDP associations (inbound/socks5.rs).
THEOREM SocksSpecIInv ==
  ASSUME S!SocksAssumption
  PROVE  S!Spec => []S!IInv
<1>1. S!Init => S!IInv
  BY SocksInitIInv
<1>2. S!IInv /\ [S!Next]_(S!vars) => S!IInv'
  BY SocksNextIInv
<1>. QED
  BY <1>1, <1>2, PTL DEF S!Spec

\* It implies what is checked.
LEMMA SocksIInvImplies ==
  ASSUME S!SocksAssumption, S!IInv
  PROVE  S!AssociationsSound
<1>1. issued \in Nat /\ IdSpace \in Nat
  BY SocksFacts
<1>2. S!MapsAgree
  BY <1>1 DEF S!IInv, S!MapsAgree, S!IssuedBefore
<1>. QED
  BY <1>2 DEF S!IInv, S!AssociationsSound, S!RepliesReachSender

-----------------------------------------------------------------------------
(***************************************************************************)
(* Dashboard: after a quiet window nothing that is served is older than    *)
(* two periods.  A period that stays quiet began with the tick taken and   *)
(* the snapshots stored.                                                   *)
(***************************************************************************)

\* The invariant holds at first.
LEMMA DashboardInitIInv ==
    ASSUME B!DashboardAssumption, B!Init
    PROVE  B!IInv
<1>1. B!AgesOK
  BY DEF B!DashboardAssumption, B!Init, B!AgesOK
<1>2. B!FlagsOK
  BY Zenon DEF B!Init, B!FlagsOK
<1>3. B!QuietSince /\ B!SnapshotsRecent
  BY DEF B!DashboardAssumption, B!Init, B!QuietSince, B!SnapshotsRecent
<1>4. B!TickTaken
  BY DEF B!DashboardAssumption, B!Init, B!TickTaken
<1>. QED
  BY <1>1, <1>2, <1>3, <1>4 DEF B!IInv, B!TypeOK

\* The flags take Boolean values only.
LEMMA FlagsKept ==
    ASSUME B!FlagsOK, [B!Next]_(B!vars)
    PROVE  B!FlagsOK'
<1>1. CASE B!Tick
  BY <1>1, Zenon DEF B!Tick, B!FlagsOK
<1>2. CASE B!Lag
  BY <1>2, Zenon DEF B!Lag, B!FlagsOK
<1>3. CASE B!Poll
  BY <1>3, Zenon DEF B!Poll, B!FlagsOK
<1>4. CASE B!Skip
  BY <1>4, Zenon DEF B!Skip, B!FlagsOK
<1>5. CASE B!Build
  <2>1. needs' \in BOOLEAN
    BY <1>5, Zenon DEF B!Build, B!NeedsConnections
  <2>. QED
    BY <1>5, <2>1, Zenon DEF B!Build, B!FlagsOK
<1>6. CASE B!Store
  <2>1. generated' \in BOOLEAN
    BY <1>6, Zenon DEF B!Store
  <2>. QED
    BY <1>6, <2>1, Zenon DEF B!Store, B!FlagsOK
<1>7. CASE B!Fail
  BY <1>7, Zenon DEF B!Fail, B!FlagsOK
<1>8. CASE UNCHANGED B!vars
  BY <1>8, Zenon DEF B!vars, B!FlagsOK
<1>. QED
  BY <1>1, <1>2, <1>3, <1>4, <1>5, <1>6, <1>7, <1>8, Zenon DEF B!Next

\* What the invariant says beside the flags' type.
AgesSound == B!AgesOK /\ B!QuietSince /\ B!TickTaken /\ B!SnapshotsRecent

\* A period later a quiet one is longer, and nothing that was stored at its beginning is
\* older than one.
LEMMA TickAges ==
    ASSUME B!DashboardAssumption, AgesSound, B!FlagsOK, B!Tick
    PROVE  AgesSound'
<1>1. B!AgesOK'
  BY DEF B!DashboardAssumption, B!Tick, AgesSound, B!AgesOK, B!Older
<1>2. B!QuietSince'
  BY DEF B!DashboardAssumption, B!Tick, AgesSound, B!AgesOK, B!QuietSince, B!Older
<1>3. B!TickTaken'
  BY DEF B!Tick, B!TickTaken
<1>4. B!SnapshotsRecent'
  <2>. SUFFICES ASSUME quiet' > LagWindow
                PROVE  dashAge' <= 1 /\ connsAge' <= 1
    BY DEF B!SnapshotsRecent
  <2>1. ~(due \/ building = "building" \/ pollAge + 1 >= MonitorWindow)
    BY DEF B!DashboardAssumption, B!Tick
  <2>2. quiet' = B!Older(quiet)
    BY <2>1 DEF B!Tick
  <2>3. ~due /\ building = "idle"
    BY <2>1 DEF B!FlagsOK
  <2>4. quiet >= LagWindow
    BY <2>2 DEF B!DashboardAssumption, AgesSound, B!AgesOK, B!Older
  <2>5. dashAge = 0 /\ connsAge = 0
    BY <2>3, <2>4 DEF AgesSound, B!TickTaken
  <2>. QED
    BY <2>5 DEF B!DashboardAssumption, B!Tick, B!Older
<1>. QED
  BY <1>1, <1>2, <1>3, <1>4 DEF AgesSound

\* Every step but a tick keeps the ages in bounds.
LEMMA StepAges ==
    ASSUME B!DashboardAssumption, AgesSound, B!FlagsOK, [B!Next]_(B!vars), ~B!Tick
    PROVE  AgesSound'
<1>. USE DEF B!DashboardAssumption, AgesSound, B!AgesOK, B!QuietSince, B!TickTaken, B!SnapshotsRecent
<1>1. CASE B!Lag
  BY <1>1 DEF B!Lag
<1>2. CASE B!Poll
  BY <1>2 DEF B!Poll
\* A tick that is skipped although no lag counts ends the quiet.
<1>3. CASE B!Skip
  <2>1. quiet' = 0 \/ (quiet' = quiet /\ lagAge < LagWindow)
    BY <1>3 DEF B!Skip, B!Lagging
  <2>2. UNCHANGED <<lagAge, pollAge, dashAge, connsAge, building, needs>> /\ building = "idle"
    BY <1>3 DEF B!Skip
  <2>. QED
    BY <2>1, <2>2
\* While it is quiet the monitor is open, and the connections are needed.
<1>4. CASE B!Build
  <2>1. UNCHANGED <<lagAge, pollAge, dashAge, connsAge, quiet>> /\ building' = "building"
    BY <1>4 DEF B!Build
  <2>2. pollAge < MonitorWindow => needs'
    BY <1>4 DEF B!Build, B!NeedsConnections
  <2>. QED
    BY <2>1, <2>2
<1>5. CASE B!Store
  BY <1>5 DEF B!Store
<1>6. CASE B!Fail
  BY <1>6 DEF B!Fail
<1>7. CASE UNCHANGED B!vars
  BY <1>7 DEF B!vars
<1>. QED
  BY <1>1, <1>2, <1>3, <1>4, <1>5, <1>6, <1>7 DEF B!Next

\* Each step has its lemma.
LEMMA DashboardNextIInv ==
    ASSUME B!DashboardAssumption, B!IInv, [B!Next]_(B!vars)
    PROVE  B!IInv'
<1>1. B!FlagsOK /\ AgesSound
  BY DEF B!IInv, B!TypeOK, AgesSound
<1>2. B!FlagsOK'
  BY <1>1, FlagsKept
<1>3. AgesSound'
  BY <1>1, TickAges, StepAges
<1>. QED
  BY <1>2, <1>3 DEF B!IInv, B!TypeOK, AgesSound

\* The inductive invariant of the snapshot builder (main.rs).
THEOREM DashboardSpecIInv ==
    ASSUME B!DashboardAssumption
    PROVE  B!Spec => []B!IInv
BY DashboardInitIInv, DashboardNextIInv, PTL DEF B!Spec
-----------------------------------------------------------------------------
(***************************************************************************)
(* SubLimiter: the map remembers every request of the window, in order,    *)
(* whatever is pruned.  Cleaning a list leaves the suffix that begins at   *)
(* FirstRecent, which is found by the least element of a set of naturals.  *)
(***************************************************************************)

\* A set of naturals that is not empty has a least element.
LEMMA Least ==
    ASSUME NEW T \in SUBSET Nat, T # {}
    PROVE  \E x \in T : \A y \in T : x <= y
<1>. DEFINE LessThan == OpToRel(<, Nat)
<1>1. IsWellFoundedOn(LessThan, Nat)
  BY NatLessThanWellFounded
<1>2. \A x, y \in Nat : <<y, x>> \in LessThan <=> y < x
  BY DEF OpToRel
<1>. HIDE DEF LessThan
<1>3. PICK x \in T : \A y \in T : ~ (<<y, x>> \in LessThan)
  BY <1>1, WFMin
<1>4. ASSUME NEW y \in T PROVE x <= y
  <2>1. x \in Nat /\ y \in Nat /\ ~ (y < x)
    BY <1>2, <1>3
  <2>. QED
    BY <2>1
<1>. QED
  BY <1>4

\* What is left of a sequence from its k-th element on.
LEMMA FromOn ==
    ASSUME NEW Any, NEW s \in Seq(Any), NEW k \in 1 .. Len(s) + 1
    PROVE  /\ SubSeq(s, k, Len(s)) \in Seq(Any) /\ Len(SubSeq(s, k, Len(s))) = Len(s) - k + 1
           /\ \A i \in 1 .. Len(s) - k + 1 : SubSeq(s, k, Len(s))[i] = s[k + i - 1]
<1>1. Len(s) \in Nat /\ k \in Nat /\ k \in Int /\ Len(s) \in Int /\ k <= Len(s) + 1
  OBVIOUS
<1>2. ASSUME NEW i \in k .. Len(s)
      PROVE  s[i] \in Any
  <2>1. i \in 1 .. Len(s)
    BY <1>1
  <2>. QED
    BY <2>1, ElementOfSeq
<1>3. (IF k <= Len(s) THEN Len(s) - k + 1 ELSE 0) = Len(s) - k + 1
  BY <1>1
<1>. QED
  BY <1>1, <1>2, <1>3, SubSeqProperties

\* k is where the requests of the window begin.
Begins(s, k) ==
    /\ k \in 1 .. Len(s) + 1
    /\ \A i \in 1 .. k - 1 : s[i] >= Window
    /\ \A i \in k .. Len(s) : s[i] < Window

\* The ages are numbers, the oldest first.
LEMMA AgesBasic ==
    ASSUME L!LimiterAssumption, NEW s, L!Ages(s)
    PROVE  /\ s \in Seq(0 .. Window) /\ Len(s) \in Nat /\ DOMAIN s = 1 .. Len(s) /\ Window \in Nat \ {0}
           /\ \A i \in 1 .. Len(s) : s[i] \in Int /\ 0 <= s[i] /\ s[i] <= Window
           /\ \A i, j \in 1 .. Len(s) : i <= j => s[j] <= s[i]
<1>1. s \in Seq(0 .. Window) /\ Window \in Nat \ {0}
  BY DEF L!Ages, L!LimiterAssumption
<1>2. Len(s) \in Nat /\ DOMAIN s = 1 .. Len(s)
  BY <1>1
<1>3. \A i \in 1 .. Len(s) : s[i] \in 0 .. Window
  BY <1>1, ElementOfSeq
<1>4. \A i \in 1 .. Len(s) : s[i] \in Int /\ 0 <= s[i] /\ s[i] <= Window
  <2>1. \A w \in Nat : \A x \in 0 .. w : x \in Int /\ 0 <= x /\ x <= w
    OBVIOUS
  <2>. QED
    BY <1>1, <1>3, <2>1, Zenon
<1>5. \A i, j \in 1 .. Len(s) : i <= j => s[j] <= s[i]
  BY <1>2, Zenon DEF L!Ages
<1>. QED
  BY <1>1, <1>2, <1>4, <1>5, Zenon

\* In ages that are ordered there is such a place,
LEMMA BeginExists ==
    ASSUME L!LimiterAssumption, NEW s, L!Ages(s)
    PROVE  \E k \in 1 .. Len(s) + 1 : Begins(s, k)
<1>. DEFINE T == {k \in 1 .. Len(s) + 1 : \A i \in k .. Len(s) : s[i] < Window}
<1>1. Len(s) \in Nat /\ Window \in Nat
  BY AgesBasic
<1>2. Len(s) + 1 \in T
  BY <1>1
<1>3. T \in SUBSET Nat /\ T # {}
  BY <1>1, <1>2
<1>4. PICK k \in T : \A j \in T : k <= j
  <2>. HIDE DEF T
  <2>. QED
    BY <1>3, Least
<1>5. k \in 1 .. Len(s) + 1 /\ \A i \in k .. Len(s) : s[i] < Window
  BY <1>4
<1>6. ASSUME NEW i \in 1 .. k - 1
      PROVE  s[i] >= Window
  <2>1. k \in Nat /\ k - 1 \in 1 .. Len(s) /\ i \in 1 .. Len(s) /\ i <= k - 1
    BY <1>1, <1>5
  <2>2. k - 1 \notin T
    <3>1. ~ (k <= k - 1)
      BY <2>1
    <3>. QED
      BY <3>1, <1>4
  <2>3. k - 1 \in 1 .. Len(s) + 1
    BY <1>1, <2>1
  <2>4. PICK j \in k - 1 .. Len(s) : ~ (s[j] < Window)
    BY <2>2, <2>3
  <2>5. j = k - 1
    BY <1>1, <1>5, <2>1, <2>4
  <2>6. s[k - 1] \in Int /\ s[i] \in Int /\ s[k - 1] <= s[i]
    BY <2>1, AgesBasic
  <2>. QED
    BY <1>1, <2>4, <2>5, <2>6
<1>. QED
  BY <1>5, <1>6 DEF Begins

\* and it is FirstRecent, whatever one is found.
LEMMA RecentIs ==
    ASSUME L!LimiterAssumption, NEW s, L!Ages(s), NEW k, Begins(s, k)
    PROVE  L!Recent(s) = SubSeq(s, k, Len(s))
<1>1. Begins(s, L!FirstRecent(s))
  BY BeginExists DEF L!FirstRecent, Begins
<1>2. ASSUME NEW j \in Nat, NEW m \in Nat, j < m, Begins(s, j), Begins(s, m)
      PROVE  FALSE
  <2>1. j \in 1 .. m - 1 /\ j \in j .. Len(s) /\ j \in 1 .. Len(s)
    BY <1>2, AgesBasic DEF Begins
  <2>2. s[j] >= Window /\ s[j] < Window
    BY <1>2, <2>1 DEF Begins
  <2>3. s[j] \in Int /\ Window \in Int
    BY <2>1, AgesBasic
  <2>. QED
    BY <2>2, <2>3
<1>3. k \in Nat /\ L!FirstRecent(s) \in Nat
  BY <1>1, AgesBasic DEF Begins
<1>4. k = L!FirstRecent(s)
  BY <1>1, <1>2, <1>3
<1>. QED
  BY <1>4 DEF L!Recent

\* What is left of a window is recent,
LEMMA RecentProperties ==
    ASSUME L!LimiterAssumption, NEW s, L!Ages(s)
    PROVE  L!RecentAges(L!Recent(s))
<1>1. PICK k \in 1 .. Len(s) + 1 : Begins(s, k)
  BY BeginExists
<1>2. L!Recent(s) = SubSeq(s, k, Len(s))
  BY <1>1, RecentIs
<1>. DEFINE r == SubSeq(s, k, Len(s))
            n == Len(s) - k + 1
<1>3. /\ s \in Seq(0 .. Window) /\ Len(s) \in Nat /\ k \in Nat /\ n \in Nat
      /\ \A i, j \in 1 .. Len(s) : i <= j => s[j] <= s[i]
  BY <1>1, AgesBasic
<1>4. r \in Seq(0 .. Window) /\ Len(r) = n /\ \A i \in 1 .. n : r[i] = s[k + i - 1]
  BY <1>3, FromOn
<1>. HIDE DEF r
<1>5. DOMAIN r = 1 .. n
  BY <1>4
<1>6. \A i \in 1 .. n : k + i - 1 \in 1 .. Len(s) /\ k + i - 1 \in k .. Len(s)
  BY <1>1, <1>3
<1>7. \A i, j \in 1 .. n : i <= j => r[j] <= r[i]
  <2>. SUFFICES ASSUME NEW i \in 1 .. n, NEW j \in 1 .. n, i <= j
                PROVE  r[j] <= r[i]
    OBVIOUS
  <2>1. k + i - 1 <= k + j - 1
    BY <1>3
  <2>. QED
    BY <1>3, <1>4, <1>6, <2>1
<1>8. \A i \in 1 .. n : r[i] < Window
  BY <1>1, <1>4, <1>6 DEF Begins
<1>9. r = L!Recent(s)
  BY <1>2 DEF r
<1>. HIDE DEF n
<1>10. L!RecentAges(r)
  BY <1>4, <1>5, <1>7, <1>8 DEF L!RecentAges, L!Ages
<1>. QED
  BY <1>9, <1>10

\* what is recent is left as it is,
LEMMA RecentOfRecent ==
    ASSUME L!LimiterAssumption, NEW r, L!RecentAges(r)
    PROVE  L!Recent(r) = r
<1>1. r \in Seq(0 .. Window) /\ Len(r) \in Nat /\ DOMAIN r = 1 .. Len(r) /\ L!Ages(r)
  BY AgesBasic DEF L!RecentAges
<1>2. Begins(r, 1)
  BY <1>1 DEF Begins, L!RecentAges
<1>3. L!Recent(r) = SubSeq(r, 1, Len(r))
  BY <1>1, <1>2, RecentIs
<1>. QED
  BY <1>1, <1>3, SubSeqFull

\* an empty window is recent,
LEMMA EmptyRecent ==
    ASSUME L!LimiterAssumption
    PROVE  L!RecentAges(<<>>) /\ L!Recent(<<>>) = <<>> /\ L!Ages(<<>>)
<1>1. L!RecentAges(<<>>)
  BY DEF L!RecentAges, L!Ages
<1>. QED
  BY <1>1, RecentOfRecent DEF L!RecentAges

\* and so is one with a request of now.
LEMMA AppendRecent ==
    ASSUME L!LimiterAssumption, NEW r, L!RecentAges(r)
    PROVE  L!RecentAges(Append(r, 0)) /\ Len(Append(r, 0)) = Len(r) + 1
<1>1. /\ r \in Seq(0 .. Window) /\ Len(r) \in Nat /\ DOMAIN r = 1 .. Len(r) /\ Window \in Nat \ {0}
      /\ \A i \in 1 .. Len(r) : r[i] \in Int /\ 0 <= r[i] /\ r[i] < Window
      /\ \A i, j \in 1 .. Len(r) : i <= j => r[j] <= r[i]
  BY AgesBasic DEF L!RecentAges
<1>. DEFINE t == Append(r, 0)
<1>2. 0 \in 0 .. Window
  BY <1>1
<1>3. /\ t \in Seq(0 .. Window) /\ Len(t) = Len(r) + 1
      /\ t[Len(r) + 1] = 0 /\ \A i \in 1 .. Len(r) : t[i] = r[i]
  BY <1>1, <1>2, AppendProperties
<1>. HIDE DEF t
<1>4. DOMAIN t = 1 .. Len(r) + 1
  BY <1>1, <1>3
<1>5. \A i \in 1 .. Len(r) + 1 : i \in 1 .. Len(r) \/ i = Len(r) + 1
  BY <1>1
<1>6. \A i \in 1 .. Len(r) + 1 : t[i] < Window
  BY <1>1, <1>3, <1>5
<1>7. \A i, j \in 1 .. Len(r) + 1 : i <= j => t[j] <= t[i]
  <2>1. ASSUME NEW i \in 1 .. Len(r), NEW j \in 1 .. Len(r), i <= j PROVE t[j] <= t[i]
    BY <1>1, <1>3, <2>1, Zenon
  <2>2. ASSUME NEW i \in 1 .. Len(r) PROVE t[Len(r) + 1] <= t[i] /\ ~(Len(r) + 1 <= i)
    <3>1. t[i] = r[i] /\ 0 <= r[i]
      BY <1>1, <1>3
    <3>. QED
      BY <1>1, <1>3, <3>1
  <2>3. t[Len(r) + 1] <= t[Len(r) + 1]
    BY <1>3
  <2>. QED
    BY <1>5, <2>1, <2>2, <2>3, Zenon
<1>8. L!RecentAges(t)
  BY <1>3, <1>4, <1>6, <1>7 DEF L!RecentAges, L!Ages
<1>. QED
  BY <1>3, <1>8 DEF t

\* Time passes for every age.
LEMMA OlderAges ==
    ASSUME L!LimiterAssumption, NEW s, L!Ages(s)
    PROVE  /\ L!Ages(L!Older(s)) /\ Len(L!Older(s)) = Len(s)
           /\ \A i \in 1 .. Len(s) : L!Older(s)[i] = IF s[i] < Window THEN s[i] + 1 ELSE s[i]
<1>1. /\ s \in Seq(0 .. Window) /\ Len(s) \in Nat /\ DOMAIN s = 1 .. Len(s) /\ Window \in Nat \ {0}
      /\ \A i \in 1 .. Len(s) : s[i] \in Int /\ 0 <= s[i] /\ s[i] <= Window
      /\ \A i, j \in 1 .. Len(s) : i <= j => s[j] <= s[i]
  BY AgesBasic
<1>. DEFINE t == [i \in 1 .. Len(s) |-> IF s[i] < Window THEN s[i] + 1 ELSE s[i]]
<1>2. L!Older(s) = t
  BY <1>1 DEF L!Older
<1>3. \A i \in 1 .. Len(s) : t[i] = IF s[i] < Window THEN s[i] + 1 ELSE s[i]
  OBVIOUS
<1>4. \A i \in 1 .. Len(s) : t[i] \in 0 .. Window
  BY <1>1
<1>5. t \in Seq(0 .. Window) /\ Len(t) = Len(s)
  BY <1>1, <1>4
<1>. HIDE DEF t
<1>6. ASSUME NEW i \in 1 .. Len(s), NEW j \in 1 .. Len(s), i <= j PROVE t[j] <= t[i]
  <2>1. s[j] <= s[i] /\ s[i] \in Int /\ s[j] \in Int /\ s[i] <= Window /\ Window \in Nat
    BY <1>1, <1>6
  <2>2. t[i] = (IF s[i] < Window THEN s[i] + 1 ELSE s[i]) /\ t[j] = (IF s[j] < Window THEN s[j] + 1 ELSE s[j])
    BY <1>3
  <2>. QED
    BY <2>1, <2>2
<1>7. DOMAIN t = 1 .. Len(s)
  BY <1>1, <1>5
<1>8. L!Ages(t)
  BY <1>5, <1>6, <1>7 DEF L!Ages
<1>. QED
  BY <1>2, <1>3, <1>5, <1>8

\* Forgetting what is old before or after a tick comes to the same.
LEMMA RecentOfOlder ==
    ASSUME L!LimiterAssumption, NEW s, L!Ages(s)
    PROVE  L!Recent(L!Older(L!Recent(s))) = L!Recent(L!Older(s))
<1>1. PICK k \in 1 .. Len(s) + 1 : Begins(s, k)
  BY BeginExists
<1>. DEFINE r == L!Recent(s)
            o == L!Older(s)
            p == L!Older(r)
            n == Len(s) - k + 1
<1>2. /\ s \in Seq(0 .. Window) /\ Len(s) \in Nat /\ k \in Nat /\ n \in Nat /\ Window \in Nat \ {0}
      /\ \A i \in 1 .. Len(s) : s[i] \in Int /\ 0 <= s[i] /\ s[i] <= Window
  BY <1>1, AgesBasic
<1>3. r = SubSeq(s, k, Len(s))
  BY <1>1, RecentIs
<1>4. r \in Seq(0 .. Window) /\ Len(r) = n /\ \A i \in 1 .. n : r[i] = s[k + i - 1]
  BY <1>2, <1>3, FromOn
<1>5. L!Ages(r)
  BY RecentProperties DEF L!RecentAges
<1>6. /\ L!Ages(o) /\ Len(o) = Len(s)
      /\ \A i \in 1 .. Len(s) : o[i] = IF s[i] < Window THEN s[i] + 1 ELSE s[i]
  BY OlderAges
<1>7. /\ L!Ages(p) /\ Len(p) = n
      /\ \A i \in 1 .. n : p[i] = IF r[i] < Window THEN r[i] + 1 ELSE r[i]
  <2>. HIDE DEF r
  <2>. QED
    BY <1>4, <1>5, OlderAges
<1>. HIDE DEF r, o, p
<1>8. \A i \in 1 .. n : k + i - 1 \in 1 .. Len(s) /\ p[i] = o[k + i - 1]
  <2>. SUFFICES ASSUME NEW i \in 1 .. n
                PROVE  k + i - 1 \in 1 .. Len(s) /\ p[i] = o[k + i - 1]
    OBVIOUS
  <2>1. k + i - 1 \in 1 .. Len(s)
    BY <1>2
  <2>2. p[i] = IF r[i] < Window THEN r[i] + 1 ELSE r[i]
    BY <1>7
  <2>3. r[i] = s[k + i - 1]
    BY <1>4
  <2>4. o[k + i - 1] = IF s[k + i - 1] < Window THEN s[k + i - 1] + 1 ELSE s[k + i - 1]
    BY <1>6, <2>1
  <2>. QED
    BY <2>1, <2>2, <2>3, <2>4
\* The first that is still within the window comes no earlier than before.
<1>9. PICK j \in 1 .. Len(o) + 1 : Begins(o, j)
  BY <1>6, BeginExists
<1>10. k <= j /\ j \in Nat /\ j <= Len(s) + 1
  <2>1. j \in Nat /\ j <= Len(s) + 1
    BY <1>2, <1>6, <1>9
  <2>2. ASSUME j < k
        PROVE  FALSE
    <3>1. j \in 1 .. k - 1 /\ j \in 1 .. Len(s) /\ j \in j .. Len(o)
      BY <1>1, <1>2, <1>6, <1>9, <2>1, <2>2
    <3>2. s[j] >= Window /\ o[j] < Window
      BY <1>1, <1>9, <3>1 DEF Begins
    <3>3. o[j] = IF s[j] < Window THEN s[j] + 1 ELSE s[j]
      BY <1>6, <3>1
    <3>4. s[j] \in Int
      BY <1>2, <3>1
    <3>. QED
      BY <1>2, <3>2, <3>3, <3>4
  <2>. QED
    BY <1>2, <2>1, <2>2
<1>. DEFINE m == j - k + 1
<1>11. m \in 1 .. n + 1 /\ m \in Nat
  BY <1>2, <1>10
<1>12. Begins(p, m)
  <2>1. ASSUME NEW i \in 1 .. m - 1
        PROVE  p[i] >= Window
    <3>1. i \in 1 .. n /\ k + i - 1 \in 1 .. j - 1
      BY <1>2, <1>10, <1>11
    <3>2. p[i] = o[k + i - 1]
      BY <1>8, <3>1
    <3>. QED
      BY <1>9, <3>1, <3>2 DEF Begins
  <2>2. ASSUME NEW i \in m .. Len(p)
        PROVE  p[i] < Window
    <3>1. i \in 1 .. n /\ k + i - 1 \in j .. Len(o)
      BY <1>2, <1>6, <1>7, <1>10, <1>11
    <3>2. p[i] = o[k + i - 1]
      BY <1>8, <3>1
    <3>. QED
      BY <1>9, <3>1, <3>2 DEF Begins
  <2>. HIDE DEF m
  <2>. QED
    BY <1>7, <1>11, <2>1, <2>2 DEF Begins
<1>13. L!Recent(p) = SubSeq(p, m, Len(p)) /\ L!Recent(o) = SubSeq(o, j, Len(o))
  <2>. HIDE DEF m
  <2>. QED
    BY <1>6, <1>7, <1>9, <1>12, RecentIs
\* Both are the same pieces of what was aged.
<1>14. SubSeq(p, m, Len(p)) = SubSeq(o, j, Len(o))
  <2>. DEFINE u == SubSeq(p, m, Len(p))
              v == SubSeq(o, j, Len(o))
              h == Len(s) - j + 1
  <2>1. h \in Nat
    BY <1>2, <1>10
  <2>2. p \in Seq(0 .. Window) /\ o \in Seq(0 .. Window)
    BY <1>6, <1>7 DEF L!Ages
  <2>3. u \in Seq(0 .. Window) /\ Len(u) = h /\ \A i \in 1 .. h : u[i] = p[m + i - 1]
    <3>1. m \in 1 .. Len(p) + 1 /\ Len(p) - m + 1 = h
      BY <1>2, <1>7, <1>10, <1>11
    <3>. HIDE DEF m, h
    <3>. QED
      BY <2>2, <3>1, FromOn
  <2>4. v \in Seq(0 .. Window) /\ Len(v) = h /\ \A i \in 1 .. h : v[i] = o[j + i - 1]
    <3>1. Len(o) - j + 1 = h
      BY <1>6
    <3>. HIDE DEF h
    <3>. QED
      BY <1>9, <2>2, <3>1, FromOn
  <2>5. \A i \in 1 .. h : m + i - 1 \in 1 .. n /\ k + (m + i - 1) - 1 = j + i - 1
    BY <1>2, <1>10, <1>11
  <2>6. ASSUME NEW i \in 1 .. h
        PROVE  u[i] = v[i]
    BY <1>8, <2>3, <2>4, <2>5
  <2>. HIDE DEF u, v, h
  <2>7. u = v
    BY <2>3, <2>4, <2>6, SeqEqual
  <2>. QED
    BY <2>7 DEF u, v
<1>. QED
  BY <1>13, <1>14 DEF p, o, r

\* The invariant holds at first.
LEMMA LimiterInitIInv ==
    ASSUME L!LimiterAssumption, L!Init
    PROVE  L!IInv
<1>1. DOMAIN map = {} /\ DOMAIN served = L!Sources /\ \A a \in L!Sources : served[a] = <<>>
  BY DEF L!Init
<1>2. \A a \in L!Sources : L!Remembered(map, a) = <<>>
  BY <1>1 DEF L!Remembered
<1>3. \A a \in L!Sources : L!RecentAges(served[a]) /\ Len(served[a]) <= Limit
  BY <1>1, EmptyRecent DEF L!LimiterAssumption
<1>4. served \in [L!Sources -> Seq(0 .. Window)]
  BY DEF L!Init
<1>. QED
  BY <1>1, <1>2, <1>3, <1>4 DEF L!IInv

\* Pruning forgets nothing that counts.
LEMMA PrunedRemembers ==
    ASSUME L!LimiterAssumption, \A a \in DOMAIN map : L!Ages(map[a])
    PROVE  /\ DOMAIN L!Pruned(map) \subseteq DOMAIN map
           /\ \A a \in DOMAIN L!Pruned(map) : L!Ages(L!Pruned(map)[a])
           /\ \A a : L!Remembered(L!Pruned(map), a) = L!Remembered(map, a)
<1>1. CASE L!Pruned(map) = map
  BY <1>1
<1>2. CASE L!Pruned(map) # map
  <2>. DEFINE m == [a \in {x \in DOMAIN map : L!Recent(map[x]) # <<>>} |-> L!Recent(map[a])]
  <2>1. L!Pruned(map) = m
    BY <1>2 DEF L!Pruned
  <2>2. \A a : a \in DOMAIN m <=> a \in DOMAIN map /\ L!Recent(map[a]) # <<>>
    OBVIOUS
  <2>3. \A a \in DOMAIN m : m[a] = L!Recent(map[a])
    OBVIOUS
  <2>. HIDE DEF m
  <2>4. \A a \in DOMAIN map : L!RecentAges(L!Recent(map[a])) /\ L!Recent(L!Recent(map[a])) = L!Recent(map[a])
    BY RecentProperties, RecentOfRecent
  <2>5. \A a \in DOMAIN m : L!Ages(m[a]) /\ L!Recent(m[a]) = L!Recent(map[a])
    BY <2>2, <2>3, <2>4 DEF L!RecentAges
  <2>6. \A a : L!Remembered(m, a) = L!Remembered(map, a)
    BY <2>2, <2>5 DEF L!Remembered
  <2>. QED
    BY <2>1, <2>2, <2>5, <2>6
<1>. QED
  BY <1>1, <1>2

\* A request preserves it.
LEMMA RequestIInv ==
    ASSUME L!LimiterAssumption, L!IInv, NEW peer \in Peers, NEW f \in SUBSET Clients, L!Request(peer, f)
    PROVE  L!IInv'
<1>. DEFINE m == L!Pruned(map)
<1>1. PICK a \in L!ClientIp(peer, f) :
        LET mine == IF a \in DOMAIN m THEN L!Recent(m[a]) ELSE <<>>
            kept == IF Len(mine) >= Limit THEN mine ELSE Append(mine, 0)
        IN /\ map' = [x \in DOMAIN m \union {a} |-> IF x = a THEN kept ELSE m[x]]
           /\ served' = IF Len(mine) >= Limit THEN served
                        ELSE [served EXCEPT ![a] = Append(L!Recent(@), 0)]
  BY DEF L!Request
<1>. DEFINE mine == L!Remembered(m, a)
            kept == IF Len(mine) >= Limit THEN mine ELSE Append(mine, 0)
<1>2. /\ map' = [x \in DOMAIN m \union {a} |-> IF x = a THEN kept ELSE m[x]]
      /\ served' = IF Len(mine) >= Limit THEN served ELSE [served EXCEPT ![a] = Append(L!Recent(@), 0)]
  BY <1>1 DEF L!Remembered
<1>3. a \in L!Sources
  BY DEF L!ClientIp, L!Sources
<1>4. /\ DOMAIN map \subseteq L!Sources /\ DOMAIN m \subseteq DOMAIN map
      /\ \A x \in DOMAIN m : L!Ages(m[x])
      /\ \A x : L!Remembered(m, x) = L!Remembered(map, x)
  BY PrunedRemembers DEF L!IInv
<1>. HIDE DEF m
<1>5. mine = served[a]
  BY <1>3, <1>4 DEF L!IInv
<1>6. L!RecentAges(served[a]) /\ Len(served[a]) <= Limit /\ Len(served[a]) \in Nat /\ Limit \in Nat
  BY <1>3, AgesBasic DEF L!IInv, L!LimiterAssumption, L!RecentAges
<1>7. L!RecentAges(kept) /\ Len(kept) <= Limit /\ L!Recent(kept) = kept
  <2>1. CASE Len(mine) >= Limit
    BY <1>5, <1>6, <2>1, RecentOfRecent
  <2>2. CASE ~ (Len(mine) >= Limit)
    <3>1. L!RecentAges(Append(mine, 0)) /\ Len(Append(mine, 0)) = Len(mine) + 1
      BY <1>5, <1>6, AppendRecent
    <3>. QED
      BY <1>5, <1>6, <2>2, <3>1, RecentOfRecent
  <2>. QED
    BY <2>1, <2>2
<1>8. served' = [served EXCEPT ![a] = kept]
  <2>1. L!Recent(served[a]) = mine
    BY <1>5, <1>6, RecentOfRecent
  <2>2. CASE Len(mine) >= Limit
    BY <1>2, <1>3, <1>5, <2>2 DEF L!IInv
  <2>3. CASE ~ (Len(mine) >= Limit)
    BY <1>2, <1>5, <2>1, <2>3
  <2>. QED
    BY <2>2, <2>3
<1>9. map' = [x \in DOMAIN m \union {a} |-> IF x = a THEN kept ELSE m[x]]
  BY <1>2
<1>. HIDE DEF kept, mine
<1>10. DOMAIN map' \subseteq L!Sources /\ \A x \in DOMAIN map' : L!Ages(map'[x])
  BY <1>3, <1>4, <1>7, <1>9 DEF L!RecentAges
<1>11. served' \in [L!Sources -> Seq(0 .. Window)]
  BY <1>7, <1>8 DEF L!IInv, L!RecentAges, L!Ages
<1>12. ASSUME NEW x \in L!Sources
       PROVE  L!RecentAges(served'[x]) /\ Len(served'[x]) <= Limit /\ served'[x] = L!Remembered(map', x)
  <2>1. CASE x = a
    <3>1. served'[x] = kept
      BY <1>3, <1>8, <2>1 DEF L!IInv
    <3>2. L!Remembered(map', x) = L!Recent(kept)
      BY <1>9, <2>1 DEF L!Remembered
    <3>. QED
      BY <1>7, <3>1, <3>2
  <2>2. CASE x # a
    <3>1. served'[x] = served[x]
      BY <1>8, <2>2 DEF L!IInv
    <3>2. L!Remembered(map', x) = L!Remembered(m, x)
      BY <1>9, <2>2 DEF L!Remembered
    <3>. QED
      BY <1>4, <3>1, <3>2 DEF L!IInv
  <2>. QED
    BY <2>1, <2>2
<1>. QED
  BY <1>10, <1>11, <1>12 DEF L!IInv

\* No window grows by forgetting.
LEMMA RecentNoLonger ==
    ASSUME L!LimiterAssumption, NEW s, L!Ages(s)
    PROVE  Len(L!Recent(s)) <= Len(s) /\ Len(L!Recent(s)) \in Nat
<1>1. PICK k \in 1 .. Len(s) + 1 : Begins(s, k)
  BY BeginExists
<1>2. L!Recent(s) = SubSeq(s, k, Len(s)) /\ s \in Seq(0 .. Window) /\ Len(s) \in Nat
  BY <1>1, RecentIs, AgesBasic
<1>3. Len(L!Recent(s)) = Len(s) - k + 1
  BY <1>2, FromOn
<1>. QED
  BY <1>1, <1>2, <1>3

\* The clock preserves it.
LEMMA LimiterTickIInv ==
    ASSUME L!LimiterAssumption, L!IInv, L!Tick
    PROVE  L!IInv'
<1>1. DOMAIN map' = DOMAIN map /\ \A a \in DOMAIN map : map'[a] = L!Older(map[a])
  BY DEF L!Tick
<1>2. DOMAIN map' \subseteq L!Sources /\ \A a \in DOMAIN map' : L!Ages(map'[a])
  BY <1>1, OlderAges DEF L!IInv
<1>3. DOMAIN served' = L!Sources /\ \A a \in L!Sources : served'[a] = L!Recent(L!Older(served[a]))
  BY DEF L!Tick
<1>4. ASSUME NEW a \in L!Sources
      PROVE  L!RecentAges(served'[a]) /\ Len(served'[a]) <= Limit /\ served'[a] = L!Remembered(map', a)
  <2>1. L!RecentAges(served[a]) /\ L!Ages(served[a]) /\ Len(served[a]) <= Limit /\ served[a] = L!Remembered(map, a)
    BY DEF L!IInv, L!RecentAges
  <2>2. L!Ages(L!Older(served[a])) /\ Len(L!Older(served[a])) = Len(served[a])
    BY <2>1, OlderAges
  <2>3. L!RecentAges(served'[a])
    BY <1>3, <2>2, RecentProperties
  <2>4. Len(served'[a]) <= Limit
    <3>1. Len(served'[a]) <= Len(served[a]) /\ Len(served'[a]) \in Nat
      BY <1>3, <2>2, RecentNoLonger
    <3>2. Len(served[a]) \in Nat /\ Limit \in Nat
      BY <2>1, AgesBasic DEF L!LimiterAssumption
    <3>. QED
      BY <2>1, <3>1, <3>2
  <2>5. CASE a \in DOMAIN map
    <3>1. L!Remembered(map', a) = L!Recent(L!Older(map[a]))
      BY <1>1, <2>5 DEF L!Remembered
    <3>2. served[a] = L!Recent(map[a]) /\ L!Ages(map[a])
      BY <2>1, <2>5 DEF L!Remembered, L!IInv
    <3>3. L!Recent(L!Older(L!Recent(map[a]))) = L!Recent(L!Older(map[a]))
      BY <3>2, RecentOfOlder
    <3>. QED
      BY <1>3, <2>3, <2>4, <3>1, <3>2, <3>3
  <2>6. CASE a \notin DOMAIN map
    <3>1. L!Remembered(map', a) = <<>> /\ served[a] = <<>>
      BY <1>1, <2>1, <2>6 DEF L!Remembered
    <3>2. Len(L!Older(served[a])) = 0
      BY <2>2, <3>1
    <3>3. Len(served'[a]) = 0
      BY <1>3, <2>2, <3>2, RecentNoLonger
    <3>4. served'[a] \in Seq(0 .. Window)
      BY <2>3 DEF L!RecentAges, L!Ages
    <3>5. served'[a] = <<>>
      BY <3>3, <3>4
    <3>. QED
      BY <2>3, <2>4, <3>1, <3>5
  <2>. QED
    BY <2>5, <2>6
<1>5. served' \in [L!Sources -> Seq(0 .. Window)]
  <2>1. served' = [a \in L!Sources |-> L!Recent(L!Older(served[a]))]
    BY DEF L!Tick
  <2>2. \A a \in L!Sources : L!Recent(L!Older(served[a])) \in Seq(0 .. Window)
    BY <1>3, <1>4 DEF L!RecentAges, L!Ages
  <2>. QED
    BY <2>1, <2>2
<1>. QED
  BY <1>2, <1>4, <1>5 DEF L!IInv

\* Each step has its lemma.
LEMMA LimiterNextIInv ==
    ASSUME L!LimiterAssumption, L!IInv, [L!Next]_(L!vars)
    PROVE  L!IInv'
<1>1. CASE L!Tick
  BY <1>1, LimiterTickIInv
<1>2. CASE \E peer \in Peers, f \in SUBSET Clients : L!Cardinality(f) <= 1 /\ L!Request(peer, f)
  BY <1>2, RequestIInv
<1>3. CASE UNCHANGED L!vars
  <2>1. map' = map /\ served' = served
    BY <1>3 DEF L!vars
  <2>. QED
    BY <2>1 DEF L!IInv, L!Remembered
<1>. QED
  BY <1>1, <1>2, <1>3 DEF L!Next

\* It implies what is checked.
LEMMA LimiterIInvImplies ==
    ASSUME L!LimiterAssumption, L!IInv
    PROVE  L!LimitHolds
BY RecentOfRecent DEF L!IInv, L!LimitHolds
-----------------------------------------------------------------------------
(***************************************************************************)
(* Relays: what was written is the beginning of what was sent, what is in  *)
(* hand comes next, and the counters settle when a direction or the        *)
(* relay ends.                                                             *)
(***************************************************************************)

\* The first n bytes in hand go on where what was written ends, and the others on from
\* there.
LEMMA NumberedParts ==
    ASSUME NEW s \in Seq(Nat), NEW t \in Seq(Nat), NEW n \in 0 .. Len(t)
    PROVE  /\ s \o SubSeq(t, 1, n) \in Seq(Nat) /\ Len(s \o SubSeq(t, 1, n)) = Len(s) + n
           /\ SubSeq(t, n + 1, Len(t)) \in Seq(Nat) /\ Len(SubSeq(t, n + 1, Len(t))) = Len(t) - n
           /\ Y!Numbered(s, 0) /\ Y!Numbered(t, Len(s)) =>
                 /\ Y!Numbered(s \o SubSeq(t, 1, n), 0)
                 /\ Y!Numbered(SubSeq(t, n + 1, Len(t)), Len(s) + n)
<1>. DEFINE u == SubSeq(t, 1, n)
            v == SubSeq(t, n + 1, Len(t))
<1>0. Len(s) \in Nat /\ Len(t) \in Nat /\ n \in Nat /\ n <= Len(t) /\ DOMAIN t = 1 .. Len(t) /\ DOMAIN s = 1 .. Len(s)
  OBVIOUS
<1>1. u \in Seq(Nat) /\ Len(u) = n /\ \A i \in 1 .. n : u[i] = t[i]
  OBVIOUS
<1>2. v \in Seq(Nat) /\ Len(v) = Len(t) - n /\ \A i \in 1 .. Len(t) - n : v[i] = t[n + i]
  OBVIOUS
<1>. HIDE DEF u, v
<1>3. s \o u \in Seq(Nat) /\ Len(s \o u) = Len(s) + n
  BY <1>0, <1>1, ConcatProperties
<1>4. ASSUME Y!Numbered(s, 0), Y!Numbered(t, Len(s))
      PROVE  Y!Numbered(s \o u, 0) /\ Y!Numbered(v, Len(s) + n)
  <2>1. ASSUME NEW i \in 1 .. Len(s) + n
        PROVE  (s \o u)[i] = i
    <3>1. CASE i <= Len(s)
      <4>1. (s \o u)[i] = s[i] /\ i \in DOMAIN s
        BY <1>0, <1>1, <3>1, ConcatProperties
      <4>. QED
        BY <4>1, <3>1, <1>0, <1>4 DEF Y!Numbered
    <3>2. CASE i > Len(s)
      <4>1. (s \o u)[i] = u[i - Len(s)] /\ i - Len(s) \in 1 .. n
        BY <1>0, <1>1, <3>2, ConcatProperties
      <4>2. u[i - Len(s)] = t[i - Len(s)] /\ i - Len(s) \in DOMAIN t
        BY <1>0, <1>1, <4>1
      <4>3. t[i - Len(s)] = Len(s) + (i - Len(s))
        BY <4>2, <1>4 DEF Y!Numbered
      <4>4. Len(s) + (i - Len(s)) = i
        BY <1>0
      <4>. QED
        BY <4>1, <4>2, <4>3, <4>4, Zenon
    <3>3. i <= Len(s) \/ i > Len(s)
      BY <1>0
    <3>. QED
      BY <3>1, <3>2, <3>3, Zenon
  <2>2. Y!Numbered(s \o u, 0)
    <3>1. DOMAIN (s \o u) = 1 .. Len(s) + n
      BY <1>3
    <3>. QED
      BY <2>1, <3>1 DEF Y!Numbered
  <2>3. ASSUME NEW i \in DOMAIN v
        PROVE  v[i] = Len(s) + n + i
    <3>1. i \in 1 .. Len(t) - n
      BY <1>0, <1>2
    <3>2. n + i \in DOMAIN t
      BY <1>0, <3>1
    <3>3. v[i] = t[n + i]
      BY <1>2, <3>1, Zenon
    <3>. QED
      BY <1>0, <3>1, <3>2, <3>3, <1>4 DEF Y!Numbered
  <2>. QED
    BY <2>2, <2>3 DEF Y!Numbered
<1>5. u = SubSeq(t, 1, n) /\ v = SubSeq(t, n + 1, Len(t))
  BY DEF u, v
<1>. QED
  BY <1>2, <1>3, <1>4, <1>5

\* Bytes are numbered from where they begin.
LEMMA NumberedBytes ==
    ASSUME NEW i \in Nat, NEW j \in Nat, i <= j
    PROVE  Y!Bytes(i, j) \in Seq(Nat) /\ Len(Y!Bytes(i, j)) = j - i /\ Y!Numbered(Y!Bytes(i, j), i)
<1>. DEFINE m == j - i
<1>1. m \in Nat
  OBVIOUS
<1>2. Y!Bytes(i, j) = [k \in 1 .. m |-> i + k]
  BY DEF Y!Bytes
<1>. HIDE DEF m
<1>3. [k \in 1 .. m |-> i + k] \in Seq(Nat) /\ Len([k \in 1 .. m |-> i + k]) = m
  BY <1>1
<1>. QED
  BY <1>2, <1>3 DEF Y!Numbered, m

\* No bytes are numbered from anywhere.
LEMMA NumberedEmpty ==
    ASSUME NEW k
    PROVE  Y!Numbered(<<>>, k) /\ <<>> \in Seq(Nat) /\ Len(<<>>) = 0
BY DEF Y!Numbered

\* The invariant holds at first.
LEMMA RelaysInitIInv ==
    ASSUME Y!RelayAssumption, Y!Init
    PROVE  Y!IInv
<1>1. Y!TypeOK
  BY NumberedEmpty DEF Y!Init, Y!TypeOK
<1>2. ASSUME NEW w \in Y!Ways PROVE Y!InOrder(w)
  <2>1. taken[w] = 0 /\ hand[w] = <<>> /\ written[w] = <<>> /\ at[w] = "idle" /\ Size[w] \in Nat
    BY DEF Y!Init, Y!RelayAssumption
  <2>. QED
    BY <2>1, NumberedEmpty DEF Y!InOrder
<1>3. Y!CountsSettled
  BY DEF Y!Init, Y!CountsSettled
<1>4. Y!CountsReported
  <2>1. \A w \in Y!Ways : counted[Y!Counter(w)] = 0 /\ Len(written[w]) = 0
    BY NumberedEmpty DEF Y!Init, Y!Counter
  <2>2. relaying = "dial"
    BY DEF Y!Init
  <2>. QED
    BY <2>1, <2>2 DEF Y!CountsReported
<1>. QED
  BY <1>1, <1>2, <1>3, <1>4 DEF Y!IInv

\* The order's part of the invariant.
Ordered == Y!TypeOK /\ \A w \in Y!Ways : Y!InOrder(w)

\* A direction whose bytes stay where they are keeps its order when it does not end.
LEMMA OrderKept ==
    ASSUME NEW w \in Y!Ways, Y!InOrder(w), Y!TypeOK, Y!RelayAssumption,
           taken'[w] = taken[w], written'[w] = written[w], hand'[w] = hand[w],
           UNCHANGED carrier, zero => zero',
           \/ at'[w] = at[w]
           \/ at'[w] = "failed" /\ hand[w] = <<>>
           \/ at[w] = "idle" /\ at'[w] = "read"
           \/ at[w] = "read" /\ at'[w] = "eof" /\ taken[w] = Size[w]
    PROVE  Y!InOrder(w)'
BY DEF Y!InOrder

\* One that gives up what it had in hand keeps the beginning.
LEMMA OrderOfFailed ==
    ASSUME NEW w \in Y!Ways, Y!InOrder(w), Y!TypeOK, Y!RelayAssumption,
           taken'[w] = taken[w], written'[w] = written[w], hand'[w] = <<>>,
           UNCHANGED <<carrier, zero>>, at'[w] = "failed"
    PROVE  Y!InOrder(w)'
<1>1. Len(written[w]) \in Nat /\ Len(hand[w]) \in Nat /\ taken[w] \in Nat /\ Size[w] \in Nat
  BY DEF Y!TypeOK, Y!RelayAssumption
<1>2. Len(written'[w]) + Len(hand'[w]) <= taken'[w] /\ taken'[w] <= Size[w]
  <2>1. Len(hand'[w]) = 0
    BY NumberedEmpty
  <2>2. Len(written[w]) + Len(hand[w]) <= taken[w] /\ taken[w] <= Size[w]
    BY DEF Y!InOrder
  <2>3. Len(written'[w]) = Len(written[w]) /\ taken'[w] = taken[w]
    OBVIOUS
  <2>4. Len(written[w]) + 0 <= taken[w]
    <3>1. \A x, y, r \in Nat : x + y <= r => x + 0 <= r
      OBVIOUS
    <3>. QED
      BY <1>1, <2>2, <3>1, Zenon
  <2>. QED
    BY <2>1, <2>2, <2>3, <2>4
<1>3. Y!Numbered(hand'[w], Len(written'[w]))
  BY NumberedEmpty
<1>. QED
  BY <1>2, <1>3, Zenon DEF Y!InOrder

\* A read keeps the bytes in order,
LEMMA ReadOrdered ==
    ASSUME Y!RelayAssumption, Ordered, NEW w \in Y!Ways, Y!Read(w)
    PROVE  Ordered'
<1>1. PICK n \in 1 .. Y!Min2(BufSize, Size[w] - taken[w]) :
          /\ hand' = [hand EXCEPT ![w] = Y!Bytes(taken[w], taken[w] + n)]
          /\ taken' = [taken EXCEPT ![w] = @ + n]
  BY DEF Y!Read
<1>2. taken[w] \in Nat /\ Size[w] \in Nat /\ n \in Nat /\ taken[w] + n <= Size[w] /\ Len(written[w]) \in Nat
  <2>1. taken[w] \in Nat /\ Size[w] \in Nat /\ taken[w] < Size[w] /\ Len(written[w]) \in Nat
    BY DEF Ordered, Y!TypeOK, Y!RelayAssumption, Y!Read
  <2>2. Y!Min2(BufSize, Size[w] - taken[w]) <= Size[w] - taken[w] /\ Y!Min2(BufSize, Size[w] - taken[w]) \in Int
    BY <2>1 DEF Y!Min2, Y!RelayAssumption
  <2>. QED
    BY <2>1, <2>2
<1>. DEFINE b == Y!Bytes(taken[w], taken[w] + n)
<1>3. b \in Seq(Nat) /\ Len(b) = n /\ Y!Numbered(b, taken[w])
  <2>1. taken[w] + n \in Nat /\ taken[w] <= taken[w] + n /\ (taken[w] + n) - taken[w] = n
    BY <1>2
  <2>. QED
    BY <1>2, <2>1, NumberedBytes
<1>. HIDE DEF b
<1>4. hand' = [hand EXCEPT ![w] = b]
  BY <1>1 DEF b
<1>5. Y!TypeOK'
  <2>1. hand' \in [Y!Ways -> Seq(Nat)]
    BY <1>3, <1>4 DEF Ordered, Y!TypeOK
  <2>2. taken' \in [Y!Ways -> Nat]
    BY <1>1, <1>2 DEF Ordered, Y!TypeOK
  <2>3. at' \in [Y!Ways -> {"idle", "read", "write", "fragment", "eof", "failed"}]
    BY DEF Y!Read, Ordered, Y!TypeOK
  <2>4. UNCHANGED <<carrier, relaying, written, counted>>
    BY DEF Y!Read
  <2>. QED
    BY <2>1, <2>2, <2>3, <2>4 DEF Ordered, Y!TypeOK
<1>6. ASSUME NEW x \in Y!Ways
      PROVE  Y!InOrder(x)'
  <2>1. CASE x # w
    <3>1. taken'[x] = taken[x] /\ hand'[x] = hand[x] /\ at'[x] = at[x] /\ written'[x] = written[x]
      BY <1>1, <2>1 DEF Y!Read, Ordered, Y!TypeOK
    <3>. QED
      BY <3>1, OrderKept DEF Y!Read, Ordered
  <2>2. CASE x = w
    <3>1. taken'[x] = taken[x] + n /\ hand'[x] = b /\ written'[x] = written[x]
      BY <1>1, <1>4, <2>2 DEF Y!Read, Ordered, Y!TypeOK
    <3>2. at[x] = "read" /\ at'[x] = IF Y!Fragmented(x) THEN "fragment" ELSE "write"
      BY <2>2 DEF Y!Read, Ordered, Y!TypeOK
    <3>0. Y!InOrder(x)
      BY DEF Ordered
    <3>a. hand[x] = <<>>
      BY <3>0, <3>2 DEF Y!InOrder
    <3>b. Len(hand[x]) = 0
      BY <3>a, NumberedEmpty
    <3>3. Len(written[x]) <= taken[x]
      BY <1>2, <2>2, <3>0, <3>b DEF Y!InOrder
    <3>4. ~(zero /\ x = "up") => Y!Numbered(written[x], 0) /\ Len(written[x]) = taken[x]
      <4>1. ~(zero /\ x = "up") => Y!Numbered(written[x], 0) /\ Len(written[x]) + Len(hand[x]) = taken[x]
        BY <3>0, <3>2 DEF Y!InOrder
      <4>. QED
        BY <1>2, <2>2, <3>b, <4>1
    <3>5. UNCHANGED <<carrier, zero>> /\ (Y!Fragmented(x) => carrier = "fragment" /\ x = "up")
      BY DEF Y!Read, Y!Fragmented
    <3>6. ~(zero' /\ x = "up") =>
             /\ Y!Numbered(written'[x], 0) /\ Y!Numbered(hand'[x], Len(written'[x]))
             /\ Len(written'[x]) + Len(hand'[x]) = taken'[x]
      BY <1>2, <1>3, <2>2, <3>1, <3>4, <3>5
    <3>7. Len(written'[x]) + Len(hand'[x]) <= taken'[x] /\ taken'[x] <= Size[x]
      BY <1>2, <1>3, <2>2, <3>1, <3>3
    <3>8. at'[x] \in {"write", "fragment"} /\ (at'[x] = "fragment" => carrier' = "fragment" /\ x = "up")
      BY <3>2, <3>5
    <3>. QED
      BY <3>6, <3>7, <3>8 DEF Y!InOrder
  <2>. QED
    BY <2>1, <2>2
<1>. QED
  BY <1>5, <1>6 DEF Ordered

\* The first n bytes in hand are written, of the rest what is said of it is kept.
LEMMA PutOrdered ==
    ASSUME Y!RelayAssumption, Y!TypeOK, NEW w \in Y!Ways, Y!InOrder(w), NEW n \in 0 .. Len(hand[w]),
           at[w] \in {"write", "fragment"},
           written' = [written EXCEPT ![w] = @ \o SubSeq(hand[w], 1, n)],
           \/ hand'[w] = SubSeq(hand[w], n + 1, Len(hand[w]))
           \/ hand'[w] = <<>> /\ ((zero' /\ w = "up") \/ at'[w] = "failed"),
           UNCHANGED <<carrier, taken>>, zero => zero',
           at'[w] \in {"write", "fragment"} => at'[w] = at[w],
           at'[w] \notin {"write", "fragment"} => hand'[w] = <<>> /\ at'[w] # "eof"
    PROVE  Y!InOrder(w)' /\ written' \in [Y!Ways -> Seq(Nat)]
<1>. DEFINE s == written[w]
            t == hand[w]
            u == s \o SubSeq(t, 1, n)
            v == SubSeq(t, n + 1, Len(t))
<1>1. s \in Seq(Nat) /\ t \in Seq(Nat) /\ n \in 0 .. Len(t)
  BY DEF Y!TypeOK
<1>2. /\ u \in Seq(Nat) /\ Len(u) = Len(s) + n
      /\ v \in Seq(Nat) /\ Len(v) = Len(t) - n
      /\ Y!Numbered(s, 0) /\ Y!Numbered(t, Len(s)) => Y!Numbered(u, 0) /\ Y!Numbered(v, Len(s) + n)
  BY <1>1, NumberedParts
<1>3. Len(s) \in Nat /\ Len(t) \in Nat /\ n \in Nat /\ n <= Len(t) /\ taken[w] \in Nat /\ Size[w] \in Nat
  BY <1>1 DEF Y!TypeOK, Y!RelayAssumption
<1>4. /\ Len(s) + Len(t) <= taken[w] /\ taken[w] <= Size[w]
      /\ at[w] = "fragment" => carrier = "fragment" /\ w = "up"
      /\ at[w] \notin {"write", "fragment"} => t = <<>>
      /\ ~(zero /\ w = "up") => /\ Y!Numbered(s, 0) /\ Y!Numbered(t, Len(s))
                                /\ at[w] # "failed" => Len(s) + Len(t) = taken[w]
  BY DEF Y!InOrder
<1>5. \/ hand'[w] = v
      \/ hand'[w] = <<>> /\ ((zero' /\ w = "up") \/ at'[w] = "failed")
  OBVIOUS
<1>. HIDE DEF v
<1>6. written' = [written EXCEPT ![w] = u]
  OBVIOUS
<1>. HIDE DEF u
<1>7. written'[w] = u
  BY <1>6 DEF Y!TypeOK
<1>. HIDE DEF s, t
<1>8. Len(written'[w]) + Len(hand'[w]) <= taken'[w] /\ taken'[w] <= Size[w]
  <2>1. Len(hand'[w]) = Len(v) \/ Len(hand'[w]) = 0
    BY <1>5, NumberedEmpty
  <2>2. Len(u) + Len(v) <= taken[w] /\ Len(u) + 0 <= taken[w]
    BY <1>2, <1>3, <1>4
  <2>3. taken'[w] = taken[w] /\ Len(written'[w]) = Len(u)
    BY <1>7
  <2>. QED
    BY <1>4, <2>1, <2>2, <2>3
<1>9. ASSUME ~(zero' /\ w = "up")
      PROVE  /\ Y!Numbered(written'[w], 0) /\ Y!Numbered(hand'[w], Len(written'[w]))
             /\ at'[w] # "failed" => Len(written'[w]) + Len(hand'[w]) = taken'[w]
  <2>0. ~(zero /\ w = "up")
    BY <1>9
  <2>1. Y!Numbered(s, 0) /\ Y!Numbered(t, Len(s)) /\ (at[w] # "failed" => Len(s) + Len(t) = taken[w])
    BY <2>0, <1>4
  <2>2. Y!Numbered(u, 0) /\ Y!Numbered(v, Len(u))
    BY <2>1, <1>2
  <2>3. Y!Numbered(hand'[w], Len(written'[w]))
    BY <2>2, <1>5, <1>7, NumberedEmpty
  <2>4. ASSUME at'[w] # "failed"
        PROVE  Len(written'[w]) + Len(hand'[w]) = taken'[w]
    <3>1. hand'[w] = v
      BY <1>5, <1>9, <2>4
    <3>2. Len(u) + Len(v) = Len(s) + Len(t)
      BY <1>2, <1>3
    <3>3. at[w] # "failed"
      OBVIOUS
    <3>. QED
      BY <3>1, <3>2, <3>3, <2>1, <1>7
  <2>. QED
    BY <2>2, <2>3, <2>4, <1>7
<1>10. /\ at'[w] \notin {"write", "fragment"} => hand'[w] = <<>>
       /\ at'[w] = "eof" => taken'[w] = Size[w]
       /\ at'[w] = "fragment" => carrier' = "fragment" /\ w = "up"
  BY <1>4
<1>11. written' \in [Y!Ways -> Seq(Nat)]
  BY <1>2, <1>6 DEF Y!TypeOK
<1>. QED
  BY <1>8, <1>9, <1>10, <1>11 DEF Y!InOrder

\* so does a write,
LEMMA WriteOrdered ==
    ASSUME Y!RelayAssumption, Ordered, NEW w \in Y!Ways, Y!Write(w)
    PROVE  Ordered'
<1>1. Y!TypeOK /\ Y!InOrder(w) /\ at[w] = "write"
  BY DEF Ordered, Y!Write
<1>2. hand[w] \in Seq(Nat) /\ Len(hand[w]) \in Nat /\ written[w] \in Seq(Nat)
  BY <1>1 DEF Y!TypeOK
<1>. DEFINE n == Len(hand[w])
<1>3. n \in 0 .. Len(hand[w])
  BY <1>2
<1>4. written' = [written EXCEPT ![w] = @ \o SubSeq(hand[w], 1, n)]
  BY DEF Y!Write, Y!Put
<1>5. hand'[w] = <<>> /\ at'[w] = "read"
  BY <1>1 DEF Y!Write, Y!TypeOK
<1>6. SubSeq(hand[w], n + 1, Len(hand[w])) = <<>>
  BY <1>2, SubSeqEmpty
<1>7. UNCHANGED <<carrier, taken, zero>>
  BY DEF Y!Write
<1>8. Y!InOrder(w)' /\ written' \in [Y!Ways -> Seq(Nat)]
  <2>. HIDE DEF n
  <2>. QED
    BY <1>1, <1>3, <1>4, <1>5, <1>6, <1>7, PutOrdered
<1>9. Y!TypeOK'
  <2>1. hand' \in [Y!Ways -> Seq(Nat)]
    BY <1>1, NumberedEmpty DEF Y!Write, Y!TypeOK
  <2>2. at' \in [Y!Ways -> {"idle", "read", "write", "fragment", "eof", "failed"}]
    BY <1>1 DEF Y!Write, Y!TypeOK
  <2>3. counted' \in [rx : Nat, tx : Nat]
    <3>1. counted' = counted \/ counted' = [counted EXCEPT ![Y!Counter(w)] = @ + n]
      BY DEF Y!Write, Y!Put
    <3>2. Y!Counter(w) \in {"rx", "tx"}
      BY DEF Y!Counter
    <3>3. n \in Nat
      BY <1>2
    <3>. HIDE DEF n
    <3>4. counted \in [rx : Nat, tx : Nat]
      BY <1>1 DEF Y!TypeOK
    <3>5. [counted EXCEPT !["rx"] = @ + n] \in [rx : Nat, tx : Nat]
      BY <3>3, <3>4
    <3>6. [counted EXCEPT !["tx"] = @ + n] \in [rx : Nat, tx : Nat]
      BY <3>3, <3>4
    <3>. QED
      BY <3>1, <3>2, <3>4, <3>5, <3>6
  <2>4. UNCHANGED <<carrier, relaying, taken>>
    BY DEF Y!Write
  <2>. QED
    BY <1>1, <1>8, <2>1, <2>2, <2>3, <2>4 DEF Y!TypeOK
<1>10. ASSUME NEW x \in Y!Ways, x # w PROVE Y!InOrder(x)'
  <2>1. taken'[x] = taken[x] /\ hand'[x] = hand[x] /\ at'[x] = at[x] /\ written'[x] = written[x]
    BY <1>1, <1>4, <1>10 DEF Y!Write, Y!TypeOK
  <2>. QED
    BY <2>1, OrderKept DEF Y!Write, Ordered
<1>. QED
  BY <1>8, <1>9, <1>10 DEF Ordered

\* a fragment of the ClientHello,
LEMMA WriteFragmentOrdered ==
    ASSUME Y!RelayAssumption, Ordered, Y!WriteFragment
    PROVE  Ordered'
<1>1. PICK len \in MinLen .. MaxLen :
          LET n == Y!Min2(len, Len(hand["up"]))
              rest == IF n = 0 THEN <<>> ELSE Y!Rest(hand["up"], n)
          IN /\ Y!Put("up", n)
             /\ hand' = [hand EXCEPT !["up"] = rest]
             /\ at' = [at EXCEPT !["up"] = IF rest = <<>> THEN "read" ELSE "fragment"]
             /\ zero' = (zero \/ n = 0)
  BY DEF Y!WriteFragment
<1>. DEFINE t == hand["up"]
            n == Y!Min2(len, Len(t))
            rest == IF n = 0 THEN <<>> ELSE Y!Rest(t, n)
<1>2. Y!TypeOK /\ Y!InOrder("up") /\ "up" \in Y!Ways /\ at["up"] = "fragment"
  BY DEF Ordered, Y!WriteFragment, Y!Ways
<1>3. t \in Seq(Nat) /\ Len(t) \in Nat /\ len \in Nat
  BY <1>2 DEF Y!TypeOK, Y!RelayAssumption
<1>4. n \in 0 .. Len(t)
  BY <1>3 DEF Y!Min2
<1>5. Y!Put("up", n) /\ hand' = [hand EXCEPT !["up"] = rest] /\ (n = 0 => zero') /\ (zero => zero')
  BY <1>1
<1>6. at' = [at EXCEPT !["up"] = IF rest = <<>> THEN "read" ELSE "fragment"]
  BY <1>1
<1>7. rest \in Seq(Nat)
  BY <1>3, <1>4, NumberedParts, NumberedEmpty DEF Y!Rest
<1>8. rest = SubSeq(t, n + 1, Len(t)) \/ (rest = <<>> /\ zero')
  BY <1>5 DEF Y!Rest
<1>9. UNCHANGED <<carrier, relaying, taken>>
  BY DEF Y!WriteFragment
<1>. HIDE DEF rest, n
<1>10. hand'["up"] = rest /\ at'["up"] = IF rest = <<>> THEN "read" ELSE "fragment"
  BY <1>2, <1>5, <1>6 DEF Y!TypeOK
<1>11. written' = [written EXCEPT !["up"] = @ \o SubSeq(hand["up"], 1, n)]
  BY <1>5 DEF Y!Put
<1>12. Y!InOrder("up")' /\ written' \in [Y!Ways -> Seq(Nat)]
  <2>1. \/ hand'["up"] = SubSeq(hand["up"], n + 1, Len(hand["up"]))
        \/ hand'["up"] = <<>> /\ ((zero' /\ "up" = "up") \/ at'["up"] = "failed")
    BY <1>8, <1>10
  <2>2. at["up"] \in {"write", "fragment"}
    BY <1>2
  <2>3. at'["up"] \in {"write", "fragment"} => at'["up"] = at["up"]
    BY <1>2, <1>10
  <2>4. at'["up"] \notin {"write", "fragment"} => hand'["up"] = <<>> /\ at'["up"] # "eof"
    BY <1>10
  <2>. QED
    BY <1>2, <1>4, <1>5, <1>9, <1>11, <2>1, <2>2, <2>3, <2>4, PutOrdered
<1>13. Y!TypeOK'
  <2>1. hand' \in [Y!Ways -> Seq(Nat)]
    BY <1>2, <1>5, <1>7 DEF Y!TypeOK
  <2>2. at' \in [Y!Ways -> {"idle", "read", "write", "fragment", "eof", "failed"}]
    BY <1>2, <1>6 DEF Y!TypeOK
  <2>3. counted' \in [rx : Nat, tx : Nat]
    <3>1. counted' = counted \/ counted' = [counted EXCEPT ![Y!Counter("up")] = @ + n]
      BY <1>5 DEF Y!Put
    <3>2. Y!Counter("up") \in {"rx", "tx"}
      BY DEF Y!Counter
    <3>3. n \in Nat
      BY <1>4
    <3>. QED
      BY <1>2, <3>1, <3>2, <3>3 DEF Y!TypeOK
  <2>. QED
    BY <1>2, <1>9, <1>12, <2>1, <2>2, <2>3 DEF Y!TypeOK
<1>14. ASSUME NEW x \in Y!Ways, x # "up" PROVE Y!InOrder(x)'
  <2>1. taken'[x] = taken[x] /\ hand'[x] = hand[x] /\ at'[x] = at[x] /\ written'[x] = written[x]
    BY <1>2, <1>5, <1>6, <1>9, <1>11, <1>14 DEF Y!TypeOK
  <2>. QED
    BY <1>2, <1>5, <1>9, <2>1, OrderKept DEF Ordered
<1>. QED
  BY <1>12, <1>13, <1>14 DEF Ordered

\* and a write that fails.
LEMMA WriteFailsOrdered ==
    ASSUME Y!RelayAssumption, Ordered, NEW w \in Y!Ways, Y!WriteFails(w)
    PROVE  Ordered'
<1>1. Y!TypeOK /\ Y!InOrder(w) /\ at[w] \in {"write", "fragment"}
  BY DEF Ordered, Y!WriteFails
<1>2. PICK n \in 0 .. Len(hand[w]) - 1 : written' = [written EXCEPT ![w] = @ \o SubSeq(hand[w], 1, n)]
  BY DEF Y!WriteFails
<1>3. n \in 0 .. Len(hand[w])
  <2>1. Len(hand[w]) \in Nat
    BY <1>1 DEF Y!TypeOK
  <2>. QED
    BY <2>1
<1>4. hand'[w] = <<>> /\ at'[w] = "failed" /\ UNCHANGED <<carrier, relaying, taken, counted, zero>>
  BY <1>1 DEF Y!WriteFails, Y!TypeOK
<1>5. Y!InOrder(w)' /\ written' \in [Y!Ways -> Seq(Nat)]
  BY <1>1, <1>2, <1>3, <1>4, PutOrdered
<1>6. Y!TypeOK'
  <2>1. hand' \in [Y!Ways -> Seq(Nat)]
    BY <1>1, NumberedEmpty DEF Y!WriteFails, Y!TypeOK
  <2>2. at' \in [Y!Ways -> {"idle", "read", "write", "fragment", "eof", "failed"}]
    BY <1>1 DEF Y!WriteFails, Y!TypeOK
  <2>. QED
    BY <1>1, <1>4, <1>5, <2>1, <2>2 DEF Y!TypeOK
<1>7. ASSUME NEW x \in Y!Ways, x # w PROVE Y!InOrder(x)'
  <2>1. taken'[x] = taken[x] /\ hand'[x] = hand[x] /\ at'[x] = at[x] /\ written'[x] = written[x]
    BY <1>1, <1>2, <1>7 DEF Y!WriteFails, Y!TypeOK
  <2>. QED
    BY <1>1, <1>4, <2>1, OrderKept DEF Ordered
<1>. QED
  BY <1>5, <1>6, <1>7 DEF Ordered

\* The steps that move no bytes.
LEMMA OtherOrdered ==
    ASSUME Y!RelayAssumption, Ordered, Y!CountsSettled,
           \/ Y!Proceed \/ Y!Refused \/ Y!Finish \/ Y!Kick
           \/ \E w \in Y!Ways : Y!ReadEof(w) \/ Y!ReadFails(w)
    PROVE  Ordered'
<1>1. Y!TypeOK
  BY DEF Ordered
<1>2. CASE Y!Proceed
  <2>1. \A w \in Y!Ways : at[w] = "idle"
    BY <1>2 DEF Y!Proceed, Y!CountsSettled
  <2>2. UNCHANGED <<carrier, taken, hand, written, counted, zero>>
    BY <1>2 DEF Y!Proceed
  <2>3. Y!TypeOK'
    <3>1. relaying' \in {"tls", "header", "response", "relay"}
      BY <1>2 DEF Y!Proceed, Y!After
    <3>2. at' \in [Y!Ways -> {"idle", "read", "write", "fragment", "eof", "failed"}]
      BY <1>1, <1>2 DEF Y!Proceed, Y!TypeOK
    <3>. QED
      BY <1>1, <2>2, <3>1, <3>2 DEF Y!TypeOK
  <2>4. ASSUME NEW w \in Y!Ways PROVE Y!InOrder(w)'
    <3>1. at'[w] = at[w] \/ (at[w] = "idle" /\ at'[w] = "read")
      BY <1>2, <2>1 DEF Y!Proceed
    <3>. QED
      BY <1>1, <2>2, <3>1, OrderKept DEF Ordered
  <2>. QED
    BY <2>3, <2>4 DEF Ordered
<1>3. CASE Y!Refused
  <2>1. UNCHANGED <<carrier, taken, hand, written, counted, zero, at>> /\ relaying' = "ended"
    BY <1>3 DEF Y!Refused
  <2>2. Y!TypeOK'
    BY <1>1, <2>1 DEF Y!TypeOK
  <2>. QED
    BY <2>1, <2>2, OrderKept DEF Ordered
<1>4. CASE Y!Finish \/ Y!Kick
  <2>1. UNCHANGED <<carrier, taken, written, zero>> /\ relaying' \in {"ended", "dropped"}
    BY <1>4 DEF Y!Finish, Y!Kick
  <2>2. \/ UNCHANGED <<at, hand>>
        \/ /\ hand' = [w \in Y!Ways |-> <<>>]
           /\ at' = [w \in Y!Ways |-> "failed"] \/ at' = [w \in Y!Ways |-> IF at[w] = "eof" THEN "eof" ELSE "failed"]
    BY <1>4 DEF Y!Finish, Y!Kick
  <2>3. counted' \in [rx : Nat, tx : Nat]
    <3>1. counted' = counted \/ counted' = Y!Reported
      BY <1>4 DEF Y!Finish, Y!Kick
    <3>2. Len(written["up"]) \in Nat /\ Len(written["down"]) \in Nat
      BY <1>1 DEF Y!TypeOK, Y!Ways
    <3>3. Y!Reported \in [rx : Nat, tx : Nat]
      BY <3>2 DEF Y!Reported
    <3>. QED
      BY <1>1, <3>1, <3>3 DEF Y!TypeOK
  <2>4. Y!TypeOK'
    <3>1. hand' \in [Y!Ways -> Seq(Nat)]
      BY <1>1, <2>2, NumberedEmpty DEF Y!TypeOK
    <3>2. at' \in [Y!Ways -> {"idle", "read", "write", "fragment", "eof", "failed"}]
      BY <1>1, <2>2 DEF Y!TypeOK
    <3>. QED
      BY <1>1, <2>1, <2>3, <3>1, <3>2 DEF Y!TypeOK
  <2>5. ASSUME NEW w \in Y!Ways PROVE Y!InOrder(w)'
    <3>1. \/ at'[w] = at[w] /\ hand'[w] = hand[w]
          \/ hand'[w] = <<>> /\ at'[w] = "failed"
          \/ hand'[w] = <<>> /\ at[w] = "eof" /\ at'[w] = at[w]
      BY <2>2
    <3>2. at[w] = "eof" => hand[w] = <<>>
      BY DEF Ordered, Y!InOrder
    <3>3. CASE at'[w] = at[w] /\ hand'[w] = hand[w]
      BY <1>1, <2>1, <3>3, OrderKept DEF Ordered
    <3>4. CASE hand'[w] = <<>> /\ at'[w] = "failed"
      BY <1>1, <2>1, <3>4, OrderOfFailed DEF Ordered
    <3>. QED
      BY <3>1, <3>2, <3>3, <3>4
  <2>. QED
    BY <2>4, <2>5 DEF Ordered
<1>5. ASSUME NEW w \in Y!Ways, Y!ReadEof(w) \/ Y!ReadFails(w)
      PROVE  Ordered'
  <2>1. UNCHANGED <<carrier, relaying, taken, hand, written, counted, zero>> /\ at[w] = "read"
    BY <1>5 DEF Y!ReadEof, Y!ReadFails
  <2>2. \/ at' = [at EXCEPT ![w] = "eof"] /\ taken[w] = Size[w]
        \/ at' = [at EXCEPT ![w] = "failed"]
    BY <1>5 DEF Y!ReadEof, Y!ReadFails
  <2>3. Y!TypeOK'
    BY <1>1, <2>1, <2>2 DEF Y!TypeOK
  <2>4. ASSUME NEW x \in Y!Ways PROVE Y!InOrder(x)'
    <3>1. at[w] = "read" => hand[w] = <<>>
      BY DEF Ordered, Y!InOrder
    <3>2. \/ at'[x] = at[x]
          \/ at'[x] = "failed" /\ hand[x] = <<>>
          \/ at[x] = "read" /\ at'[x] = "eof" /\ taken[x] = Size[x]
      BY <1>1, <2>1, <2>2, <3>1 DEF Y!TypeOK
    <3>. QED
      BY <1>1, <2>1, <3>2, OrderKept DEF Ordered
  <2>. QED
    BY <2>3, <2>4 DEF Ordered
<1>. QED
  BY <1>2, <1>3, <1>4, <1>5

\* Each step has its lemma.
LEMMA NextOrdered ==
    ASSUME Y!RelayAssumption, Ordered, Y!CountsSettled, [Y!Next]_(Y!vars)
    PROVE  Ordered'
<1>1. CASE UNCHANGED Y!vars
  <2>1. UNCHANGED <<carrier, taken, hand, written, counted, zero, at, relaying>>
    BY <1>1 DEF Y!vars
  <2>2. Y!TypeOK'
    BY <2>1 DEF Ordered, Y!TypeOK
  <2>. QED
    BY <2>1, <2>2, OrderKept DEF Ordered
<1>2. CASE Y!Next
  BY <1>2, OtherOrdered, WriteFragmentOrdered, ReadOrdered, WriteOrdered, WriteFailsOrdered DEF Y!Next
<1>. QED
  BY <1>1, <1>2

\* What the counter of a direction says in the tasks of the fragment outbound.
CountOf(w) ==
    /\ counted[Y!Counter(w)] <= Len(written[w])
    /\ at[w] # "failed" => counted[Y!Counter(w)] = Len(written[w])

\* The two tasks count what they wrote.
LEMMA TasksCount ==
    ASSUME Y!RelayAssumption, Ordered, Y!CountsSettled, Y!CountsReported, carrier # "vless", [Y!Next]_(Y!vars)
    PROVE  Y!CountsReported'
<1>1. Y!TypeOK /\ \A w \in Y!Ways : CountOf(w)
  BY DEF Ordered, Y!CountsReported, CountOf
<1>2. carrier' = carrier
  BY DEF Y!Next, Y!Proceed, Y!Refused, Y!WriteFragment, Y!Finish, Y!Kick, Y!Read, Y!ReadEof, Y!ReadFails, Y!Write, Y!WriteFails, Y!vars
<1>3. \A w \in Y!Ways : Y!Counter(w)' = Y!Counter(w) /\ Y!Counter(w) \in {"rx", "tx"}
  BY <1>2 DEF Y!Counter
<1>4. \A w, x \in Y!Ways : w # x => Y!Counter(w) # Y!Counter(x)
  BY DEF Y!Ways, Y!Counter
<1>. SUFFICES ASSUME NEW w \in Y!Ways
              PROVE  CountOf(w)'
  BY <1>2 DEF Y!CountsReported, CountOf
<1>5. Len(written[w]) \in Nat /\ counted[Y!Counter(w)] \in Nat
  BY <1>1, <1>3 DEF Y!TypeOK
<1>6. ASSUME counted'[Y!Counter(w)] = counted[Y!Counter(w)], written'[w] = written[w],
             at'[w] # "failed" => at[w] # "failed"
      PROVE  CountOf(w)'
  BY <1>1, <1>3, <1>6 DEF CountOf
<1>7. CASE UNCHANGED Y!vars
  BY <1>6, <1>7 DEF Y!vars
<1>8. CASE Y!Proceed \/ Y!Refused \/ Y!Finish \/ Y!Kick
  <2>1. UNCHANGED <<counted, written>>
    BY <1>8 DEF Y!Proceed, Y!Refused, Y!Finish, Y!Kick, Y!Detached
  <2>2. at'[w] # "failed" => at[w] # "failed"
    BY <1>8 DEF Y!Proceed, Y!Refused, Y!Finish, Y!Kick, Y!Detached, Y!CountsSettled
  <2>. QED
    BY <1>6, <2>1, <2>2
<1>9. ASSUME NEW x \in Y!Ways, Y!Read(x) \/ Y!ReadEof(x) \/ Y!ReadFails(x)
      PROVE  CountOf(w)'
  <2>1. UNCHANGED <<counted, written>> /\ at[x] = "read"
    BY <1>9 DEF Y!Read, Y!ReadEof, Y!ReadFails
  <2>2. at'[w] # "failed" => at[w] # "failed"
    BY <1>1, <1>9, <2>1 DEF Y!Read, Y!ReadEof, Y!ReadFails, Y!TypeOK
  <2>. QED
    BY <1>6, <2>1, <2>2
\* What goes out is counted.
<1>10. ASSUME NEW x \in Y!Ways, NEW n \in 0 .. Len(hand[x]), Y!Put(x, n), at[x] \in {"write", "fragment"},
              \A v \in Y!Ways : v # x => at'[v] = at[v]
       PROVE  CountOf(w)'
  <2>1. /\ written' = [written EXCEPT ![x] = @ \o SubSeq(hand[x], 1, n)]
        /\ counted' = [counted EXCEPT ![Y!Counter(x)] = @ + n]
    BY <1>10 DEF Y!Put
  <2>2. CASE w # x
    <3>1. written'[w] = written[w]
      BY <1>1, <2>1, <2>2 DEF Y!TypeOK
    <3>2. counted'[Y!Counter(w)] = counted[Y!Counter(w)]
      BY <1>1, <1>3, <1>4, <2>1, <2>2 DEF Y!TypeOK
    <3>. QED
      BY <1>6, <1>10, <2>2, <3>1, <3>2
  <2>3. CASE w = x
    <3>1. written'[w] = written[w] \o SubSeq(hand[w], 1, n)
      BY <1>1, <2>1, <2>3 DEF Y!TypeOK
    <3>2. Len(written'[w]) = Len(written[w]) + n
      <4>1. written[w] \in Seq(Nat) /\ hand[w] \in Seq(Nat) /\ n \in 0 .. Len(hand[w])
        BY <1>1, <2>3 DEF Y!TypeOK
      <4>2. Len(written[w] \o SubSeq(hand[w], 1, n)) = Len(written[w]) + n
        BY <4>1, NumberedParts
      <4>. QED
        BY <3>1, <4>2
    <3>3. counted'[Y!Counter(w)] = counted[Y!Counter(w)] + n
      BY <1>1, <1>3, <2>1, <2>3 DEF Y!TypeOK
    <3>4. counted[Y!Counter(w)] = Len(written[w])
      BY <1>1, <1>10, <2>3 DEF CountOf
    <3>5. n \in Nat
      <4>1. Len(hand[x]) \in Nat
        BY <1>1 DEF Y!TypeOK
      <4>. QED
        BY <4>1
    <3>. QED
      BY <1>3, <1>5, <3>2, <3>3, <3>4, <3>5 DEF CountOf
  <2>. QED
    BY <2>2, <2>3
<1>11. ASSUME NEW x \in Y!Ways, Y!Write(x)
       PROVE  CountOf(w)'
  <2>1. Len(hand[x]) \in 0 .. Len(hand[x])
    BY <1>1 DEF Y!TypeOK
  <2>2. Y!Put(x, Len(hand[x])) /\ at[x] = "write" /\ \A v \in Y!Ways : v # x => at'[v] = at[v]
    BY <1>1, <1>11 DEF Y!Write, Y!TypeOK
  <2>. QED
    BY <1>10, <2>1, <2>2
<1>12. CASE Y!WriteFragment
  <2>1. PICK len \in MinLen .. MaxLen : Y!Put("up", Y!Min2(len, Len(hand["up"])))
    BY <1>12 DEF Y!WriteFragment
  <2>2. Len(hand["up"]) \in Nat /\ len \in Nat /\ "up" \in Y!Ways
    BY <1>1 DEF Y!TypeOK, Y!RelayAssumption, Y!Ways
  <2>3. Y!Min2(len, Len(hand["up"])) \in 0 .. Len(hand["up"])
    BY <2>2 DEF Y!Min2
  <2>4. at["up"] = "fragment" /\ \A v \in Y!Ways : v # "up" => at'[v] = at[v]
    BY <1>1, <1>12 DEF Y!WriteFragment, Y!TypeOK
  <2>. QED
    BY <1>10, <2>1, <2>2, <2>3, <2>4
<1>13. ASSUME NEW x \in Y!Ways, Y!WriteFails(x)
       PROVE  CountOf(w)'
  <2>1. PICK n \in 0 .. Len(hand[x]) - 1 : written' = [written EXCEPT ![x] = @ \o SubSeq(hand[x], 1, n)]
    BY <1>13 DEF Y!WriteFails
  <2>2. counted' = counted /\ at' = [at EXCEPT ![x] = "failed"]
    BY <1>13 DEF Y!WriteFails
  <2>3. CASE w # x
    BY <1>1, <1>6, <2>1, <2>2, <2>3 DEF Y!TypeOK
  <2>4. CASE w = x
    <3>1. hand[w] \in Seq(Nat) /\ written[w] \in Seq(Nat) /\ Len(hand[w]) \in Nat
      BY <1>1 DEF Y!TypeOK
    <3>2. n \in 0 .. Len(hand[w])
      BY <2>4, <3>1
    <3>3. written'[w] = written[w] \o SubSeq(hand[w], 1, n) /\ at'[w] = "failed"
      BY <1>1, <2>1, <2>2, <2>4 DEF Y!TypeOK
    <3>4. Len(written'[w]) = Len(written[w]) + n
      <4>1. Len(written[w] \o SubSeq(hand[w], 1, n)) = Len(written[w]) + n
        BY <3>1, <3>2, NumberedParts
      <4>. QED
        BY <3>3, <4>1
    <3>5. counted'[Y!Counter(w)] <= Len(written'[w])
      BY <1>1, <1>5, <2>2, <3>1, <3>2, <3>4 DEF CountOf
    <3>. QED
      BY <1>3, <3>3, <3>5 DEF CountOf
  <2>. QED
    BY <2>3, <2>4
<1>. QED
  BY <1>7, <1>8, <1>9, <1>11, <1>12, <1>13 DEF Y!Next

\* copy_bidirectional reports once, at the end, and nothing goes on after it.
LEMMA CopyCounts ==
    ASSUME Y!RelayAssumption, Ordered, Y!CountsSettled, Y!CountsReported, carrier = "vless", [Y!Next]_(Y!vars)
    PROVE  Y!CountsReported' /\ Y!CountsSettled'
<1>1. Y!TypeOK
  BY DEF Ordered
<1>2. carrier' = "vless" /\ carrier' = carrier
  BY DEF Y!Next, Y!Proceed, Y!Refused, Y!WriteFragment, Y!Finish, Y!Kick, Y!Read, Y!ReadEof, Y!ReadFails, Y!Write, Y!WriteFails, Y!vars
<1>3. \A w \in Y!Ways : Y!Counter(w)' = Y!Counter(w) /\ Y!Counter(w) \in {"rx", "tx"}
  BY <1>2 DEF Y!Counter
<1>4. \A w \in Y!Ways : relaying # "ended" => counted[Y!Counter(w)] = 0
  BY DEF Y!CountsReported
<1>5. CASE UNCHANGED Y!vars
  <2>1. UNCHANGED <<carrier, relaying, counted, written, at>>
    BY <1>5 DEF Y!vars
  <2>2. Y!CountsReported'
    BY <1>2, <1>3, <2>1 DEF Y!CountsReported
  <2>. QED
    BY <2>1, <2>2 DEF Y!CountsSettled, Y!Stopped
<1>6. CASE Y!Proceed
  <2>1. relaying # "ended" /\ relaying' \in {"tls", "header", "response", "relay"} /\ counted' = counted
    BY <1>6 DEF Y!Proceed, Y!After
  <2>2. Y!CountsReported'
    BY <1>2, <1>3, <1>4, <2>1 DEF Y!CountsReported
  <2>3. Y!CountsSettled'
    BY <1>6, <2>1 DEF Y!CountsSettled, Y!Proceed
  <2>. QED
    BY <2>2, <2>3
<1>7. CASE Y!Refused
  <2>1. /\ relaying # "ended" /\ relaying' = "ended" /\ UNCHANGED <<counted, at>>
        /\ \A w \in Y!Ways : at[w] = "idle"
    BY <1>7 DEF Y!Refused, Y!CountsSettled
  <2>2. Y!CountsReported'
    BY <1>2, <1>3, <1>4, <2>1 DEF Y!CountsReported, Y!Ways
  <2>3. Y!CountsSettled'
    BY <2>1 DEF Y!CountsSettled, Y!Stopped
  <2>. QED
    BY <2>2, <2>3
<1>8. CASE Y!Kick
  <2>1. relaying # "ended" /\ relaying' = "dropped" /\ counted' = counted /\ at' = [w \in Y!Ways |-> "failed"]
    BY <1>8 DEF Y!Kick, Y!Detached
  <2>2. Y!CountsReported'
    BY <1>2, <1>3, <1>4, <2>1 DEF Y!CountsReported
  <2>3. Y!CountsSettled'
    BY <2>1 DEF Y!CountsSettled, Y!Stopped, Y!Ways
  <2>. QED
    BY <2>2, <2>3
<1>9. CASE Y!Finish
  <2>1. /\ relaying' = "ended" /\ written' = written /\ counted' = Y!Reported
        /\ at' = [w \in Y!Ways |-> IF at[w] = "eof" THEN "eof" ELSE "failed"]
    BY <1>9 DEF Y!Finish
  <2>2. \/ \A w \in Y!Ways : at[w] \in {"eof", "failed"}
        \/ \E w \in Y!Ways : at[w] = "failed"
    BY <1>9 DEF Y!Finish
  <2>3. (\A w \in Y!Ways : at[w] = "eof") <=> ~ \E w \in Y!Ways : at[w] = "failed"
    BY <2>2 DEF Y!Ways
  <2>4. (\A w \in Y!Ways : at'[w] = "eof") <=> \A w \in Y!Ways : at[w] = "eof"
    BY <2>1
  <2>5. Y!Counter("up") = "rx" /\ Y!Counter("down") = "tx"
    BY DEF Y!Counter
  <2>6. CASE \A w \in Y!Ways : at[w] = "eof"
    <3>1. counted' = [rx |-> Len(written["up"]), tx |-> Len(written["down"])]
      BY <2>1, <2>3, <2>6 DEF Y!Reported
    <3>2. \A w \in Y!Ways : counted'[Y!Counter(w)] = Len(written'[w])
      BY <2>1, <2>5, <3>1 DEF Y!Ways
    <3>3. Y!CountsReported'
      BY <1>2, <1>3, <2>1, <2>4, <2>6, <3>2 DEF Y!CountsReported
    <3>. QED
      BY <2>1, <2>4, <2>6, <3>3 DEF Y!CountsSettled, Y!Stopped
  <2>7. CASE ~ \A w \in Y!Ways : at[w] = "eof"
    <3>1. counted' = [rx |-> 0, tx |-> 0]
      BY <2>1, <2>3, <2>7 DEF Y!Reported
    <3>2. \A w \in Y!Ways : counted'[Y!Counter(w)] = 0
      BY <2>5, <3>1 DEF Y!Ways
    <3>3. Y!CountsReported'
      BY <1>2, <1>3, <2>1, <2>4, <2>7, <3>2 DEF Y!CountsReported
    <3>4. \E w \in Y!Ways : at'[w] = "failed"
      BY <2>1, <2>7
    <3>. QED
      BY <2>1, <3>3, <3>4 DEF Y!CountsSettled, Y!Stopped
  <2>. QED
    BY <2>6, <2>7
<1>10. ASSUME NEW x \in Y!Ways, Y!Read(x) \/ Y!ReadEof(x) \/ Y!ReadFails(x) \/ Y!Write(x) \/ Y!WriteFails(x)
       PROVE  Y!CountsReported' /\ Y!CountsSettled'
  <2>1. relaying' = relaying /\ counted' = counted /\ at[x] \in {"read", "write", "fragment"} /\ Y!GoesOn
    BY <1>10 DEF Y!Read, Y!ReadEof, Y!ReadFails, Y!Write, Y!WriteFails, Y!Put
  <2>2. ~Y!Stopped
    BY <2>1 DEF Y!Stopped, Y!GoesOn
  <2>3. relaying \notin {"ended", "dropped", "dial", "tls", "header", "response"}
    BY <2>1, <2>2 DEF Y!CountsSettled
  <2>. QED
    BY <1>2, <1>3, <1>4, <2>1, <2>3 DEF Y!CountsReported, Y!CountsSettled
<1>11. CASE Y!WriteFragment
  BY <1>11 DEF Y!WriteFragment, Ordered, Y!InOrder, Y!Ways
<1>. QED
  BY <1>5, <1>6, <1>7, <1>8, <1>9, <1>10, <1>11 DEF Y!Next

\* Neither task runs before the relay does.
LEMMA TasksSettled ==
    ASSUME Y!RelayAssumption, Ordered, Y!CountsSettled, carrier # "vless", [Y!Next]_(Y!vars)
    PROVE  Y!CountsSettled'
<1>1. Y!TypeOK
  BY DEF Ordered
<1>2. carrier' # "vless"
  BY DEF Y!Next, Y!Proceed, Y!Refused, Y!WriteFragment, Y!Finish, Y!Kick, Y!Read, Y!ReadEof, Y!ReadFails, Y!Write, Y!WriteFails, Y!vars
<1>. SUFFICES ASSUME relaying' \in {"dial", "tls", "header", "response"}, NEW w \in Y!Ways
              PROVE  at'[w] = "idle"
  BY <1>2 DEF Y!CountsSettled
<1>3. CASE UNCHANGED Y!vars
  BY <1>3 DEF Y!vars, Y!CountsSettled
<1>4. CASE Y!Proceed
  BY <1>4 DEF Y!Proceed, Y!CountsSettled
<1>5. CASE Y!Refused \/ Y!Finish \/ Y!Kick
  BY <1>5 DEF Y!Refused, Y!Finish, Y!Kick
<1>6. ASSUME NEW x \in Y!Ways, Y!Read(x) \/ Y!ReadEof(x) \/ Y!ReadFails(x) \/ Y!Write(x) \/ Y!WriteFails(x)
      PROVE  FALSE
  <2>1. relaying' = relaying /\ at[x] \in {"read", "write", "fragment"}
    BY <1>6 DEF Y!Read, Y!ReadEof, Y!ReadFails, Y!Write, Y!WriteFails
  <2>. QED
    BY <2>1 DEF Y!CountsSettled
<1>7. CASE Y!WriteFragment
  BY <1>7 DEF Y!WriteFragment, Y!CountsSettled, Y!Ways
<1>. QED
  BY <1>3, <1>4, <1>5, <1>6, <1>7 DEF Y!Next

\* Each step has its lemma.
LEMMA RelaysNextIInv ==
    ASSUME Y!RelayAssumption, Y!IInv, [Y!Next]_(Y!vars)
    PROVE  Y!IInv'
<1>1. Ordered /\ Y!CountsSettled /\ Y!CountsReported
  BY DEF Y!IInv, Ordered
<1>. QED
  BY <1>1, NextOrdered, TasksCount, TasksSettled, CopyCounts DEF Y!IInv, Ordered

\* It implies what is checked.
LEMMA RelaysIInvImplies ==
    ASSUME Y!RelayAssumption, Y!IInv
    PROVE  Y!PiecesInOrder /\ Y!CountsReported
<1>. SUFFICES ASSUME NEW w \in Y!Ways, ~(zero /\ w = "up")
              PROVE  /\ Y!IsPrefix(written[w], Y!Bytes(0, Size[w]))
                     /\ at[w] = "eof" => Len(written[w]) = Size[w]
  BY DEF Y!IInv, Y!PiecesInOrder
<1>1. /\ written[w] \in Seq(Nat) /\ Len(written[w]) \in Nat /\ hand[w] \in Seq(Nat) /\ Len(hand[w]) \in Nat
      /\ taken[w] \in Nat /\ Size[w] \in Nat /\ Y!InOrder(w)
  BY DEF Y!IInv, Y!TypeOK, Y!RelayAssumption
<1>2. Y!Numbered(written[w], 0) /\ Len(written[w]) <= Size[w]
  <2>1. Y!Numbered(written[w], 0) /\ Len(written[w]) + Len(hand[w]) <= taken[w] /\ taken[w] <= Size[w]
    BY <1>1 DEF Y!InOrder
  <2>2. \A x, y, r, z \in Nat : x + y <= r /\ r <= z => x <= z
    OBVIOUS
  <2>. QED
    BY <1>1, <2>1, <2>2, Zenon
<1>. DEFINE s == written[w]
            t == Y!Bytes(0, Size[w])
<1>3. t \in Seq(Nat) /\ Len(t) = Size[w] /\ Y!Numbered(t, 0)
  <2>1. 0 \in Nat /\ 0 <= Size[w] /\ Size[w] - 0 = Size[w]
    BY <1>1
  <2>2. Y!Bytes(0, Size[w]) \in Seq(Nat) /\ Len(Y!Bytes(0, Size[w])) = Size[w] - 0 /\ Y!Numbered(Y!Bytes(0, Size[w]), 0)
    BY <1>1, <2>1, NumberedBytes
  <2>. QED
    BY <2>1, <2>2
<1>4. s \in Seq(Nat) /\ Y!Numbered(s, 0) /\ Len(s) <= Len(t)
  BY <1>1, <1>2, <1>3
<1>. HIDE DEF s, t
<1>5. SubSeq(s, 1, Len(s)) = s
  BY <1>4, SubSeqFull
<1>6. SubSeq(t, 1, Len(s)) \in Seq(Nat) /\ Len(SubSeq(t, 1, Len(s))) = Len(s)
  BY <1>3, <1>4
<1>7. ASSUME NEW i \in 1 .. Len(s)
      PROVE  s[i] = SubSeq(t, 1, Len(s))[i]
  <2>1. Len(s) \in Nat /\ Len(t) \in Nat /\ i \in 1 .. Len(t) /\ i \in 1 .. Len(s)
    BY <1>3, <1>4
  <2>2. i \in DOMAIN t /\ i \in DOMAIN s
    BY <1>3, <1>4, <2>1
  <2>3. SubSeq(t, 1, Len(s))[i] = t[i]
    BY <1>3, <1>4, <2>1
  <2>. QED
    BY <1>3, <1>4, <2>2, <2>3 DEF Y!Numbered
<1>8. s = SubSeq(t, 1, Len(s))
  BY <1>4, <1>6, <1>7, SeqEqual
<1>9. Y!IsPrefix(s, t)
  BY <1>4, <1>5, <1>8 DEF Y!IsPrefix
<1>10. ASSUME at[w] = "eof"
       PROVE  Len(written[w]) = Size[w]
  <2>1. hand[w] = <<>> /\ taken[w] = Size[w] /\ Len(written[w]) + Len(hand[w]) = taken[w]
    BY <1>1, <1>10 DEF Y!InOrder
  <2>2. Len(hand[w]) = 0
    BY <2>1, NumberedEmpty
  <2>. QED
    BY <1>1, <2>1, <2>2
<1>. QED
  BY <1>9, <1>10 DEF s, t
-----------------------------------------------------------------------------
\* A step of the doors is a step of each part or leaves it alone: they share no variable.
LEMMA DoorsSteps ==
    ASSUME [DoorsNext]_doorsVars
    PROVE  /\ [S!Next]_(S!vars) /\ [L!Next]_(L!vars) /\ [B!Next]_(B!vars) /\ [Y!Next]_(Y!vars)
<1>. USE DEF socksVars, limiterVars, dashboardVars, relayVars, S!vars, L!vars, B!vars, Y!vars
<1>1. CASE HandshakeStep
  BY <1>1 DEF HandshakeStep
<1>2. CASE SocksStep
  BY <1>2 DEF SocksStep
<1>3. CASE LimiterStep
  BY <1>3 DEF LimiterStep
<1>4. CASE DashboardStep
  BY <1>4 DEF DashboardStep
<1>5. CASE RelayStep
  BY <1>5 DEF RelayStep
<1>6. CASE UNCHANGED doorsVars
  BY <1>6 DEF doorsVars
<1>. QED
  BY <1>1, <1>2, <1>3, <1>4, <1>5, <1>6 DEF DoorsNext

\* What the parts promise, each under what it assumes of its constants.
DoorsAssumption == S!SocksAssumption /\ L!LimiterAssumption /\ B!DashboardAssumption /\ Y!RelayAssumption
DoorsIInv == S!IInv /\ L!IInv /\ B!IInv /\ Y!IInv

\* No part disturbs another.
LEMMA DoorsIInvKept ==
    ASSUME DoorsAssumption, DoorsIInv, [DoorsNext]_doorsVars
    PROVE  DoorsIInv'
<1>1. /\ S!SocksAssumption /\ L!LimiterAssumption /\ B!DashboardAssumption /\ Y!RelayAssumption
      /\ S!IInv /\ L!IInv /\ B!IInv /\ Y!IInv
  BY DEF DoorsAssumption, DoorsIInv
<1>2. S!IInv'
  BY <1>1, DoorsSteps, SocksNextIInv
<1>3. L!IInv'
  BY <1>1, DoorsSteps, LimiterNextIInv
<1>4. B!IInv'
  BY <1>1, DoorsSteps, DashboardNextIInv
<1>5. Y!IInv'
  BY <1>1, DoorsSteps, RelaysNextIInv
<1>. QED
  BY <1>2, <1>3, <1>4, <1>5 DEF DoorsIInv

\* Whatever comes through the doors, the four parts beside the admission keep their
\* invariants: no step of one disturbs what another relies on.
THEOREM DoorsInvariant ==
    ASSUME DoorsAssumption
    PROVE  DoorsSpec => []DoorsIInv
<1>1. /\ S!SocksAssumption /\ L!LimiterAssumption /\ B!DashboardAssumption /\ Y!RelayAssumption
  BY DEF DoorsAssumption
<1>2. DoorsInit => DoorsIInv
  BY <1>1, SocksInitIInv, LimiterInitIInv, DashboardInitIInv, RelaysInitIInv DEF DoorsInit, DoorsIInv
<1>3. DoorsIInv /\ [DoorsNext]_doorsVars => DoorsIInv'
  BY DoorsIInvKept
<1>. QED
  BY <1>2, <1>3, PTL DEF DoorsSpec

\* For any number of handlers, addresses and ids, at the doors as alone: the two maps of
\* get_or_create_association (inbound/socks5.rs) name each other whenever their locks are
\* free, and a reply reaches only the address whose datagram it answers.
THEOREM DoorsAssociationsSound ==
    ASSUME DoorsAssumption
    PROVE  DoorsSpec => []AssociationsSound
<1>1. ASSUME DoorsIInv PROVE AssociationsSound
  BY <1>1, SocksIInvImplies DEF DoorsAssumption, DoorsIInv, AssociationsSound
<1>. QED
  BY <1>1, DoorsInvariant, PTL

\* For every window, limit and number of addresses, and whatever the pruning of the map
\* (api/mod.rs, the subscription limiter) throws away: nobody is served more than Limit
\* times in any window.
THEOREM DoorsLimitHolds ==
    ASSUME DoorsAssumption
    PROVE  DoorsSpec => []LimitHolds
<1>1. ASSUME DoorsIInv PROVE LimitHolds
  BY <1>1, LimiterIInvImplies DEF DoorsAssumption, DoorsIInv, LimitHolds
<1>. QED
  BY <1>1, DoorsInvariant, PTL

\* For all windows of lag and monitoring: once the event loop has kept up for one, the
\* dashboard and the connections it serves were read at most two periods ago.
THEOREM DoorsSnapshotsRecent ==
    ASSUME DoorsAssumption
    PROVE  DoorsSpec => []SnapshotsRecent
<1>1. ASSUME DoorsIInv PROVE SnapshotsRecent
  BY <1>1 DEF DoorsIInv, B!IInv, SnapshotsRecent
<1>. QED
  BY <1>1, DoorsInvariant, PTL

\* For payloads, buffers and fragments of any length, whatever fails on the way: the
\* receiver of a relay gets the beginning of what was sent, after a clean end all of it,
\* and the counters have exactly what was written, or nothing where an error is reported.
THEOREM DoorsRelayedAndCounted ==
    ASSUME DoorsAssumption
    PROVE  DoorsSpec => []RelayedAndCounted
<1>1. ASSUME DoorsIInv PROVE RelayedAndCounted
  BY <1>1, RelaysIInvImplies DEF DoorsAssumption, DoorsIInv, RelayedAndCounted
<1>. QED
  BY <1>1, DoorsInvariant, PTL

=============================================================================
