--------------------------- MODULE DispatchProofs ---------------------------
(***************************************************************************)
(* For every number of connections, accounts, destinations, lists of       *)
(* outbounds and changes: deleting an account ends exactly its connections, *)
(* apart from the races named in DeletedAreKicked, and TCP for WARP leaves  *)
(* directly only by an outbound that was configured so.  The inductive      *)
(* invariant is IInv of Dispatch.                                          *)
(***************************************************************************)
EXTENDS Dispatch, TLAPS

\* The router answers with a tag (resolve_route, router/mod.rs).
LEMMA RouteIsTag ==
    ASSUME NEW m \in Modes, NEW d \in Dests
    PROVE  resolve_route(m, d) \in Tags
<1>1. d.rule \in Tags \cup {"none"}
  BY DispatchAssumption
<1>. QED
  BY <1>1 DEF resolve_route, Tags

\* What WarpTcpFailsClosed says of one connection: tag, command, handler and what
\* the configuration had for the tag.
FailsClosed(t, isUdp, how, o) ==
    t = "warp" /\ ~isUdp => (how = "direct" => Bare(o)) /\ (o = Missing => how = "proxy")

\* The handler of an outbound (get_outbound_handler): for WARP and TCP it is a direct
\* one only if the configured outbound is, because a missing one is replaced.
LEMMA CarrierOfTag ==
    ASSUME NEW t \in Tags, NEW isUdp \in BOOLEAN, outbounds \in Configs
    PROVE  /\ outbounds[t] \in Outbounds /\ Carrier(Outbound(t), isUdp) \in Carriers
           /\ FailsClosed(t, isUdp, Carrier(Outbound(t), isUdp), outbounds[t])
<1>1. outbounds[t] \in Outbounds
  BY DispatchAssumption
<1>2. Carrier(Outbound(t), isUdp) \in Carriers
  BY DEF Carrier, Carriers
<1>3. FailsClosed(t, isUdp, Carrier(Outbound(t), isUdp), outbounds[t])
  <2>1. CASE outbounds[t] = Missing
    BY <2>1 DEF FailsClosed, Carrier, Outbound
  <2>2. CASE outbounds[t] # Missing
    <3>1. Outbound(t) = outbounds[t] /\ outbounds[t].protocol # "none"
      BY <1>1, <2>2, DispatchAssumption DEF Outbound
    <3>. QED
      BY <1>1, <2>2, <3>1 DEF FailsClosed, Carrier, Bare, Outbounds
  <2>. QED
    BY <2>1, <2>2
<1>. QED
  BY <1>1, <1>2, <1>3

\* At the start nothing is served.
THEOREM InitIInv == Init => IInv
<1>. SUFFICES ASSUME Init PROVE IInv
  OBVIOUS
<1>1. TypeOK
  BY DEF Init, TypeOK, Modes, Carriers, Tags, Outbounds, Missing
<1>2. \A c \in Conns : Books(c)
  BY DEF Init, Books, Served
<1>3. DeletedAreKicked /\ OnlyDeletedAreKicked /\ WarpTcpFailsClosed
  BY DEF Init, DeletedAreKicked, OnlyDeletedAreKicked, WarpTcpFailsClosed
<1>. QED
  BY <1>1, <1>2, <1>3 DEF IInv

\* A step of connection c that leaves the accounts and everything of the
\* other connections alone keeps the invariant if it keeps c's part of it.
LEMMA OneConnection ==
    ASSUME IInv, TypeOK', NEW c \in Conns,
           users' = users, deleted' = deleted, dropped' = dropped,
           \A d \in Conns \ {c} :
               /\ phase'[d] = phase[d] /\ owner'[d] = owner[d] /\ account'[d] = account[d]
               /\ route'[d] = route[d] /\ udp'[d] = udp[d] /\ carrier'[d] = carrier[d]
               /\ signal'[d] = signal[d] /\ metered'[d] = metered[d] /\ found'[d] = found[d]
               /\ (d \in registry' <=> d \in registry) /\ (d \in raced' <=> d \in raced),
           Books(c)',
           c \in registry' =>
               owner'[c] \in users' \/ signal'[c] \/ c \in raced' \/ owner'[c] \in dropped',
           signal'[c] => owner'[c] \in deleted',
           FailsClosed(route'[c], udp'[c], carrier'[c], found'[c])
    PROVE  IInv'
<1>1. ASSUME NEW d \in Conns \ {c} PROVE Books(d)'
  <2>1. Books(d)
    BY DEF IInv
  <2>. QED
    BY <2>1, <1>1 DEF Books, Served
<1>2. \A d \in Conns : Books(d)'
  BY <1>1
<1>3. DeletedAreKicked'
  <2>. SUFFICES ASSUME NEW d \in registry'
                PROVE  owner'[d] \in users' \/ signal'[d] \/ d \in raced' \/ owner'[d] \in dropped'
    BY DEF DeletedAreKicked
  <2>1. d \in Conns
    BY DEF TypeOK
  <2>2. CASE d = c
    BY <2>2
  <2>3. CASE d # c
    BY <2>1, <2>3 DEF IInv, DeletedAreKicked
  <2>. QED
    BY <2>2, <2>3
<1>4. OnlyDeletedAreKicked'
  <2>. SUFFICES ASSUME NEW d \in Conns, signal'[d] PROVE owner'[d] \in deleted'
    BY DEF OnlyDeletedAreKicked
  <2>. QED
    BY DEF IInv, OnlyDeletedAreKicked
<1>5. WarpTcpFailsClosed'
  <2>1. \A d \in Conns : FailsClosed(route[d], udp[d], carrier[d], found[d])
    BY DEF IInv, WarpTcpFailsClosed, FailsClosed
  <2>2. \A d \in Conns : FailsClosed(route'[d], udp'[d], carrier'[d], found'[d])
    BY <2>1
  <2>. QED
    BY <2>2 DEF WarpTcpFailsClosed, FailsClosed, Bare
<1>. QED
  BY <1>2, <1>3, <1>4, <1>5 DEF IInv

\* The id is authenticated: the owner is an account that is there.
LEMMA AuthenticateIInv ==
    ASSUME IInv, NEW c \in Conns, NEW u \in Users, NEW m \in Modes, Authenticate(c, u, m)
    PROVE  IInv'
<1>1. TypeOK'
  BY DEF Authenticate, IInv, TypeOK
<1>2. Books(c)
  BY DEF IInv
<1>3. phase'[c] = "parsing" /\ owner'[c] = u /\ phase[c] = "new" /\ u \in users /\ c \notin registry
  BY DEF Authenticate, IInv, TypeOK
<1>4. Books(c)'
  BY <1>2, <1>3 DEF Authenticate, Books, Served
<1>5. FailsClosed(route'[c], udp'[c], carrier'[c], found'[c])
  BY <1>2, <1>3 DEF Authenticate, Books, FailsClosed
<1>. QED
  BY <1>1, <1>2, <1>3, <1>4, <1>5, OneConnection DEF Authenticate, Books, IInv, TypeOK

\* The task ends and nothing is left of the connection (ParseFails, FailClosed,
\* HandlerEnds and Kicked).
LEMMA ForgetIInv ==
    ASSUME IInv, NEW c \in Conns, Forget(c), registry' = registry \ {c},
           users' = users, outbounds' = outbounds, warpUp' = warpUp, deleted' = deleted, dropped' = dropped, edits' = edits
    PROVE  IInv'
<1>1. TypeOK'
  BY DEF Forget, IInv, TypeOK, Modes, Carriers, Tags, Outbounds, Missing
<1>2. /\ phase'[c] = "gone" /\ owner'[c] = NoUser /\ c \notin raced' /\ c \notin registry'
      /\ ~signal'[c] /\ route'[c] = "none"
  BY DEF Forget, IInv, TypeOK
<1>3. Books(c)'
  BY <1>2 DEF Books, Served
<1>4. FailsClosed(route'[c], udp'[c], carrier'[c], found'[c])
  BY <1>2 DEF FailsClosed
<1>. QED
  BY <1>1, <1>2, <1>3, <1>4, OneConnection DEF Forget, IInv, TypeOK

\* dispatch_connection after its last await: the account is the owner, or
\* nobody if the owner was removed while the request was parsed.
LEMMA RegisterIInv ==
    ASSUME IInv, NEW c \in Conns, NEW d \in Dests, NEW isUdp \in BOOLEAN, Register(c, d, isUdp)
    PROVE  IInv'
<1>. DEFINE tag == resolve_route(ModeNow(c), d)
            cr == Carrier(Outbound(tag), isUdp)
            o == outbounds[tag]
<1>0. Books(c) /\ phase[c] = "parsing" /\ owner[c] \in Users /\ c \notin registry /\ ~signal[c]
  BY DEF IInv, Books, Served, Register, TypeOK
<1>1. tag \in Tags
  <2>1. ModeNow(c) \in Modes
    BY DEF ModeNow, IInv, TypeOK, Modes
  <2>. QED
    BY <2>1, RouteIsTag
<1>2. o \in Outbounds /\ cr \in Carriers /\ FailsClosed(tag, isUdp, cr, o)
  BY <1>1, CarrierOfTag DEF IInv, TypeOK
<1>. HIDE DEF tag, cr, o
<1>3. /\ route' = [route EXCEPT ![c] = tag] /\ udp' = [udp EXCEPT ![c] = isUdp]
      /\ carrier' = [carrier EXCEPT ![c] = cr] /\ found' = [found EXCEPT ![c] = o]
      /\ account' = [account EXCEPT ![c] = IF owner[c] \in users THEN owner[c] ELSE NoUser]
      /\ registry' = registry \cup {c} /\ phase' = [phase EXCEPT ![c] = "dialing"]
      /\ UNCHANGED <<users, outbounds, warpUp, owner, mode, signal, metered, deleted, raced, dropped, edits>>
  BY DEF Register, tag, cr, o
<1>4. TypeOK'
  <2>1. /\ route' \in [Conns -> Tags \cup {"none"}] /\ carrier' \in [Conns -> Carriers]
        /\ account' \in [Conns -> Users \cup {NoUser}] /\ udp' \in [Conns -> BOOLEAN]
        /\ found' \in [Conns -> Outbounds]
    BY <1>0, <1>1, <1>2, <1>3 DEF IInv, TypeOK
  <2>. QED
    BY <2>1, <1>3 DEF IInv, TypeOK
<1>5. /\ phase'[c] = "dialing" /\ c \in registry' /\ ~signal'[c] /\ route'[c] = tag
      /\ udp'[c] = isUdp /\ carrier'[c] = cr /\ found'[c] = o
      /\ account'[c] = IF owner[c] \in users THEN owner[c] ELSE NoUser
  BY <1>0, <1>3 DEF IInv, TypeOK
<1>6. Books(c)'
  BY <1>0, <1>3, <1>5 DEF Books, Served
<1>7. \A x \in Conns \ {c} :
        /\ phase'[x] = phase[x] /\ account'[x] = account[x]
        /\ route'[x] = route[x] /\ udp'[x] = udp[x] /\ carrier'[x] = carrier[x] /\ found'[x] = found[x]
  BY <1>3 DEF IInv, TypeOK
<1>8. owner'[c] \in users' \/ c \in raced'
  BY <1>0, <1>3 DEF Books
<1>9. FailsClosed(route'[c], udp'[c], carrier'[c], found'[c])
  BY <1>2, <1>5
<1>. QED
  BY <1>3, <1>4, <1>5, <1>6, <1>7, <1>8, <1>9, OneConnection

\* The relay begins: it goes uncounted only if its account is not there.
LEMMA DialledIInv ==
    ASSUME IInv, NEW c \in Conns, Dialled(c)
    PROVE  IInv'
<1>1. TypeOK'
  <2>1. metered' \in [Conns -> BOOLEAN]
    BY DEF Dialled, IInv, TypeOK
  <2>. QED
    BY <2>1 DEF Dialled, IInv, TypeOK
<1>2. /\ Books(c) /\ c \in registry /\ phase'[c] = "relaying" /\ phase[c] = "dialing"
      /\ (metered'[c] <=> account[c] \in users)
  BY DEF Dialled, IInv, TypeOK
<1>3. Books(c)'
  BY <1>2, DispatchAssumption DEF Dialled, Books, Served
<1>4. \A x \in Conns \ {c} : phase'[x] = phase[x] /\ metered'[x] = metered[x]
  BY DEF Dialled, IInv, TypeOK
<1>5. FailsClosed(route'[c], udp'[c], carrier'[c], found'[c])
  BY DEF Dialled, IInv, WarpTcpFailsClosed, FailsClosed
<1>. QED
  BY <1>1, <1>2, <1>3, <1>4, <1>5, OneConnection
     DEF Dialled, IInv, DeletedAreKicked, OnlyDeletedAreKicked

\* An account is removed: its registered connections are signalled (delete_user)
\* or it counts as dropped (reload_config); one that is being parsed has raced.
LEMMA RemoveIInv ==
    ASSUME IInv, NEW u \in Users, DeleteUser(u) \/ ReloadDrops(u)
    PROVE  IInv'
<1>1. /\ users' = users \ {u} /\ raced' = raced \cup RacedBy(u) /\ edits' = edits + 1
      /\ phase' = phase /\ owner' = owner /\ mode' = mode /\ account' = account /\ route' = route
      /\ udp' = udp /\ carrier' = carrier /\ registry' = registry /\ metered' = metered
      /\ found' = found /\ outbounds' = outbounds /\ warpUp' = warpUp
      /\ deleted \subseteq deleted' /\ dropped \subseteq dropped' /\ u \in deleted' \cup dropped'
  BY DEF DeleteUser, ReloadDrops, conn
<1>2. /\ deleted' \in SUBSET Users /\ dropped' \in SUBSET Users /\ signal' \in [Conns -> BOOLEAN]
  BY DEF DeleteUser, ReloadDrops, disconnect_user, IInv, TypeOK
<1>3. TypeOK'
  BY <1>1, <1>2 DEF IInv, TypeOK, RacedBy
<1>4. ASSUME NEW c \in Conns
      PROVE  /\ signal'[c] => signal[c] \/ (c \in registry /\ account[c] = u /\ u \in deleted')
             /\ c \in registry /\ account[c] = u => signal'[c] \/ u \in dropped'
             /\ signal[c] => signal'[c]
  BY <1>4 DEF DeleteUser, ReloadDrops, disconnect_user
<1>5. ASSUME NEW c \in Conns PROVE Books(c)'
  <2>1. Books(c) /\ (c \in registry <=> phase[c] \in {"dialing", "relaying"})
    BY <1>5 DEF IInv, TypeOK
  <2>2. c \in raced' <=> c \in raced \/ (phase[c] = "parsing" /\ owner[c] = u)
    BY <1>1, <1>5 DEF RacedBy
  <2>. QED
    BY <1>1, <1>4, <2>1, <2>2 DEF Books, Served
<1>6. DeletedAreKicked'
  <2>. SUFFICES ASSUME NEW c \in registry'
                PROVE  owner'[c] \in users' \/ signal'[c] \/ c \in raced' \/ owner'[c] \in dropped'
    BY DEF DeletedAreKicked
  <2>1. c \in registry /\ c \in Conns /\ Books(c)
    BY <1>1 DEF IInv, TypeOK
  <2>2. owner[c] \in users \/ signal[c] \/ c \in raced \/ owner[c] \in dropped
    BY <2>1 DEF IInv, DeletedAreKicked
  <2>. QED
    BY <1>1, <1>4, <2>1, <2>2 DEF Books
<1>7. OnlyDeletedAreKicked'
  <2>. SUFFICES ASSUME NEW c \in Conns, signal'[c] PROVE owner'[c] \in deleted'
    BY DEF OnlyDeletedAreKicked
  <2>1. CASE signal[c]
    BY <2>1, <1>1 DEF IInv, OnlyDeletedAreKicked
  <2>2. CASE c \in registry /\ account[c] = u /\ u \in deleted'
    BY <2>2, <1>1, DispatchAssumption DEF IInv, Books
  <2>. QED
    BY <1>4, <2>1, <2>2
<1>8. WarpTcpFailsClosed'
  BY <1>1 DEF IInv, WarpTcpFailsClosed
<1>. QED
  BY <1>3, <1>5, <1>6, <1>7, <1>8 DEF IInv

\* An account is created, the list of outbounds or WARP's health changes, or nothing happens.
LEMMA OtherIInv ==
    ASSUME IInv, (\E u \in Users : CreateUser(u)) \/ (\E f \in Configs : ReloadOutbounds(f)) \/ WarpProbe \/ UNCHANGED vars
    PROVE  IInv'
<1>1. /\ users \subseteq users' /\ users' \subseteq Users /\ outbounds' \in Configs /\ warpUp' \in BOOLEAN
      /\ edits' \in Nat /\ found' = found
      /\ phase' = phase /\ owner' = owner /\ mode' = mode /\ account' = account /\ route' = route
      /\ udp' = udp /\ carrier' = carrier /\ registry' = registry /\ metered' = metered
      /\ signal' = signal /\ deleted' = deleted /\ raced' = raced /\ dropped' = dropped
  <2>1. CASE \E u \in Users : CreateUser(u)
    BY <2>1 DEF CreateUser, conn, IInv, TypeOK
  <2>2. CASE WarpProbe
    BY <2>2 DEF WarpProbe, conn, IInv, TypeOK
  <2>3. CASE UNCHANGED vars
    BY <2>3 DEF vars, IInv, TypeOK
  <2>4. CASE \E f \in Configs : ReloadOutbounds(f)
    BY <2>4 DEF ReloadOutbounds, conn, IInv, TypeOK
  <2>. QED
    BY <2>1, <2>2, <2>3, <2>4
<1>2. TypeOK'
  BY <1>1 DEF IInv, TypeOK
<1>3. ASSUME NEW c \in Conns PROVE Books(c)'
  BY <1>1, <1>3 DEF IInv, Books, Served
<1>4. DeletedAreKicked' /\ OnlyDeletedAreKicked' /\ WarpTcpFailsClosed'
  BY <1>1 DEF IInv, DeletedAreKicked, OnlyDeletedAreKicked, WarpTcpFailsClosed
<1>. QED
  BY <1>2, <1>3, <1>4 DEF IInv

\* Every step keeps the inductive invariant.
THEOREM NextIInv == IInv /\ [Next]_vars => IInv'
<1>. SUFFICES ASSUME IInv, [Next]_vars PROVE IInv'
  OBVIOUS
<1>1. ASSUME NEW c \in Conns, NEW u \in Users, NEW m \in Modes, Authenticate(c, u, m) PROVE IInv'
  BY <1>1, AuthenticateIInv
<1>2. ASSUME NEW c \in Conns, ParseFails(c) PROVE IInv'
  BY <1>2, ForgetIInv DEF ParseFails, IInv, TypeOK
<1>3. ASSUME NEW c \in Conns, NEW d \in Dests, FailClosed(c, d) PROVE IInv'
  BY <1>3, ForgetIInv DEF FailClosed, IInv, TypeOK
<1>4. ASSUME NEW c \in Conns, NEW d \in Dests, NEW isUdp \in BOOLEAN, Register(c, d, isUdp) PROVE IInv'
  BY <1>4, RegisterIInv
<1>5. ASSUME NEW c \in Conns, Dialled(c) PROVE IInv'
  BY <1>5, DialledIInv
<1>6. ASSUME NEW c \in Conns, HandlerEnds(c) \/ Kicked(c) PROVE IInv'
  BY <1>6, ForgetIInv DEF HandlerEnds, Kicked, Deregister
<1>7. ASSUME NEW u \in Users, DeleteUser(u) \/ ReloadDrops(u) PROVE IInv'
  BY <1>7, RemoveIInv
<1>8. CASE (\E u \in Users : CreateUser(u)) \/ (\E f \in Configs : ReloadOutbounds(f)) \/ WarpProbe \/ UNCHANGED vars
  BY <1>8, OtherIInv
<1>. QED
  BY <1>1, <1>2, <1>3, <1>4, <1>5, <1>6, <1>7, <1>8 DEF Next

\* The invariant of the specification.
LEMMA SpecIInv == Spec => []IInv
<1>1. Init => IInv
  BY InitIInv
<1>2. IInv /\ [Next]_vars => IInv'
  BY NextIInv
<1>. QED
  BY <1>1, <1>2, PTL DEF Spec

\* Whoever is deleted loses exactly the connections registered under any id of
\* the account, and a relay is counted for the account it was opened with
\* (delete_user and disconnect_user against dispatch_connection).
THEOREM DeletionEndsConnections == Spec => []KickedExactly
<1>1. IInv => AccountedFor
  <2>. SUFFICES ASSUME IInv, NEW c \in Conns, phase[c] = "relaying", ~metered[c]
                PROVE  owner[c] \in deleted \cup dropped
    BY DEF AccountedFor
  <2>. QED
    BY DEF IInv, Books
<1>2. IInv => KickedExactly
  BY <1>1 DEF IInv, KickedExactly
<1>. QED
  BY <1>2, SpecIInv, PTL

\* TCP that the router sends to WARP leaves directly only by an outbound configured so, and
\* takes the proxy where none is configured, for every list of outbounds and whatever is
\* reloaded meanwhile (dispatch_connection and get_outbound_handler).
THEOREM WarpTcpClosed == Spec => []WarpTcpFailsClosed
<1>1. IInv => WarpTcpFailsClosed
  BY DEF IInv
<1>. QED
  BY <1>1, SpecIInv, PTL
=============================================================================
