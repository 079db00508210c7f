------------------------- MODULE PublicTunnelProofs -------------------------
(***************************************************************************)
(* The safety of PublicTunnel for every set of tunnel sockets, external    *)
(* connections and sources, and every set of frames the client may send.   *)
(***************************************************************************)
EXTENDS PublicTunnel, UdpFrameCodecProofs

-----------------------------------------------------------------------------
(* The inductive invariant *)

ControlTypeOK ==
    /\ SocketsTypeOK /\ PairsTypeOK /\ SessionsTypeOK
    /\ type \in {"tcp", "udp"}

\* A pooled socket has not ended, a held one has not been seen to end
PoolIsUp == \A s \in Socket : Pooled(s) => tcp[s] \in {"open", "destroyed"}

HeldIsUp ==
    \A s \in Socket :
        key[s] # NoSource \/ s \in Paired \/ s \in upgrades => tcp[s] # "closed"

\* The three kinds of consumers exclude each other, also while a socket ends
OneHolder ==
    \A s \in Socket :
        /\ key[s] # NoSource => s \notin Paired /\ s \notin upgrades
        /\ s \in Paired => s \notin upgrades

\* A session that is closed has destroyed its socket
ClosedIsDown == \A s \in Socket : closed[s] => key[s] # NoSource /\ ~Live(s)

\* A live socket out of the pool is held; only a paired one is half-closed
LiveIsHeld ==
    \A s \in Socket :
        /\ Live(s) /\ ~Pooled(s) => key[s] # NoSource \/ s \in Paired \/ s \in upgrades
        /\ tcp[s] = "ended" => s \in Paired

\* No two tunnel sockets have the same external connection
PairsApart == \A s, t \in Paired : pairOf[s] = pairOf[t] => s = t

OpenHasPair ==
    \A x \in External : external[x] = "open" => \E s \in Socket : pairOf[s] = x

PairSides ==
    /\ \A s \in Paired :
           tcp[s] = "open" /\ external[pairOf[s]] = "open" => s \in activePairs
    /\ \A s \in activePairs :
           s \in Paired /\ tcp[s] # "closed" /\ external[pairOf[s]] # "closed"
    /\ \A s \in Paired : external[pairOf[s]] = "closed" => tcp[s] # "open"

\* After the removal nobody is served
Silent == ~registered => Serving = {} /\ activePairs = {}

Holders == HeldIsUp /\ OneHolder /\ ClosedIsDown /\ LiveIsHeld
Pairs == PairsApart /\ OpenHasPair /\ PairSides

TInv ==
    /\ ControlTypeOK
    /\ PoolIsIdle /\ PoolIsUp
    /\ Holders /\ Pairs
    /\ SessionIsCurrent
    /\ Silent

LEMMA PooledIsIn == ASSUME NEW s PROVE Pooled(s) <=> In(s, availableSockets)
BY DEF Pooled, In

LEMMA PoolIsIdleIsNoDup ==
    PoolIsIdle <=> /\ NoDup(availableSockets)
                   /\ \A s \in Socket : Pooled(s) =>
                        key[s] = NoSource /\ pairOf[s] = NoExternal /\ s \notin upgrades
BY DEF PoolIsIdle, NoDup

LEMMA InitTInv == TunnelInit => TInv
<1> SUFFICES ASSUME TunnelInit PROVE TInv
  OBVIOUS
<1> USE DEF TunnelInit, SocketsInit, PairsInit, SessionsInit
<1>1. ControlTypeOK
  BY DEF ControlTypeOK, SocketsTypeOK, PairsTypeOK, SessionsTypeOK
<1>2. PoolIsIdle /\ PoolIsUp
  BY DEF PoolIsIdle, PoolIsUp, Pooled
<1>3. Holders
  BY DEF Holders, HeldIsUp, OneHolder, ClosedIsDown, LiveIsHeld, Live, Paired
<1>4. Pairs
  BY DEF Pairs, PairsApart, OpenHasPair, PairSides, Paired
<1>5. SessionIsCurrent /\ Silent
  BY NoSocketAssumption DEF SessionIsCurrent, Serving, Silent
<1> QED BY <1>1, <1>2, <1>3, <1>4, <1>5 DEF TInv

\* What createConnection does to the pool
LEMMA ShiftFacts ==
    ASSUME TInv, NEW s \in Socket, createConnection(s)
    PROVE  /\ availableSockets' \in Seq(Socket)
           /\ NoDup(availableSockets')
           /\ \A x : Pooled(x)' <=> Pooled(x) /\ x # s
           /\ Pooled(s) /\ key[s] = NoSource /\ pairOf[s] = NoExternal /\ s \notin upgrades
<1>1. NoDup(availableSockets)
  BY PoolIsIdleIsNoDup DEF TInv
<1>2. /\ availableSockets' \in Seq(Socket)
      /\ NoDup(availableSockets')
      /\ In(s, availableSockets)
      /\ \A x : In(x, availableSockets') <=> In(x, availableSockets) /\ x # s
  BY <1>1, TailNoDup DEF createConnection, TInv, ControlTypeOK, SocketsTypeOK
<1>3. /\ \A x : Pooled(x) <=> In(x, availableSockets)
      /\ \A x : Pooled(x)' <=> In(x, availableSockets')
  BY DEF Pooled, In
<1> QED BY <1>2, <1>3 DEF TInv, PoolIsIdle

\* A step that leaves the pool alone and puts none of its sockets to use
LEMMA PoolKept ==
    ASSUME TInv, UNCHANGED availableSockets,
           \A s \in Socket : Pooled(s) =>
               /\ key'[s] = key[s] /\ pairOf'[s] = pairOf[s]
               /\ s \in upgrades' => s \in upgrades
               /\ tcp'[s] = tcp[s] \/ tcp'[s] = "destroyed"
    PROVE  /\ PoolIsIdle' /\ PoolIsUp'
           /\ \A s : Pooled(s)' <=> Pooled(s)
BY DEF TInv, PoolIsIdle, PoolIsUp, Pooled

\* A step of the pairs leaves the sessions alone
LEMMA SessionsKept ==
    ASSUME TInv, UNCHANGED <<sessions, key, closed, timer, forwarded>>
    PROVE  SessionIsCurrent' /\ Serving' = Serving
BY DEF TInv, SessionIsCurrent, Serving

\* A step of the sessions leaves the pairs alone
LEMMA PairsKept ==
    ASSUME TInv, UNCHANGED pairVars,
           \A s \in Socket : s \in Paired => tcp'[s] = tcp[s]
    PROVE  Pairs'
<1> USE DEF TInv, pairVars, ControlTypeOK, PairsTypeOK
<1>1. Paired' = Paired /\ \A x : TunnelOf(x)' = TunnelOf(x)
  BY DEF Paired, TunnelOf
<1>2. PairsApart' /\ OpenHasPair'
  BY <1>1 DEF Pairs, PairsApart, OpenHasPair
<1>3. PairSides'
  BY <1>1 DEF Pairs, PairSides, Paired
<1> QED BY <1>2, <1>3 DEF Pairs

-----------------------------------------------------------------------------
(* The tunnel sockets *)

LEMMA JoinTInv ==
    ASSUME TInv, NEW s \in Socket, onConnection(s), UNCHANGED <<pairVars, sessionVars, type>>
    PROVE  TInv'
<1> USE DEF TInv, onConnection, pairVars, sessionVars
<1>1. /\ ~Pooled(s) /\ key[s] = NoSource /\ pairOf[s] = NoExternal /\ s \notin upgrades
      /\ tcp[s] = "closed" /\ tcp' = [tcp EXCEPT ![s] = "open"]
  BY DEF PoolIsUp, Holders, HeldIsUp, Paired
<1>2. /\ availableSockets' \in Seq(Socket)
      /\ NoDup(availableSockets')
      /\ \A x : Pooled(x)' <=> Pooled(x) \/ x = s
  <2>1. NoDup(availableSockets) /\ ~In(s, availableSockets)
    BY <1>1, PoolIsIdleIsNoDup, PooledIsIn
  <2>2. /\ availableSockets' \in Seq(Socket)
        /\ NoDup(availableSockets')
        /\ \A x : In(x, availableSockets') <=> In(x, availableSockets) \/ x = s
    BY <2>1, AppendNoDup DEF ControlTypeOK, SocketsTypeOK
  <2> QED BY <2>2 DEF Pooled, In
<1>3. ControlTypeOK'
  BY <1>2 DEF ControlTypeOK, SocketsTypeOK, PairsTypeOK, SessionsTypeOK
<1>4. PoolIsIdle' /\ PoolIsUp'
  <2>1. PoolIsUp'
    BY <1>1, <1>2 DEF PoolIsUp, ControlTypeOK, SocketsTypeOK
  <2> QED BY <1>1, <1>2, <2>1 DEF PoolIsIdle, NoDup
<1>5. Holders'
  BY <1>1, <1>2 DEF Holders, HeldIsUp, OneHolder, ClosedIsDown, LiveIsHeld, Live, Paired,
     ControlTypeOK, SocketsTypeOK
<1>6. Pairs'
  BY <1>1, PairsKept DEF ControlTypeOK, SocketsTypeOK, Paired
<1>7. SessionIsCurrent' /\ Silent'
  BY SessionsKept DEF Silent
<1> QED BY <1>3, <1>4, <1>5, <1>6, <1>7

\* A step of a socket that is not piped to an external connection: it is taken
\* from the pool, put to an upgrade, or destroyed
LEMMA SocketTInv ==
    ASSUME TInv, NEW s \in Socket,
           \/ PeerCloses(s) \/ handleUpgrade(s) \/ UpgradeTooLate(s) \/ UpgradeEnds(s),
           UNCHANGED <<pairVars, sessionVars, type>>
    PROVE  TInv'
<1> USE DEF TInv, pairVars, sessionVars
<1>1. CASE PeerCloses(s) \/ UpgradeEnds(s)
  <2>1. /\ tcp' = Destroyed({s}) /\ Live(s)
        /\ UNCHANGED <<availableSockets, upgrades, registered>>
    BY <1>1 DEF PeerCloses, UpgradeEnds
  <2>2. \A x \in Socket : tcp'[x] = IF x = s THEN "destroyed" ELSE tcp[x]
    BY <2>1 DEF Destroyed
  <2>3. ControlTypeOK'
    BY <2>1 DEF ControlTypeOK, SocketsTypeOK, PairsTypeOK, SessionsTypeOK, Destroyed
  <2>4. PoolIsIdle' /\ PoolIsUp' /\ \A x : Pooled(x)' <=> Pooled(x)
    BY <2>1, <2>2, PoolKept
  <2>5. Holders'
    BY <2>1, <2>2, <2>4
       DEF Holders, HeldIsUp, OneHolder, ClosedIsDown, LiveIsHeld, Live, Paired
  <2>6. Pairs'
    BY <2>1, <2>2 DEF Pairs, PairsApart, OpenHasPair, PairSides, Paired,
       ControlTypeOK, PairsTypeOK
  <2>7. SessionIsCurrent' /\ Silent'
    BY <2>1, SessionsKept DEF Silent
  <2> QED BY <2>3, <2>4, <2>5, <2>6, <2>7
<1>2. CASE handleUpgrade(s) \/ UpgradeTooLate(s)
  <2>1. createConnection(s) /\ registered /\ registered' = registered
    BY <1>2 DEF handleUpgrade, UpgradeTooLate
  <2>2. /\ availableSockets' \in Seq(Socket)
        /\ NoDup(availableSockets')
        /\ \A x : Pooled(x)' <=> Pooled(x) /\ x # s
        /\ Pooled(s) /\ key[s] = NoSource /\ pairOf[s] = NoExternal /\ s \notin upgrades
    BY <2>1, ShiftFacts
  <2>3. \/ tcp' = tcp /\ upgrades' = upgrades \cup {s}
        \/ tcp' = Destroyed({s}) /\ upgrades' = upgrades
    BY <1>2 DEF handleUpgrade, UpgradeTooLate
  <2>4. ControlTypeOK'
    BY <2>1, <2>2, <2>3 DEF ControlTypeOK, SocketsTypeOK, PairsTypeOK, SessionsTypeOK, Destroyed
  <2>5. tcp[s] \in {"open", "destroyed"}
    BY <2>2 DEF PoolIsUp
  <2>6. /\ \A x \in Socket : x # s => tcp'[x] = tcp[x]
        /\ \/ tcp'[s] = tcp[s] /\ upgrades' = upgrades \cup {s}
           \/ tcp'[s] = "destroyed" /\ upgrades' = upgrades
    BY <2>3, <2>5 DEF Destroyed, Live
  <2>7. PoolIsIdle' /\ PoolIsUp'
    <3>1. PoolIsUp'
      BY <2>2, <2>6 DEF PoolIsUp
    <3> QED BY <2>2, <2>6, <3>1 DEF PoolIsIdle, NoDup
  <2>8. Holders'
    BY <2>2, <2>5, <2>6
       DEF Holders, HeldIsUp, OneHolder, ClosedIsDown, LiveIsHeld, Live, Paired
  <2>9. Pairs'
    BY <2>2, <2>6, PairsKept DEF Paired
  <2>10. SessionIsCurrent' /\ Silent'
    BY <2>1, SessionsKept DEF Silent
  <2> QED BY <2>4, <2>7, <2>8, <2>9, <2>10
<1> QED BY <1>1, <1>2

\* The 'close' event: the socket leaves the pool, or its consumer forgets it
LEMMA CloseTInv == ASSUME TInv, NEW s \in Socket, SocketCloses(s) PROVE TInv'
<1> USE DEF TInv
<1>1. /\ \A x \in Socket : tcp'[x] = IF x = s THEN "closed" ELSE tcp[x]
      /\ \A x \in Socket : key'[x] = IF x = s THEN NoSource ELSE key[x]
      /\ \A x \in Socket : pairOf'[x] = IF x = s THEN NoExternal ELSE pairOf[x]
      /\ \A x \in Socket : closed'[x] = IF x = s THEN FALSE ELSE closed[x]
      /\ \A x \in Socket : forwarded'[x] = IF x = s THEN {} ELSE forwarded[x]
      /\ upgrades' = upgrades \ {s} /\ activePairs' = activePairs \ {s}
      /\ registered' = registered
      /\ tcp[s] = "destroyed"
  BY DEF SocketCloses, CloseEvent, PairHearsClose, SessionHearsClose,
     ControlTypeOK, SocketsTypeOK, PairsTypeOK, SessionsTypeOK
<1>2. /\ availableSockets' \in Seq(Socket)
      /\ NoDup(availableSockets')
      /\ \A x : Pooled(x)' <=> Pooled(x) /\ x # s
  <2>1. NoDup(availableSockets)
    BY PoolIsIdleIsNoDup
  <2>2. /\ availableSockets' \in Seq(Socket)
        /\ NoDup(availableSockets')
        /\ \A x : In(x, availableSockets') <=> In(x, availableSockets) /\ x # s
    BY <2>1, RemoveFirstNoDup DEF SocketCloses, CloseEvent, ControlTypeOK, SocketsTypeOK
  <2> QED BY <2>2 DEF Pooled, In
<1>3. ControlTypeOK'
  <2>1. SocketsTypeOK' /\ type' \in {"tcp", "udp"}
    BY <1>2 DEF SocketCloses, CloseEvent, ControlTypeOK, SocketsTypeOK
  <2>2. PairsTypeOK'
    BY DEF SocketCloses, PairHearsClose, ControlTypeOK, PairsTypeOK
  <2>3. SessionsTypeOK'
    BY DEF SocketCloses, SessionHearsClose, ControlTypeOK, SessionsTypeOK, Forget
  <2> QED BY <2>1, <2>2, <2>3 DEF ControlTypeOK
<1>4. PoolIsIdle' /\ PoolIsUp'
  <2>1. PoolIsUp'
    BY <1>1, <1>2 DEF PoolIsUp
  <2> QED BY <1>1, <1>2, <2>1 DEF PoolIsIdle, NoDup
<1>5. Holders'
  BY <1>1, <1>2 DEF Holders, HeldIsUp, OneHolder, ClosedIsDown, LiveIsHeld, Live, Paired
<1>6. Pairs'
  <2>1. Paired' = Paired \ {s}
    BY <1>1 DEF Paired
  <2>2. PairsApart'
    BY <1>1, <2>1 DEF Pairs, PairsApart, Paired
  <2>3. \A x \in External :
            \/ external'[x] = external[x] /\ (external[x] = "open" => x # pairOf[s])
            \/ external[x] \in {"open", "ended"} /\ external'[x] = "destroyed"
    <3>1. PICK left \in BOOLEAN :
              external' = [x \in External |->
                  IF x = pairOf[s] /\ (external[x] = "open" \/ (external[x] = "ended" /\ ~left))
                    THEN "destroyed" ELSE external[x]]
      BY DEF SocketCloses, PairHearsClose
    <3> QED BY <3>1
  <2>4. OpenHasPair'
    <3> SUFFICES ASSUME NEW x \in External, external'[x] = "open" PROVE \E t \in Socket : pairOf'[t] = x
      BY DEF OpenHasPair
    <3>1. external[x] = "open" /\ x # pairOf[s]
      BY <2>3
    <3>2. PICK t \in Socket : pairOf[t] = x
      BY <3>1 DEF Pairs, OpenHasPair
    <3>3. t # s /\ pairOf'[t] = x
      BY <1>1, <3>1, <3>2
    <3> QED BY <3>3
  <2>5. PairSides'
    BY <1>1, <2>1, <2>3 DEF Pairs, PairSides, Paired, ControlTypeOK, PairsTypeOK
  <2> QED BY <2>2, <2>4, <2>5 DEF Pairs
<1>7. SessionIsCurrent' /\ Silent'
  <2>1. \A x : x \in Serving' <=> x \in Serving /\ x # s
    BY <1>1 DEF Serving
  <2>2. s \in Serving <=> s \in Unclosed({s}) /\ key[s] # NoSource
    BY DEF Serving, Unclosed
  <2>3. \A k \in Source : sessions'[k] =
            IF s \in Serving /\ key[s] = k THEN NoSocket ELSE sessions[k]
    <3>1. Unclosed({s}) \subseteq {s}
      BY DEF Unclosed
    <3>2. \A k \in Source : sessions'[k] =
              IF s \in Unclosed({s}) /\ key[s] = k THEN NoSocket ELSE sessions[k]
      BY <3>1 DEF SocketCloses, SessionHearsClose, Forget
    <3> QED BY <3>2, <2>2, NoSourceAssumption
  <2>4. \A x \in Socket : timer'[x] = IF x = s THEN "off" ELSE timer[x]
    <3>1. s \notin Unclosed({s}) => timer[s] = "off"
      BY <2>2 DEF SessionIsCurrent
    <3> QED BY <3>1 DEF SocketCloses, SessionHearsClose, ControlTypeOK, SessionsTypeOK
  <2>5. SessionIsCurrent'
    <3>1. \A k \in Source, x \in Socket : sessions'[k] = x <=> x \in Serving' /\ key'[x] = k
      BY <1>1, <2>1, <2>3, NoSocketAssumption DEF SessionIsCurrent
    <3>2. \A x \in Socket : timer'[x] # "off" <=> x \in Serving'
      BY <2>1, <2>4 DEF SessionIsCurrent
    <3>3. \A x \in Socket : forwarded'[x] \subseteq {key'[x]}
      BY <1>1 DEF SessionIsCurrent
    <3> QED BY <3>1, <3>2, <3>3 DEF SessionIsCurrent
  <2>6. Silent'
    BY <1>1, <2>1 DEF Silent
  <2> QED BY <2>5, <2>6
<1> QED BY <1>3, <1>4, <1>5, <1>6, <1>7

-----------------------------------------------------------------------------
(* The pairs *)

\* A step of the pairs there are: the sides of a pair only end, the pairs only
\* leave activePairs, and what it does to the pair it is about is PairSides'
LEMMA PairEvent ==
    ASSUME TInv, UNCHANGED <<availableSockets, upgrades, registered, pairOf>>,
           UNCHANGED <<sessionVars, type>>,
           external' \in [External -> {"closed", "open", "ended", "destroyed"}],
           activePairs' \subseteq activePairs,
           tcp' \in [Socket -> {"closed", "open", "ended", "destroyed"}],
           \A t \in Socket : tcp'[t] = tcp[t]
               \/ (t \in Paired /\ Live(t) /\ tcp'[t] \in {"ended", "destroyed"}),
           \A y \in External : external'[y] = "open" => external[y] = "open",
           PairSides'
    PROVE  TInv'
<1> USE DEF TInv, sessionVars
<1>1. Paired' = Paired /\ \A x : TunnelOf(x)' = TunnelOf(x)
  BY DEF Paired, TunnelOf
<1>2. ControlTypeOK'
  BY DEF ControlTypeOK, SocketsTypeOK, PairsTypeOK, SessionsTypeOK
<1>3. \A t \in Paired : ~Pooled(t)
  BY DEF PoolIsIdle, Paired
<1>4. PoolIsIdle' /\ PoolIsUp' /\ \A t : Pooled(t)' <=> Pooled(t)
  BY <1>3, PoolKept
<1>5. Holders'
  BY <1>1, <1>4 DEF Holders, HeldIsUp, OneHolder, ClosedIsDown, LiveIsHeld, Live
<1>6. Pairs'
  <2>1. PairsApart'
    BY <1>1 DEF Pairs, PairsApart
  <2>2. OpenHasPair'
    BY <1>1 DEF Pairs, OpenHasPair
  <2> QED BY <2>1, <2>2 DEF Pairs
<1>7. SessionIsCurrent' /\ Silent'
  BY SessionsKept DEF Silent
<1> QED BY <1>2, <1>4, <1>5, <1>6, <1>7

LEMMA PairEventsTInv ==
    ASSUME TInv, UNCHANGED <<sessionVars, type>>,
           \/ \E x \in External : ExternalStep(x)
           \/ \E s \in Socket : TunnelEnds(s) \/ TunnelFinishes(s)
    PROVE  TInv'
<1>0. /\ tcp \in [Socket -> {"closed", "open", "ended", "destroyed"}]
      /\ external \in [External -> {"closed", "open", "ended", "destroyed"}]
      /\ pairOf \in [Socket -> External \cup {NoExternal}]
      /\ activePairs \in SUBSET Socket
      /\ PairSides
  BY DEF TInv, ControlTypeOK, SocketsTypeOK, PairsTypeOK, Pairs
<1>1. ASSUME NEW x \in External, ExternalEnds(x) \/ ExternalResets(x) PROVE TInv'
  <2>1. /\ UNCHANGED <<tcp, availableSockets, upgrades, registered, pairOf>>
        /\ UNCHANGED activePairs
        /\ external' \in [External -> {"closed", "open", "ended", "destroyed"}]
        /\ \A y \in External : external'[y] = external[y]
               \/ (external[y] # "closed" /\ external'[y] \in {"ended", "destroyed"})
    BY <1>0, <1>1 DEF ExternalEnds, ExternalResets, socketVars
  <2>2. PairSides'
    BY <1>0, <2>1 DEF PairSides, Paired
  <2> QED BY <1>0, <2>1, <2>2, PairEvent
<1>2. ASSUME NEW s \in Socket, TunnelEnds(s) PROVE TInv'
  <2>1. /\ UNCHANGED <<availableSockets, upgrades, registered, pairOf>>
        /\ UNCHANGED <<external, activePairs>>
        /\ tcp' \in [Socket -> {"closed", "open", "ended", "destroyed"}]
        /\ \A t \in Socket : tcp'[t] = IF t = s THEN "ended" ELSE tcp[t]
        /\ s \in Paired /\ Live(s)
    BY <1>0, <1>2 DEF TunnelEnds, Live, pairVars
  <2>2. PairSides'
    BY <1>0, <2>1 DEF PairSides, Paired
  <2> QED BY <1>0, <2>1, <2>2, PairEvent
<1>3. ASSUME NEW s \in Socket, TunnelFinishes(s) PROVE TInv'
  <2>1. /\ UNCHANGED <<availableSockets, upgrades, registered, pairOf>>
        /\ s \in Paired
        /\ activePairs' = activePairs \ {s}
        /\ tcp' \in [Socket -> {"closed", "open", "ended", "destroyed"}]
        /\ \A t \in Socket : tcp'[t] = tcp[t] \/ (t = s /\ Live(t) /\ tcp'[t] = "destroyed")
        /\ external' \in [External -> {"closed", "open", "ended", "destroyed"}]
        /\ \A y \in External : external'[y] =
               IF y = pairOf[s] /\ external[y] = "open" THEN "destroyed" ELSE external[y]
    BY <1>0, <1>3 DEF TunnelFinishes, Destroyed, Live
  <2>2. pairOf[s] \in External
    BY <1>0, <2>1 DEF Paired
  <2>3. PairSides'
    BY <1>0, <2>1, <2>2 DEF PairSides, Paired
  <2> QED BY <2>1, <2>3, PairEvent
<1>4. ASSUME NEW x \in External, ExternalFinishes(x) PROVE TInv'
  <2>1. /\ UNCHANGED <<availableSockets, upgrades, registered, pairOf>>
        /\ activePairs' = activePairs \ TunnelOf(x)
        /\ tcp' \in [Socket -> {"closed", "open", "ended", "destroyed"}]
        /\ \A t \in Socket : tcp'[t] =
               IF t \in TunnelOf(x) /\ tcp[t] = "open" THEN "destroyed" ELSE tcp[t]
        /\ external' \in [External -> {"closed", "open", "ended", "destroyed"}]
        /\ \A y \in External : external'[y] = external[y]
               \/ (external[y] = "ended" /\ external'[y] = "destroyed")
    BY <1>0, <1>4 DEF ExternalFinishes, Destroyed, Live
  <2>2. TunnelOf(x) \subseteq Paired
    BY NoExternalAssumption DEF TunnelOf, Paired
  <2>3. PairSides'
    BY <1>0, <2>1 DEF PairSides, Paired, TunnelOf
  <2> QED BY <1>0, <2>1, <2>2, <2>3, PairEvent DEF Live
<1>5. ASSUME NEW x \in External, ExternalCloseEvent(x) PROVE TInv'
  <2>1. PICK S \in SUBSET TunnelOf(x) :
            /\ external[x] = "destroyed"
            /\ \A s \in TunnelOf(x) \ S : tcp[s] # "open"
            /\ external' = [external EXCEPT ![x] = "closed"]
            /\ activePairs' = activePairs \ TunnelOf(x)
            /\ tcp' = Destroyed(S)
            /\ UNCHANGED <<availableSockets, upgrades, registered, pairOf>>
    BY <1>5 DEF ExternalCloseEvent
  <2>2. /\ tcp' \in [Socket -> {"closed", "open", "ended", "destroyed"}]
        /\ \A t \in Socket : tcp'[t] = IF t \in S /\ Live(t) THEN "destroyed" ELSE tcp[t]
        /\ external' \in [External -> {"closed", "open", "ended", "destroyed"}]
        /\ \A y \in External : external'[y] = IF y = x THEN "closed" ELSE external[y]
    BY <1>0, <2>1 DEF Destroyed
  <2>3. S \subseteq Paired
    BY <2>1, NoExternalAssumption DEF TunnelOf, Paired
  <2>4. \A t \in Socket : t \in TunnelOf(x) => tcp'[t] # "open"
    BY <2>1, <2>2 DEF Live
  <2>5. PairSides'
    BY <1>0, <2>1, <2>2, <2>4 DEF PairSides, Paired, TunnelOf, Live
  <2> QED BY <2>1, <2>2, <2>3, <2>5, PairEvent
<1> QED BY <1>1, <1>2, <1>3, <1>4, <1>5 DEF ExternalStep

\* An external connection that gets no tunnel socket, or a dead one, is turned
\* away; one that gets a live socket makes a pair with it
LEMMA ConnectTInv ==
    ASSUME TInv, NEW x \in External, ExternalConnects(x), UNCHANGED <<sessionVars, type>>
    PROVE  TInv'
<1> USE DEF TInv, sessionVars
<1>0. /\ tcp \in [Socket -> {"closed", "open", "ended", "destroyed"}]
      /\ external \in [External -> {"closed", "open", "ended", "destroyed"}]
      /\ pairOf \in [Socket -> External \cup {NoExternal}]
      /\ activePairs \in SUBSET Socket
      /\ registered /\ external[x] = "closed" /\ \A t \in Socket : pairOf[t] # x
      /\ UNCHANGED <<tcp, upgrades, registered>>
  BY DEF ControlTypeOK, SocketsTypeOK, PairsTypeOK, ExternalConnects, TunnelOf,
     ExternalRejected, ExternalGetsDead, ExternalPaired
<1>1. SessionIsCurrent' /\ Silent'
  BY <1>0, SessionsKept DEF Silent
<1>2. ASSUME UNCHANGED <<pairOf, activePairs>>,
             external' = [external EXCEPT ![x] = "destroyed"]
      PROVE  Pairs'
  <2>1. Paired' = Paired /\ \A y : TunnelOf(y)' = TunnelOf(y)
    BY <1>2 DEF Paired, TunnelOf
  <2>2. \A y \in External : external'[y] = IF y = x THEN "destroyed" ELSE external[y]
    BY <1>0, <1>2
  <2>3. PairsApart' /\ OpenHasPair'
    BY <1>2, <2>1, <2>2 DEF Pairs, PairsApart, OpenHasPair
  <2>4. PairSides'
    BY <1>0, <1>2, <2>1, <2>2 DEF Pairs, PairSides, Paired
  <2> QED BY <2>3, <2>4 DEF Pairs
<1>3. CASE ExternalRejected(x)
  <2>1. /\ UNCHANGED <<availableSockets, pairOf, activePairs>>
        /\ external' = [external EXCEPT ![x] = "destroyed"]
    BY <1>3 DEF ExternalRejected
  <2>2. PoolIsIdle' /\ PoolIsUp' /\ \A t : Pooled(t)' <=> Pooled(t)
    BY <1>0, <2>1, PoolKept
  <2>3. ControlTypeOK'
    BY <1>0, <2>1 DEF ControlTypeOK, SocketsTypeOK, PairsTypeOK, SessionsTypeOK
  <2>4. Holders'
    BY <1>0, <2>1, <2>2
       DEF Holders, HeldIsUp, OneHolder, ClosedIsDown, LiveIsHeld, Live, Paired
  <2> QED BY <1>1, <1>2, <2>1, <2>2, <2>3, <2>4
<1>4. CASE ExternalGetsDead(x)
  <2>1. PICK s \in Socket :
            /\ createConnection(s) /\ ~Live(s)
            /\ UNCHANGED <<pairOf, activePairs>>
            /\ external' = [external EXCEPT ![x] = "destroyed"]
    BY <1>4 DEF ExternalGetsDead
  <2>2. /\ availableSockets' \in Seq(Socket)
        /\ NoDup(availableSockets')
        /\ \A t : Pooled(t)' <=> Pooled(t) /\ t # s
        /\ Pooled(s) /\ key[s] = NoSource /\ pairOf[s] = NoExternal /\ s \notin upgrades
    BY <2>1, ShiftFacts
  <2>3. ControlTypeOK'
    BY <1>0, <2>1, <2>2 DEF ControlTypeOK, SocketsTypeOK, PairsTypeOK, SessionsTypeOK
  <2>4. PoolIsIdle' /\ PoolIsUp'
    <3>1. PoolIsUp'
      BY <1>0, <2>2 DEF PoolIsUp
    <3> QED BY <1>0, <2>1, <2>2, <3>1 DEF PoolIsIdle, NoDup
  <2>5. Holders'
    BY <1>0, <2>1, <2>2
       DEF Holders, HeldIsUp, OneHolder, ClosedIsDown, LiveIsHeld, Live, Paired
  <2> QED BY <1>1, <1>2, <2>1, <2>3, <2>4, <2>5
<1>5. CASE ExternalPaired(x)
  <2>1. PICK s \in Socket :
            /\ createConnection(s) /\ Live(s)
            /\ external' = [external EXCEPT ![x] = "open"]
            /\ pairOf' = [pairOf EXCEPT ![s] = x]
            /\ activePairs' = activePairs \cup {s}
    BY <1>5 DEF ExternalPaired
  <2>2. /\ availableSockets' \in Seq(Socket)
        /\ NoDup(availableSockets')
        /\ \A t : Pooled(t)' <=> Pooled(t) /\ t # s
        /\ Pooled(s) /\ key[s] = NoSource /\ pairOf[s] = NoExternal /\ s \notin upgrades
    BY <2>1, ShiftFacts
  <2>3. /\ \A y \in External : external'[y] = IF y = x THEN "open" ELSE external[y]
        /\ \A t \in Socket : pairOf'[t] = IF t = s THEN x ELSE pairOf[t]
        /\ Paired' = Paired \cup {s}
        /\ tcp[s] = "open"
    <3>1. /\ \A y \in External : external'[y] = IF y = x THEN "open" ELSE external[y]
          /\ \A t \in Socket : pairOf'[t] = IF t = s THEN x ELSE pairOf[t]
      BY <1>0, <2>1
    <3> QED BY <3>1, <2>1, <2>2, NoExternalAssumption DEF Paired, PoolIsUp, Live
  <2>4. ControlTypeOK'
    BY <1>0, <2>1, <2>2 DEF ControlTypeOK, SocketsTypeOK, PairsTypeOK, SessionsTypeOK
  <2>5. PoolIsIdle' /\ PoolIsUp'
    <3>1. PoolIsUp'
      BY <1>0, <2>2 DEF PoolIsUp
    <3> QED BY <1>0, <2>2, <2>3, <3>1 DEF PoolIsIdle, NoDup
  <2>6. Holders'
    BY <1>0, <2>2, <2>3 DEF Holders, HeldIsUp, OneHolder, ClosedIsDown, LiveIsHeld, Live
  <2>7. Pairs'
    <3>1. PairsApart'
      BY <1>0, <2>3 DEF Pairs, PairsApart, Paired
    <3>2. OpenHasPair'
      BY <2>2, <2>3, NoExternalAssumption DEF Pairs, OpenHasPair
    <3>3. PairSides'
      BY <1>0, <2>1, <2>3 DEF Pairs, PairSides, Paired
    <3> QED BY <3>1, <3>2, <3>3 DEF Pairs
  <2> QED BY <1>1, <2>4, <2>5, <2>6, <2>7
<1> QED BY <1>3, <1>4, <1>5 DEF ExternalConnects

-----------------------------------------------------------------------------
(* The sessions *)

LEMMA ForwardTInv ==
    ASSUME TInv, NEW k \in Source, ForwardDatagram(k), UNCHANGED <<pairVars, type>>
    PROVE  TInv'
<1> USE DEF TInv
<1>0. /\ UNCHANGED <<tcp, availableSockets, upgrades, registered>>
      /\ UNCHANGED <<sessions, key, closed>>
      /\ UNCHANGED <<external, pairOf, activePairs>>
      /\ sessions[k] \in Socket
      /\ type' = type
  BY DEF ForwardDatagram, socketVars, pairVars
<1>1. sessions[k] \in Serving /\ key[sessions[k]] = k
  BY <1>0 DEF SessionIsCurrent
<1>2. /\ timer' \in [Socket -> {"off", "running", "due"}]
      /\ \A s \in Socket : timer'[s] = IF s = sessions[k] THEN "running" ELSE timer[s]
      /\ forwarded' \in [Socket -> SUBSET Source]
      /\ \A s \in Socket : forwarded'[s] = forwarded[s]
             \/ (s = sessions[k] /\ forwarded'[s] = forwarded[s] \cup {k})
  BY DEF ForwardDatagram, _resetTimer, ControlTypeOK, SessionsTypeOK
<1>3. ControlTypeOK'
  BY <1>0, <1>2 DEF ControlTypeOK, SocketsTypeOK, PairsTypeOK, SessionsTypeOK
<1>4. PoolIsIdle' /\ PoolIsUp' /\ \A s : Pooled(s)' <=> Pooled(s)
  BY <1>0, PoolKept
<1>5. Holders'
  BY <1>0, <1>4 DEF Holders, HeldIsUp, OneHolder, ClosedIsDown, LiveIsHeld, Live, Paired
<1>6. Pairs'
  BY <1>0, PairsKept DEF pairVars
<1>7. SessionIsCurrent'
  BY <1>0, <1>1, <1>2 DEF SessionIsCurrent, Serving
<1>8. Silent'
  BY <1>0 DEF Silent, Serving
<1> QED BY <1>3, <1>4, <1>5, <1>6, <1>7, <1>8

\* A new session: the socket it takes serves nobody, so the session that the Map
\* gets is the only one of its source
LEMMA NewSessionTInv ==
    ASSUME TInv, NEW k \in Source, NewSession(k), UNCHANGED <<pairVars, type>>
    PROVE  TInv'
<1> USE DEF TInv
<1>1. PICK s \in Socket :
          /\ registered /\ sessions[k] = NoSocket
          /\ createConnection(s)
          /\ \/ /\ ~Live(s)
                /\ UNCHANGED <<sessions, key, closed, timer, forwarded>>
             \/ /\ Live(s)
                /\ sessions' = [sessions EXCEPT ![k] = s]
                /\ key' = [key EXCEPT ![s] = k]
                /\ forwarded' = [forwarded EXCEPT ![s] = {k}]
                /\ timer' = [timer EXCEPT ![s] = "running"]
                /\ UNCHANGED closed
          /\ UNCHANGED <<tcp, upgrades, registered, streams>>
  BY DEF NewSession, _resetTimer
<1>2. /\ availableSockets' \in Seq(Socket)
      /\ NoDup(availableSockets')
      /\ \A t : Pooled(t)' <=> Pooled(t) /\ t # s
      /\ Pooled(s) /\ key[s] = NoSource /\ pairOf[s] = NoExternal /\ s \notin upgrades
  BY <1>1, ShiftFacts
<1>3. /\ UNCHANGED <<external, pairOf, activePairs>> /\ type' = type
      /\ UNCHANGED <<tcp, upgrades, registered>>
  BY <1>1 DEF pairVars
<1>4. PoolIsUp' /\ Pairs'
  <2>1. PoolIsUp'
    BY <1>2, <1>3 DEF PoolIsUp
  <2> QED BY <1>3, <2>1, PairsKept
<1>5. Silent'
  BY <1>1, <1>3 DEF Silent
<1>6. CASE ~Live(s)
  <2>1. UNCHANGED <<sessions, key, closed, timer, forwarded>>
    BY <1>1, <1>6
  <2>2. ControlTypeOK'
    BY <1>2, <1>3, <2>1 DEF ControlTypeOK, SocketsTypeOK, PairsTypeOK, SessionsTypeOK
  <2>3. PoolIsIdle'
    BY <1>2, <1>3, <2>1 DEF PoolIsIdle, NoDup
  <2>4. Holders'
    BY <1>2, <1>3, <1>6, <2>1
       DEF Holders, HeldIsUp, OneHolder, ClosedIsDown, LiveIsHeld, Live, Paired
  <2> QED BY <1>4, <1>5, <2>1, <2>2, <2>3, <2>4, SessionsKept
<1>7. CASE Live(s)
  <2>1. /\ sessions' = [sessions EXCEPT ![k] = s]
        /\ key' = [key EXCEPT ![s] = k]
        /\ forwarded' = [forwarded EXCEPT ![s] = {k}]
        /\ timer' = [timer EXCEPT ![s] = "running"]
        /\ closed' = closed
    BY <1>1, <1>7
  <2>2. ControlTypeOK'
    BY <1>2, <1>3, <2>1 DEF ControlTypeOK, SocketsTypeOK, PairsTypeOK, SessionsTypeOK
  <2>3. /\ \A j \in Source : sessions'[j] = IF j = k THEN s ELSE sessions[j]
        /\ \A t \in Socket : key'[t] = IF t = s THEN k ELSE key[t]
        /\ \A t \in Socket : forwarded'[t] = IF t = s THEN {k} ELSE forwarded[t]
        /\ \A t \in Socket : timer'[t] = IF t = s THEN "running" ELSE timer[t]
    BY <2>1 DEF ControlTypeOK, SessionsTypeOK
  <2>4. PoolIsIdle'
    BY <1>2, <1>3, <2>3 DEF PoolIsIdle, NoDup
  <2>5. Holders'
    BY <1>2, <1>3, <1>7, <2>1, <2>3, NoSourceAssumption
       DEF Holders, HeldIsUp, OneHolder, ClosedIsDown, LiveIsHeld, Live, Paired
  <2>6. /\ k # NoSource
        /\ closed[s] = FALSE
        /\ s \notin Serving
        /\ \A t \in Serving : key[t] # k
    BY <1>1, <1>2, NoSourceAssumption, NoSocketAssumption
       DEF Holders, ClosedIsDown, SessionIsCurrent, Serving, ControlTypeOK, SessionsTypeOK
  <2>7. \A t \in Socket : t \in Serving' <=> t \in Serving \/ t = s
    BY <2>1, <2>3, <2>6 DEF Serving
  <2>8. SessionIsCurrent'
    <3>1. \A j \in Source, t \in Socket : sessions'[j] = t <=> t \in Serving' /\ key'[t] = j
      BY <2>3, <2>6, <2>7 DEF SessionIsCurrent
    <3>2. \A t \in Socket : timer'[t] # "off" <=> t \in Serving'
      BY <2>3, <2>7 DEF SessionIsCurrent
    <3>3. \A t \in Socket : forwarded'[t] \subseteq {key'[t]}
      BY <2>3 DEF SessionIsCurrent
    <3> QED BY <3>1, <3>2, <3>3 DEF SessionIsCurrent
  <2> QED BY <1>4, <1>5, <2>2, <2>4, <2>5, <2>8
<1> QED BY <1>6, <1>7

\* Traffic and the timer of a session
LEMMA SessionTimersTInv ==
    ASSUME TInv, NEW s \in Socket, UNCHANGED <<pairVars, type>>,
           \/ \E frame \in Reply : ClientReplies(s, frame)
           \/ \E n \in 1..Len(toServer[s]) : TunnelData(s, n)
           \/ IdlePasses(s)
    PROVE  TInv'
<1> USE DEF TInv
<1>0. /\ UNCHANGED <<tcp, availableSockets, upgrades, registered>>
      /\ UNCHANGED <<sessions, key, closed, forwarded>>
      /\ UNCHANGED <<external, pairOf, activePairs>>
      /\ type' = type
  BY DEF ClientReplies, TunnelData, IdlePasses, socketVars, pairVars
<1>1. \/ timer' = timer
      \/ /\ key[s] # NoSource /\ closed[s] = FALSE
         /\ timer' = [timer EXCEPT ![s] = "running"]
      \/ timer[s] = "running" /\ timer' = [timer EXCEPT ![s] = "due"]
  BY DEF ClientReplies, TunnelData, IdlePasses, _resetTimer, ControlTypeOK, SessionsTypeOK
<1>2. /\ timer' \in [Socket -> {"off", "running", "due"}]
      /\ \A t \in Socket : timer'[t] # "off" <=> timer[t] # "off"
  <2>1. key[s] # NoSource /\ closed[s] = FALSE => timer[s] # "off"
    BY DEF SessionIsCurrent, Serving
  <2> QED BY <1>1, <2>1 DEF ControlTypeOK, SessionsTypeOK
<1>3. ControlTypeOK'
  BY <1>0, <1>2 DEF ControlTypeOK, SocketsTypeOK, PairsTypeOK, SessionsTypeOK
<1>4. PoolIsIdle' /\ PoolIsUp' /\ \A t : Pooled(t)' <=> Pooled(t)
  BY <1>0, PoolKept
<1>5. Holders'
  BY <1>0, <1>4 DEF Holders, HeldIsUp, OneHolder, ClosedIsDown, LiveIsHeld, Live, Paired
<1>6. Pairs'
  BY <1>0, PairsKept DEF pairVars
<1>7. SessionIsCurrent' /\ Silent'
  BY <1>0, <1>2 DEF SessionIsCurrent, Silent, Serving
<1> QED BY <1>3, <1>4, <1>5, <1>6, <1>7

\* The end of sessions by _cleanupSession, which finds each of them in the Map
LEMMA CleanupFacts ==
    ASSUME TInv, NEW S, S \subseteq Serving, _cleanupSession(S), UNCHANGED <<key, forwarded>>
    PROVE  /\ SessionIsCurrent' /\ SessionsTypeOK'
           /\ Serving' = Serving \ S
           /\ \A t \in Socket : closed'[t] <=> closed[t] \/ t \in S
<1> USE DEF TInv
<1>1. S \subseteq Socket /\ Unclosed(S) = S /\ \A t \in S : key[t] \in Source
  BY DEF Serving, Unclosed, ControlTypeOK, SessionsTypeOK
<1>2. /\ closed' \in [Socket -> BOOLEAN]
      /\ \A t \in Socket : closed'[t] <=> closed[t] \/ t \in S
      /\ timer' \in [Socket -> {"off", "running", "due"}]
      /\ \A t \in Socket : timer'[t] = IF t \in S THEN "off" ELSE timer[t]
  BY <1>1 DEF _cleanupSession, ControlTypeOK, SessionsTypeOK
<1>3. /\ sessions' \in [Source -> Socket \cup {NoSocket}]
      /\ \A k \in Source : sessions'[k] =
             IF \E t \in S : key[t] = k THEN NoSocket ELSE sessions[k]
  BY <1>1 DEF _cleanupSession, Forget, ControlTypeOK, SessionsTypeOK
<1>4. Serving' = Serving \ S
  BY <1>2 DEF Serving
<1>5. SessionIsCurrent'
  <2>1. ASSUME NEW k \in Source, NEW t \in Socket
        PROVE  sessions'[k] = t <=> t \in Serving' /\ key'[t] = k
    <3>1. CASE \E x \in S : key[x] = k
      <4>1. PICK x \in S : key[x] = k
        BY <3>1
      <4>2. sessions[k] = x
        BY <4>1, <1>1 DEF SessionIsCurrent
      <4>3. t \in Serving /\ key[t] = k => t = x
        BY <4>2 DEF SessionIsCurrent
      <4> QED BY <3>1, <4>1, <4>3, <1>3, <1>4, NoSocketAssumption
    <3>2. CASE ~\E x \in S : key[x] = k
      BY <3>2, <1>3, <1>4 DEF SessionIsCurrent
    <3> QED BY <3>1, <3>2
  <2>2. \A t \in Socket : timer'[t] # "off" <=> t \in Serving'
    BY <1>2, <1>4 DEF SessionIsCurrent
  <2>3. \A t \in Socket : forwarded'[t] \subseteq {key'[t]}
    BY DEF SessionIsCurrent
  <2> QED BY <2>1, <2>2, <2>3 DEF SessionIsCurrent
<1> QED BY <1>2, <1>3, <1>4, <1>5 DEF ControlTypeOK, SessionsTypeOK

\* A session that times out, or whose socket is in error, with its socket destroyed
LEMMA TimeoutTInv ==
    ASSUME TInv, NEW s \in Socket, SessionTimeout(s) \/ SessionHearsError(s),
           UNCHANGED <<pairVars, type>>
    PROVE  TInv'
<1> USE DEF TInv
<1>0. /\ UNCHANGED <<availableSockets, upgrades, registered>>
      /\ UNCHANGED <<key, forwarded>>
      /\ UNCHANGED <<external, pairOf, activePairs>>
      /\ type' = type
      /\ tcp' = Destroyed({s})
      /\ _cleanupSession({s})
  <2>1. CASE SessionTimeout(s)
    BY <2>1 DEF SessionTimeout, pairVars
  <2>2. CASE SessionHearsError(s)
    <3>1. tcp \in [Socket -> {"closed", "open", "ended", "destroyed"}]
      BY DEF ControlTypeOK, SocketsTypeOK
    <3>2. tcp' = Destroyed({s})
      BY <2>2, <3>1 DEF SessionHearsError, socketVars, Destroyed, Live
    <3> QED BY <2>2, <3>2 DEF SessionHearsError, socketVars, pairVars
  <2> QED BY <2>1, <2>2
<1>1. s \in Serving /\ key[s] # NoSource
  BY DEF SessionTimeout, SessionHearsError, SessionIsCurrent, Serving
<1>2. /\ SessionIsCurrent' /\ SessionsTypeOK'
      /\ Serving' = Serving \ {s}
      /\ \A t \in Socket : closed'[t] <=> closed[t] \/ t = s
  BY <1>0, <1>1, CleanupFacts
<1>3. /\ tcp' \in [Socket -> {"closed", "open", "ended", "destroyed"}]
      /\ \A t \in Socket : tcp'[t] = IF t = s /\ Live(t) THEN "destroyed" ELSE tcp[t]
  BY <1>0 DEF Destroyed, ControlTypeOK, SocketsTypeOK
<1>4. ControlTypeOK'
  BY <1>0, <1>2, <1>3 DEF ControlTypeOK, SocketsTypeOK, PairsTypeOK
<1>5. PoolIsIdle' /\ PoolIsUp' /\ \A t : Pooled(t)' <=> Pooled(t)
  BY <1>0, <1>3, PoolKept
<1>6. Holders'
  BY <1>0, <1>1, <1>2, <1>3, <1>5
     DEF Holders, HeldIsUp, OneHolder, ClosedIsDown, LiveIsHeld, Live, Paired
<1>7. Pairs'
  <2>1. s \notin Paired
    BY <1>1 DEF Holders, OneHolder
  <2> QED BY <1>0, <1>3, <2>1, PairsKept DEF pairVars
<1>8. Silent'
  BY <1>0, <1>2 DEF Silent
<1> QED BY <1>2, <1>4, <1>5, <1>6, <1>7, <1>8

-----------------------------------------------------------------------------
(* The removal of the client, and every step *)

LEMMA MappedIsServing == ASSUME TInv PROVE Mapped = Serving
<1>1. \A s \in Serving : key[s] \in Source
  BY DEF TInv, Serving, ControlTypeOK, SessionsTypeOK
<1> QED BY <1>1 DEF TInv, SessionIsCurrent, Mapped, Serving

LEMMA RemovalTInv == ASSUME TInv, close PROVE TInv'
<1> USE DEF TInv
<1>0. /\ UNCHANGED <<availableSockets, upgrades, key, forwarded>>
      /\ UNCHANGED <<pairOf, type>>
      /\ registered' = FALSE /\ activePairs' = {}
      /\ tcp' = Destroyed(activePairs \cup Serving)
      /\ _cleanupSession(Serving)
  BY MappedIsServing DEF close, destroyPairs, destroySessions
<1>1. /\ SessionIsCurrent' /\ SessionsTypeOK'
      /\ Serving' = {}
      /\ \A t \in Socket : closed'[t] <=> closed[t] \/ t \in Serving
  BY <1>0, CleanupFacts
<1>2. /\ tcp' \in [Socket -> {"closed", "open", "ended", "destroyed"}]
      /\ \A t \in Socket : tcp'[t] =
             IF t \in activePairs \cup Serving /\ Live(t) THEN "destroyed" ELSE tcp[t]
  BY <1>0 DEF Destroyed, ControlTypeOK, SocketsTypeOK
<1>3. /\ external' \in [External -> {"closed", "open", "ended", "destroyed"}]
      /\ \A x \in External : external'[x] = external[x]
             \/ (external[x] \in {"open", "ended"} /\ external'[x] = "destroyed")
  BY DEF close, destroyPairs, ControlTypeOK, PairsTypeOK
<1>4. ControlTypeOK'
  BY <1>0, <1>1, <1>2, <1>3 DEF ControlTypeOK, SocketsTypeOK, PairsTypeOK
<1>5. PoolIsIdle' /\ PoolIsUp' /\ \A t : Pooled(t)' <=> Pooled(t)
  BY <1>0, <1>2, PoolKept
<1>6. \A t \in activePairs \cup Serving : t \in Paired \/ key[t] # NoSource
  BY DEF Pairs, PairSides, Serving
<1>7. Holders'
  BY <1>0, <1>1, <1>2, <1>5, <1>6
     DEF Holders, HeldIsUp, OneHolder, ClosedIsDown, LiveIsHeld, Live, Paired, Serving
<1>8. Pairs'
  <2>1. Paired' = Paired
    BY <1>0 DEF Paired
  <2>2. PairsApart' /\ OpenHasPair'
    BY <1>0, <1>3, <2>1 DEF Pairs, PairsApart, OpenHasPair
  <2>3. \A t \in Paired : pairOf[t] \in External
    BY DEF Paired, ControlTypeOK, PairsTypeOK
  <2>4. ASSUME NEW t \in Paired
        PROVE  /\ tcp'[t] # "open" \/ external'[pairOf[t]] # "open"
               /\ external'[pairOf[t]] = "closed" => tcp'[t] # "open"
    <3>1. t \in Socket
      BY DEF Paired
    <3>2. tcp'[t] = "open" => tcp[t] = "open" /\ t \notin activePairs
      BY <1>2, <3>1 DEF Live
    <3>3. /\ external'[pairOf[t]] = "open" => external[pairOf[t]] = "open"
          /\ external'[pairOf[t]] = "closed" => external[pairOf[t]] = "closed"
      BY <1>3, <2>3
    <3> QED BY <3>2, <3>3 DEF Pairs, PairSides
  <2>5. PairSides'
    BY <1>0, <2>1, <2>4 DEF PairSides
  <2> QED BY <2>2, <2>5 DEF Pairs
<1>9. Silent'
  BY <1>0, <1>1 DEF Silent
<1> QED BY <1>1, <1>4, <1>5, <1>7, <1>8, <1>9

LEMMA StutterTInv == ASSUME TInv, UNCHANGED tunnelVars PROVE TInv'
<1> USE DEF TInv
<1>0. /\ UNCHANGED <<tcp, availableSockets, upgrades, registered>>
      /\ UNCHANGED <<external, pairOf, activePairs, type>>
      /\ UNCHANGED <<sessions, key, closed, timer, forwarded>>
  BY DEF tunnelVars, socketVars, pairVars, sessionVars
<1>1. ControlTypeOK'
  BY <1>0 DEF ControlTypeOK, SocketsTypeOK, PairsTypeOK, SessionsTypeOK
<1>2. PoolIsIdle' /\ PoolIsUp' /\ \A t : Pooled(t)' <=> Pooled(t)
  BY <1>0, PoolKept
<1>3. Holders'
  BY <1>0, <1>2 DEF Holders, HeldIsUp, OneHolder, ClosedIsDown, LiveIsHeld, Live, Paired
<1>4. Pairs' /\ SessionIsCurrent' /\ Silent'
  BY <1>0, PairsKept, SessionsKept DEF pairVars, Silent
<1> QED BY <1>1, <1>2, <1>3, <1>4

LEMMA NextTInv == TInv /\ [TunnelNext]_tunnelVars => TInv'
<1> SUFFICES ASSUME TInv, [TunnelNext]_tunnelVars PROVE TInv'
  OBVIOUS
<1>1. CASE UNCHANGED tunnelVars
  BY <1>1, StutterTInv
<1>2. CASE PairOnly
  BY <1>2, ConnectTInv, PairEventsTInv DEF PairOnly
<1>3. CASE SessionOnly
  BY <1>3, ForwardTInv, NewSessionTInv, SessionTimersTInv, TimeoutTInv
     DEF SessionOnly, SessionStep
<1>4. CASE close
  BY <1>4, RemovalTInv
<1>5. ASSUME NEW s \in Socket, SocketOnly(s) PROVE TInv'
  BY <1>5, JoinTInv, SocketTInv DEF SocketOnly, SocketStep
<1>6. ASSUME NEW s \in Socket, SocketCloses(s) PROVE TInv'
  BY <1>6, CloseTInv
<1> QED BY <1>1, <1>2, <1>3, <1>4, <1>5, <1>6 DEF TunnelNext

-----------------------------------------------------------------------------
(* Theorems *)

\* TInv, which says who holds each socket and what will end it, is inductive
THEOREM TunnelInvariance == TunnelSpec => []TInv
<1> QED BY InitTInv, NextTInv, PTL DEF TunnelSpec

\* In whatever order the two sides of a pair, the timers, the websockets and the
\* removal of the client come, no socket is left without the one that will end it
THEOREM NothingIsOrphaned == TunnelSpec => []NoOrphanSocket
<1>1. TInv => NoOrphanSocket
  <2> SUFFICES ASSUME TInv PROVE NoOrphanSocket
    OBVIOUS
  <2> USE DEF TInv
  <2>1. OneConsumer
    <3> SUFFICES ASSUME NEW s \in Socket, Live(s), ~Pooled(s)
                 PROVE  \/ s \in Serving /\ s \notin Paired /\ s \notin upgrades
                        \/ s \in Paired /\ key[s] = NoSource /\ s \notin upgrades
                        \/ s \in upgrades /\ key[s] = NoSource /\ s \notin Paired
      BY DEF OneConsumer
    <3>1. key[s] # NoSource => s \in Serving
      BY DEF Holders, ClosedIsDown, Serving
    <3> QED BY <3>1 DEF Holders, OneHolder, LiveIsHeld
  <2>2. PairsAreTracked
    <3>1. ASSUME NEW x \in External, external[x] = "open"
          PROVE  \E s \in Socket : TunnelOf(x) = {s}
      <4>1. PICK s \in Socket : pairOf[s] = x
        BY <3>1 DEF Pairs, OpenHasPair
      <4>2. \A t \in Socket : pairOf[t] = x => t = s
        BY <4>1, NoExternalAssumption DEF Pairs, PairsApart, Paired
      <4>3. TunnelOf(x) = {s}
        BY <4>1, <4>2 DEF TunnelOf
      <4> QED BY <4>3
    <3> QED BY <3>1 DEF PairsAreTracked, Pairs, PairSides
  <2> QED BY <2>1, <2>2 DEF NoOrphanSocket
<1> QED BY <1>1, TunnelInvariance, PTL

\* The Map, the session objects and their timers agree at every moment, and a
\* socket carries the datagrams of one source: no late cleanup of a session
\* touches the next session of its source
THEOREM SessionsAgree == TunnelSpec => []SessionIsCurrent
<1>1. TInv => SessionIsCurrent
  BY DEF TInv
<1> QED BY <1>1, TunnelInvariance, PTL

\* After the removal of its client a tunnel serves nobody new
THEOREM RemovalSilences == TunnelSpec => []ClosedTunnelIsSilent
<1>1. TInv => ClosedTunnelIsSilent
  BY DEF TInv, Silent, Pairs, PairSides, ClosedTunnelIsSilent
<1> QED BY <1>1, TunnelInvariance, PTL

-----------------------------------------------------------------------------
(* The replies of a session *)

\* What the server has read of the client's stream, whole, explains what its parser
\* keeps and what it has sent on
StreamRead(s) ==
    \E read \in Bytes :
        /\ read \o toServer[s] = Stream(sent[s])
        /\ buffer[s] = parse(read).buffer
        /\ replies[s] = Datagrams(parse(read).frames)

\* Without a session nothing has been sent on a socket, so that the next session
\* starts with an empty stream and an empty parser
NothingSent(s) ==
    sent[s] = << >> /\ toServer[s] = << >> /\ buffer[s] = << >> /\ replies[s] = << >>

StreamsInv ==
    /\ StreamsTypeOK
    /\ \A s \in Serving : StreamRead(s)
    /\ \A s \in Socket : key[s] = NoSource => NothingSent(s)

DatagramOf(f) == IF f.type = FRAME_DATA THEN << f.payload >> ELSE << >>
DueOf(f) == IF f.type = FRAME_DATA /\ f.header \in Json THEN << f.payload >> ELSE << >>

LEMMA DatagramsFacts ==
    /\ \A fs \in Seq(Frame) : Datagrams(fs) \in Seq(Bytes)
    /\ Datagrams(<< >>) = << >>
    /\ \A fs, gs \in Seq(Frame) : Datagrams(fs \o gs) = Datagrams(fs) \o Datagrams(gs)
    /\ \A f \in Frame : Datagrams(<< f >>) = DatagramOf(f)
<1> DEFINE G == [f \in Frame |-> DatagramOf(f)]
<1>1. G \in [Frame -> Seq(Bytes)] /\ \A f \in Frame : G[f] = DatagramOf(f)
  <2>1. \A f \in Frame : DatagramOf(f) \in Seq(Bytes)
    <3> SUFFICES ASSUME NEW f \in Frame PROVE DatagramOf(f) \in Seq(Bytes)
      OBVIOUS
    <3>1. f.payload \in Bytes
      BY DEF Frame, Short, Bytes
    <3>2. << f.payload >> \in Seq(Bytes) /\ << >> \in Seq(Bytes)
      BY <3>1
    <3> QED BY <3>2 DEF DatagramOf
  <2> QED BY <2>1
<1> HIDE DEF G
<1>2. \A fs \in Seq(Frame) : Datagrams(fs) = Gather(G, fs)
  <2> SUFFICES ASSUME NEW fs \in Seq(Frame) PROVE Datagrams(fs) = Gather(G, fs)
    OBVIOUS
  <2>1. \A i \in 1..Len(fs) : G[fs[i]] = DatagramOf(fs[i])
    BY <1>1, ElementOfSeq
  <2>2. [i \in 1..Len(fs) |-> DatagramOf(fs[i])] = [i \in 1..Len(fs) |-> G[fs[i]]]
    BY <2>1, Zenon
  <2> QED BY <2>2, Zenon DEF Datagrams, DatagramOf, Gather
<1>3. << >> \in Seq(Frame)
  BY EmptySeq
<1>4. /\ \A fs, gs \in Seq(Frame) : fs \o gs \in Seq(Frame)
      /\ \A f \in Frame : << f >> \in Seq(Frame)
  BY ConcatProperties
<1>5. /\ \A s \in Seq(Frame) : Gather(G, s) \in Seq(Bytes)
      /\ Gather(G, << >>) = << >>
      /\ \A s, t \in Seq(Frame) : Gather(G, s \o t) = Gather(G, s) \o Gather(G, t)
      /\ \A e \in Frame : Gather(G, <<e>>) = G[e]
  BY <1>1, GatherFacts
<1> QED BY <1>1, <1>2, <1>3, <1>4, <1>5, Zenon

LEMMA DueFacts ==
    /\ Due(<< >>) = << >>
    /\ \A fs, gs \in Seq(Frame) : Due(fs \o gs) = Due(fs) \o Due(gs)
    /\ \A f \in Frame : Due(<< f >>) = DueOf(f)
<1> DEFINE G == [f \in Frame |-> DueOf(f)]
<1>1. G \in [Frame -> Seq(Bytes)] /\ \A f \in Frame : G[f] = DueOf(f)
  <2>1. \A f \in Frame : DueOf(f) \in Seq(Bytes)
    <3> SUFFICES ASSUME NEW f \in Frame PROVE DueOf(f) \in Seq(Bytes)
      OBVIOUS
    <3>1. f.payload \in Bytes
      BY DEF Frame, Short, Bytes
    <3>2. << f.payload >> \in Seq(Bytes) /\ << >> \in Seq(Bytes)
      BY <3>1
    <3> QED BY <3>2 DEF DueOf
  <2> QED BY <2>1
<1> HIDE DEF G
<1>2. \A fs \in Seq(Frame) : Due(fs) = Gather(G, fs)
  <2> SUFFICES ASSUME NEW fs \in Seq(Frame) PROVE Due(fs) = Gather(G, fs)
    OBVIOUS
  <2>1. \A i \in 1..Len(fs) : G[fs[i]] = DueOf(fs[i])
    BY <1>1, ElementOfSeq
  <2>2. [i \in 1..Len(fs) |-> DueOf(fs[i])] = [i \in 1..Len(fs) |-> G[fs[i]]]
    BY <2>1, Zenon
  <2> QED BY <2>2, Zenon DEF Due, DueOf, Gather
<1>3. << >> \in Seq(Frame)
  BY EmptySeq
<1>4. /\ \A fs, gs \in Seq(Frame) : fs \o gs \in Seq(Frame)
      /\ \A f \in Frame : << f >> \in Seq(Frame)
  BY ConcatProperties
<1>5. /\ Gather(G, << >>) = << >>
      /\ \A s, t \in Seq(Frame) : Gather(G, s \o t) = Gather(G, s) \o Gather(G, t)
      /\ \A e \in Frame : Gather(G, <<e>>) = G[e]
  BY <1>1, GatherFacts
<1> QED BY <1>1, <1>2, <1>3, <1>4, <1>5, Zenon

\* What is due of frames is what the parser hands on of them, less what is no datagram
LEMMA DueIsKept == \A fs \in Seq(Frame) : Due(fs) = Datagrams(WellFormed(fs))
<1> DEFINE T == {fs \in Seq(Frame) : Due(fs) = Datagrams(WellFormed(fs))}
<1>1. << >> \in T
  <2>1. << >> \in Seq(Frame)
    BY EmptySeq
  <2>2. Due(<< >>) = Datagrams(WellFormed(<< >>))
    BY DueFacts, DatagramsFacts, WellFormedFacts, Zenon
  <2> QED BY <2>1, <2>2
<1>2. ASSUME NEW f \in Frame, NEW fs \in T PROVE << f >> \o fs \in T
  <2>1. fs \in Seq(Frame) /\ << f >> \o fs \in Seq(Frame) /\ << f >> \in Seq(Frame)
    BY OneFrameMore
  <2>2. Due(<< f >> \o fs) = DueOf(f) \o Due(fs)
    BY <2>1, DueFacts
  <2>3. WellFormed(<< f >> \o fs) = Kept(f) \o WellFormed(fs)
    BY <2>1, OneFrameMore
  <2>4. Kept(f) \in Seq(Frame) /\ WellFormed(fs) \in Seq(Frame)
    BY <2>1, WellFormedFacts DEF Kept
  <2>5. Datagrams(Kept(f) \o WellFormed(fs)) = Datagrams(Kept(f)) \o Datagrams(WellFormed(fs))
    BY <2>4, DatagramsFacts
  <2>6. Datagrams(Kept(f)) = DueOf(f)
    BY DatagramsFacts DEF Kept, DueOf, DatagramOf
  <2>7. Due(fs) = Datagrams(WellFormed(fs))
    OBVIOUS
  <2>8. Due(<< f >> \o fs) = Datagrams(WellFormed(<< f >> \o fs))
    BY <2>2, <2>3, <2>5, <2>6, <2>7, Zenon
  <2> QED BY <2>1, <2>8
<1>3. T = Seq(Frame)
  <2> HIDE DEF T
  <2>1. T \in SUBSET Seq(Frame)
    BY DEF T
  <2> QED BY <1>1, <1>2, <2>1, SeqInd
<1> QED BY <1>3

LEMMA InitStreams == TunnelInit => StreamsInv
<1> SUFFICES ASSUME TunnelInit PROVE StreamsInv
  OBVIOUS
<1>1. StreamsTypeOK
  BY EmptySeq DEF TunnelInit, SessionsInit, StreamsTypeOK
<1>2. Serving = {}
  BY DEF TunnelInit, SessionsInit, Serving
<1>3. \A s \in Socket : NothingSent(s)
  BY DEF TunnelInit, SessionsInit, NothingSent
<1> QED BY <1>1, <1>2, <1>3 DEF StreamsInv

\* A step that reads and writes nothing
LEMMA StreamsKept ==
    ASSUME StreamsInv, UNCHANGED <<streams, key>>, Serving' \subseteq Serving
    PROVE  StreamsInv'
<1>1. StreamsTypeOK'
  BY DEF StreamsInv, StreamsTypeOK, streams
<1>2. \A s : StreamRead(s)' <=> StreamRead(s)
  BY DEF StreamRead, streams
<1>3. \A s : NothingSent(s)' <=> NothingSent(s)
  BY DEF NothingSent, streams
<1> QED BY <1>1, <1>2, <1>3 DEF StreamsInv

\* A step that touches the streams of one socket
LEMMA OtherStreams ==
    ASSUME StreamsInv, StreamsTypeOK', NEW s \in Socket,
           \A x \in Socket : x # s =>
               /\ sent'[x] = sent[x] /\ toServer'[x] = toServer[x]
               /\ buffer'[x] = buffer[x] /\ replies'[x] = replies[x]
               /\ key'[x] = key[x]
               /\ x \in Serving' => x \in Serving,
           s \in Serving' => StreamRead(s)',
           key'[s] = NoSource => NothingSent(s)'
    PROVE  StreamsInv'
<1>1. ASSUME NEW x \in Socket, x # s, x \in Serving' PROVE StreamRead(x)'
  <2>1. StreamRead(x)
    BY <1>1 DEF StreamsInv
  <2> QED BY <1>1, <2>1 DEF StreamRead
<1>2. ASSUME NEW x \in Socket, x # s, key'[x] = NoSource PROVE NothingSent(x)'
  BY <1>2 DEF StreamsInv, NothingSent
<1>3. \A x \in Serving' : x \in Socket
  BY DEF Serving
<1> QED BY <1>1, <1>2, <1>3 DEF StreamsInv

\* A frame of the client
LEMMA ReplyStreams ==
    ASSUME TInv, StreamsInv, NEW s \in Socket, NEW frame \in Reply, ClientReplies(s, frame)
    PROVE  StreamsInv'
<1> USE DEF StreamsInv
<1>0. UNCHANGED <<key, closed, buffer, replies>>
  BY DEF ClientReplies
<1> DEFINE e == encodeFrame(frame)
<1>1. frame \in Frame /\ e \in Bytes
  BY ReplyAssumption, FrameSurvives
<1>2. sent[s] \in Seq(Reply) /\ sent[s] \in Seq(Frame) /\ toServer[s] \in Bytes
  <2>1. sent[s] \in Seq(Reply) /\ toServer[s] \in Bytes
    BY DEF StreamsTypeOK, Bytes
  <2>2. sent[s] \in Seq(Frame)
    BY <2>1, ReplyAssumption, SeqMonotonic
  <2> QED BY <2>1, <2>2
<1> HIDE DEF e
<1>3. /\ \A x \in Socket : sent'[x] = IF x = s THEN Append(sent[s], frame) ELSE sent[x]
      /\ \A x \in Socket : toServer'[x] = IF x = s THEN toServer[s] \o e ELSE toServer[x]
      /\ StreamsTypeOK'
  <2>1. Append(sent[s], frame) \in Seq(Reply) /\ toServer[s] \o e \in Bytes
    BY <1>1, <1>2, AppendProperties, ConcatFacts
  <2>2. /\ sent' = [sent EXCEPT ![s] = Append(sent[s], frame)]
        /\ toServer' = [toServer EXCEPT ![s] = toServer[s] \o e]
    BY DEF ClientReplies, e
  <2> QED BY <1>0, <2>1, <2>2 DEF StreamsTypeOK, Bytes
<1>4. s \in Serving' => StreamRead(s)'
  <2> SUFFICES ASSUME s \in Serving' PROVE StreamRead(s)'
    OBVIOUS
  <2>1. s \in Serving
    BY <1>0 DEF Serving
  <2>2. PICK read \in Bytes :
            /\ read \o toServer[s] = Stream(sent[s])
            /\ buffer[s] = parse(read).buffer
            /\ replies[s] = Datagrams(parse(read).frames)
    BY <2>1 DEF StreamRead
  <2>3. Stream(Append(sent[s], frame)) = Stream(sent[s]) \o e
    <3> DEFINE o == << frame >>
    <3>1. Append(sent[s], frame) = sent[s] \o o
      BY <1>1, <1>2, AppendIsConcat
    <3>2. o \in Seq(Frame) /\ Stream(o) = e
      BY <1>1, StreamFacts DEF e
    <3> HIDE DEF o
    <3>3. Stream(sent[s] \o o) = Stream(sent[s]) \o Stream(o)
      BY <1>2, <3>2, StreamFacts
    <3> QED BY <3>1, <3>2, <3>3
  <2> DEFINE t == toServer[s]
  <2>4. (read \o t) \o e = read \o (t \o e)
    <3>1. Associative(Byte) /\ t \in Bytes
      BY <1>2, ConcatIsAssociative
    <3> HIDE DEF t
    <3> QED BY <1>1, <3>1 DEF Associative, Bytes
  <2>5. read \o toServer'[s] = Stream(sent'[s])
    BY <1>3, <2>2, <2>3, <2>4
  <2> QED BY <1>0, <2>2, <2>5 DEF StreamRead
<1>5. key'[s] # NoSource
  <2>1. forwarded[s] # {}
    BY DEF ClientReplies
  <2>2. forwarded[s] \subseteq Source
    BY DEF TInv, ControlTypeOK, SessionsTypeOK
  <2>3. forwarded[s] \subseteq {key[s]}
    BY DEF TInv, SessionIsCurrent
  <2> QED BY <1>0, <2>1, <2>2, <2>3, NoSourceAssumption
<1>6. \A x \in Socket : x \in Serving' => x \in Serving
  BY <1>0 DEF Serving
<1> QED BY <1>0, <1>3, <1>4, <1>5, <1>6, OtherStreams

\* A chunk is a part of what is on its way
LEMMA ChunkFacts ==
    ASSUME NEW t \in Bytes, NEW n \in 1..Len(t)
    PROVE  /\ SubSeq(t, 1, n) \in Bytes /\ SubSeq(t, n + 1, Len(t)) \in Bytes
           /\ SubSeq(t, 1, n) \o SubSeq(t, n + 1, Len(t)) = t
<1>0. Len(t) \in Nat
  BY LenProperties DEF Bytes
<1>1. SubSeq(t, n + 1, Len(t)) \in Bytes
  <2>1. n \in 0..Len(t) /\ Len(t) \in n..Len(t)
    BY <1>0
  <2> QED BY <2>1, SliceFacts
<1>2. SubSeq(t, 0 + 1, n) \in Bytes /\ 0 + 1 = 1
  <2>1. 0 \in 0..Len(t) /\ n \in 0..Len(t)
    BY <1>0
  <2> QED BY <2>1, SliceFacts
<1>3. SubSeq(t, 1, n) \o SubSeq(t, n + 1, Len(t)) = SubSeq(t, 1, Len(t))
  <2>1. 1 \in 1..(Len(t) + 1) /\ n \in (1 - 1)..Len(t) /\ Len(t) \in n..Len(t)
    BY <1>0
  <2> QED BY <2>1, ConcatAdjacentSubSeq DEF Bytes
<1>4. SubSeq(t, 1, Len(t)) = t
  BY SubSeqFull DEF Bytes
<1> QED BY <1>1, <1>2, <1>3, <1>4

\* A chunk for the parser
LEMMA DataStreams ==
    ASSUME TInv, StreamsInv, NEW s \in Socket, NEW n \in 1..Len(toServer[s]), TunnelData(s, n)
    PROVE  StreamsInv'
<1> USE DEF StreamsInv
<1> DEFINE t == toServer[s]
           chunk == SubSeq(t, 1, n)
           rest == SubSeq(t, n + 1, Len(t))
           parsed == parse(buffer[s] \o chunk)
<1>0. /\ UNCHANGED <<key, closed, sent>> /\ key[s] # NoSource
      /\ toServer' = [toServer EXCEPT ![s] = rest]
      /\ IF closed[s]
           THEN UNCHANGED <<buffer, replies>>
           ELSE /\ buffer' = [buffer EXCEPT ![s] = parsed.buffer]
                /\ replies' = [replies EXCEPT ![s] = replies[s] \o Datagrams(parsed.frames)]
  BY DEF TunnelData
<1>1. t \in Bytes /\ buffer[s] \in Bytes /\ replies[s] \in Seq(Bytes)
  BY DEF StreamsTypeOK, Bytes
<1>2. chunk \in Bytes /\ rest \in Bytes /\ chunk \o rest = t
  <2> HIDE DEF t
  <2> QED BY <1>1, ChunkFacts DEF t
<1>3. Serving' = Serving
  BY <1>0 DEF Serving
<1> HIDE DEF chunk, rest
<1>4. buffer[s] \o chunk \in Bytes /\ parsed \in Result
  BY <1>1, <1>2, ConcatFacts, ParseType
<1>5. parsed.buffer \in Bytes /\ Datagrams(parsed.frames) \in Seq(Bytes)
  BY <1>4, DatagramsFacts DEF Result
<1> DEFINE more == Datagrams(parsed.frames)
           answered == replies[s] \o more
<1>6. answered \in Seq(Bytes)
  <2> HIDE DEF parsed
  <2> QED BY <1>1, <1>5, ConcatProperties
<1>7. StreamsTypeOK'
  <2> HIDE DEF parsed, answered
  <2>1. replies' = replies \/ replies' = [replies EXCEPT ![s] = answered]
    BY <1>0 DEF answered
  <2>2. buffer' = buffer \/ buffer' = [buffer EXCEPT ![s] = parsed.buffer]
    BY <1>0
  <2> QED BY <1>0, <1>2, <1>5, <1>6, <2>1, <2>2 DEF StreamsTypeOK, Bytes
<1>8. s \in Serving' => StreamRead(s)'
  <2> SUFFICES ASSUME s \in Serving PROVE StreamRead(s)'
    BY <1>3
  <2>1. PICK read \in Bytes :
            /\ read \o t = Stream(sent[s])
            /\ buffer[s] = parse(read).buffer
            /\ replies[s] = Datagrams(parse(read).frames)
    BY DEF StreamRead
  <2> DEFINE more2 == read \o chunk
  <2>2. more2 \in Bytes
    BY <1>2, ConcatFacts
  <2>3. ParsedInParts(read, chunk)
    BY <1>2, ChunksDoNotMatter
  <2>4. /\ parse(more2).frames = parse(read).frames \o parsed.frames
        /\ parse(more2).buffer = parsed.buffer
    BY <2>1, <2>3 DEF ParsedInParts
  <2>5. parse(read).frames \in Seq(Frame) /\ parsed.frames \in Seq(Frame)
    BY <1>4, ParseType DEF Result
  <2>6. /\ buffer'[s] = parsed.buffer
        /\ replies'[s] = replies[s] \o Datagrams(parsed.frames)
        /\ toServer'[s] = rest /\ sent'[s] = sent[s]
    <3> HIDE DEF parsed
    <3> QED BY <1>0 DEF Serving, StreamsTypeOK
  <2>7. more2 \o rest = Stream(sent[s])
    <3>1. Associative(Byte)
      BY ConcatIsAssociative
    <3> HIDE DEF t
    <3>2. (read \o chunk) \o rest = read \o (chunk \o rest)
      BY <1>2, <3>1 DEF Associative, Bytes
    <3> QED BY <1>2, <2>1, <3>2
  <2> HIDE DEF more2, parsed
  <2>8. Datagrams(parse(more2).frames) = replies'[s]
    <3>1. Datagrams(parse(read).frames \o parsed.frames)
              = Datagrams(parse(read).frames) \o Datagrams(parsed.frames)
      BY <2>5, DatagramsFacts
    <3> QED BY <2>1, <2>4, <2>6, <3>1
  <2>9. more2 \o toServer'[s] = Stream(sent'[s]) /\ buffer'[s] = parse(more2).buffer
    BY <2>4, <2>6, <2>7
  <2> QED BY <2>2, <2>8, <2>9 DEF StreamRead
<1>9. \A x \in Socket : x # s =>
          /\ sent'[x] = sent[x] /\ toServer'[x] = toServer[x]
          /\ buffer'[x] = buffer[x] /\ replies'[x] = replies[x]
          /\ key'[x] = key[x]
  <2> HIDE DEF parsed
  <2> QED BY <1>0 DEF StreamsTypeOK
<1> HIDE DEF parsed, StreamsInv
<1> QED BY <1>0, <1>3, <1>7, <1>8, <1>9, OtherStreams

\* A new session finds an empty stream
LEMMA NewSessionStreams ==
    ASSUME TInv, StreamsInv, NEW k \in Source, NewSession(k) PROVE StreamsInv'
<1> USE DEF StreamsInv
<1>1. PICK s \in Socket :
          /\ createConnection(s)
          /\ \/ UNCHANGED <<key, closed>>
             \/ key' = [key EXCEPT ![s] = k] /\ UNCHANGED closed
          /\ UNCHANGED streams
  BY DEF NewSession
<1>2. UNCHANGED <<sent, toServer, buffer, replies>> /\ UNCHANGED closed
  BY <1>1 DEF streams
<1>3. CASE UNCHANGED key
  <2>1. Serving' = Serving
    BY <1>2, <1>3 DEF Serving
  <2> QED BY <1>1, <1>3, <2>1, StreamsKept
<1>4. CASE key' = [key EXCEPT ![s] = k]
  <2>1. key[s] = NoSource
    BY <1>1, ShiftFacts
  <2>2. NothingSent(s)
    BY <2>1
  <2>3. \A x \in Socket : key'[x] = IF x = s THEN k ELSE key[x]
    BY <1>4 DEF TInv, ControlTypeOK, SessionsTypeOK
  <2>4. StreamsTypeOK'
    BY <1>2 DEF StreamsTypeOK
  <2>5. StreamRead(s)'
    <3> DEFINE read == << >>
    <3>1. read \in Bytes /\ read \o read = read
      BY EmptySeq, ConcatEmptySeq DEF Bytes
    <3>2. ~StartsWithFrame(read)
      BY DEF StartsWithFrame, HEADER_SIZE
    <3> HIDE DEF read
    <3>3. parse(read) = [frames |-> << >>, buffer |-> read]
      BY <3>1, <3>2, ParseEquation
    <3>4. /\ read \o toServer'[s] = Stream(sent'[s])
          /\ buffer'[s] = parse(read).buffer
          /\ replies'[s] = Datagrams(parse(read).frames)
      <4>1. /\ sent'[s] = << >> /\ toServer'[s] = read /\ buffer'[s] = read
            /\ replies'[s] = << >>
        BY <1>2, <2>2 DEF NothingSent, read
      <4>2. Stream(<< >>) = read /\ Datagrams(<< >>) = << >>
        BY StreamFacts, DatagramsFacts DEF read
      <4>3. parse(read).buffer = read /\ parse(read).frames = << >>
        BY <3>3
      <4> QED BY <3>1, <4>1, <4>2, <4>3, Zenon
    <3> QED BY <3>1, <3>4 DEF StreamRead
  <2>6. \A x \in Socket : x # s /\ x \in Serving' => x \in Serving
    BY <1>2, <2>3 DEF Serving
  <2>7. key'[s] # NoSource
    BY <2>3, NoSourceAssumption
  <2> HIDE DEF StreamsInv
  <2> QED BY <1>2, <2>3, <2>4, <2>5, <2>6, <2>7, OtherStreams
<1> QED BY <1>1, <1>3, <1>4

\* The session object is forgotten with all it keeps
LEMMA CloseStreams ==
    ASSUME TInv, StreamsInv, NEW s \in Socket, SocketCloses(s) PROVE StreamsInv'
<1> USE DEF StreamsInv
<1>1. /\ \A x \in Socket : key'[x] = IF x = s THEN NoSource ELSE key[x]
      /\ \A x \in Socket : closed'[x] = IF x = s THEN FALSE ELSE closed[x]
  BY DEF SocketCloses, SessionHearsClose, TInv, ControlTypeOK, SessionsTypeOK
<1>2. /\ \A x \in Socket : sent'[x] = IF x = s THEN << >> ELSE sent[x]
      /\ \A x \in Socket : toServer'[x] = IF x = s THEN << >> ELSE toServer[x]
      /\ \A x \in Socket : buffer'[x] = IF x = s THEN << >> ELSE buffer[x]
      /\ \A x \in Socket : replies'[x] = IF x = s THEN << >> ELSE replies[x]
      /\ StreamsTypeOK'
  BY EmptySeq DEF SocketCloses, SessionHearsClose, StreamsTypeOK
<1>3. NothingSent(s)'
  BY <1>2 DEF NothingSent
<1>4. s \notin Serving' /\ \A x \in Socket : x # s /\ x \in Serving' => x \in Serving
  BY <1>1 DEF Serving
<1> HIDE DEF StreamsInv
<1> QED BY <1>1, <1>2, <1>3, <1>4, OtherStreams

LEMMA NextStreams == TInv /\ StreamsInv /\ [TunnelNext]_tunnelVars => StreamsInv'
<1> SUFFICES ASSUME TInv, StreamsInv, [TunnelNext]_tunnelVars PROVE StreamsInv'
  OBVIOUS
<1>1. ASSUME UNCHANGED sessionVars PROVE StreamsInv'
  <2>1. UNCHANGED <<streams, key>> /\ Serving' = Serving
    BY <1>1 DEF sessionVars, Serving
  <2> QED BY <2>1, StreamsKept
<1>2. CASE UNCHANGED tunnelVars
  BY <1>1, <1>2 DEF tunnelVars
<1>3. CASE PairOnly
  BY <1>1, <1>3 DEF PairOnly
<1>4. ASSUME NEW s \in Socket, SocketOnly(s) PROVE StreamsInv'
  BY <1>1, <1>4 DEF SocketOnly
<1>5. CASE SessionOnly
  <2>1. ASSUME NEW k \in Source, ForwardDatagram(k) PROVE StreamsInv'
    <3>1. UNCHANGED <<streams, key>> /\ Serving' = Serving
      BY <2>1 DEF ForwardDatagram, Serving
    <3> QED BY <3>1, StreamsKept
  <2>2. ASSUME NEW s \in Socket, IdlePasses(s) PROVE StreamsInv'
    <3>1. UNCHANGED <<streams, key>> /\ Serving' = Serving
      BY <2>2 DEF IdlePasses, Serving
    <3> QED BY <3>1, StreamsKept
  <2>3. ASSUME NEW s \in Socket, SessionTimeout(s) \/ SessionHearsError(s) PROVE StreamsInv'
    <3>1. UNCHANGED <<streams, key>> /\ Serving' \subseteq Serving
      BY <2>3 DEF SessionTimeout, SessionHearsError, _cleanupSession, Serving
    <3> QED BY <3>1, StreamsKept
  <2> QED BY <1>5, <2>1, <2>2, <2>3, NewSessionStreams, ReplyStreams, DataStreams
          DEF SessionOnly, SessionStep
<1>6. CASE close
  <2>1. UNCHANGED <<streams, key>> /\ Serving' \subseteq Serving
    BY <1>6 DEF close, destroySessions, _cleanupSession, Serving
  <2> QED BY <2>1, StreamsKept
<1>7. ASSUME NEW s \in Socket, SocketCloses(s) PROVE StreamsInv'
  BY <1>7, CloseStreams
<1> QED BY <1>2, <1>3, <1>4, <1>5, <1>6, <1>7 DEF TunnelNext

\* What the server has read of the client, whole, explains at every moment what the
\* parser keeps and what went to the source
THEOREM StreamsInvariance == TunnelSpec => []StreamsInv
<1> QED BY InitStreams, NextStreams, TunnelInvariance, PTL DEF TunnelSpec

\* Every variable of a tunnel keeps its type, the bytes and the datagrams too: the
\* parser gives back frames, whatever bytes it gets
THEOREM TunnelTypeCorrect == TunnelSpec => []TunnelTypeOK
<1>1. TInv /\ StreamsInv => TunnelTypeOK
  BY DEF TInv, ControlTypeOK, StreamsInv, TunnelTypeOK
<1> QED BY <1>1, TunnelInvariance, StreamsInvariance, PTL

LEMMA StreamsInOrder == ASSUME StreamsInv, NEW s \in Serving
    PROVE  \E n \in 0..Len(sent[s]) :
        LET whole == SubSeq(sent[s], 1, n) IN
        /\ Len(Stream(whole)) <= DeliveredBytes(s)
        /\ n < Len(sent[s]) =>
               DeliveredBytes(s) < Len(Stream(SubSeq(sent[s], 1, n + 1)))
        /\ replies[s] = Due(whole)
<1> DEFINE fs == sent[s]
           t == toServer[s]
<1>1. s \in Socket
  BY DEF Serving
<1>2. fs \in Seq(Frame) /\ t \in Bytes /\ Len(fs) \in Nat
  <2>1. fs \in Seq(Reply) /\ t \in Bytes
    BY <1>1 DEF StreamsInv, StreamsTypeOK, Bytes
  <2>2. fs \in Seq(Frame)
    BY <2>1, ReplyAssumption, SeqMonotonic
  <2> QED BY <2>1, <2>2, LenProperties
<1>3. PICK read \in Bytes :
          /\ read \o t = Stream(fs)
          /\ replies[s] = Datagrams(parse(read).frames)
  BY DEF StreamsInv, StreamRead
<1>4. DeliveredBytes(s) = Len(read)
  <2>1. Len(Stream(fs)) = Len(read) + Len(t) /\ Len(read) \in Nat /\ Len(t) \in Nat
    <3> HIDE DEF t, fs
    <3>1. Len(read \o t) = Len(read) + Len(t) /\ Len(read) \in Nat /\ Len(t) \in Nat
      BY <1>2, ConcatFacts
    <3> QED BY <1>3, <3>1
  <2> QED BY <2>1 DEF DeliveredBytes
<1>5. PICK n \in 0..Len(fs) : WholeFrames(fs, read, n)
  <2> HIDE DEF fs, t
  <2> QED BY <1>2, <1>3, StreamCut
<1> DEFINE whole == SubSeq(fs, 1, n)
           b == Stream(whole)
<1>6. PICK c \in Bytes :
          /\ read = b \o c
          /\ \/ n = Len(fs) /\ c = << >>
             \/ /\ n < Len(fs) /\ Len(c) < Len(encodeFrame(fs[n + 1]))
                /\ \E y \in Bytes : c \o y = encodeFrame(fs[n + 1])
  BY <1>5 DEF WholeFrames
<1> HIDE DEF fs, t
<1>7. whole \in Seq(Frame) /\ b \in Bytes
  <2>1. \A i \in 1..n : fs[i] \in Frame
    BY <1>2, ElementOfSeq
  <2>2. whole \in Seq(Frame)
    BY <1>2, <2>1, SubSeqProperties
  <2> QED BY <2>2, StreamFacts
<1>8. parse(c).frames = << >>
  <2>1. CASE c = << >>
    <3>1. ~StartsWithFrame(c)
      BY <2>1 DEF StartsWithFrame, HEADER_SIZE
    <3>2. parse(c) = [frames |-> << >>, buffer |-> c]
      BY <3>1, ParseEquation
    <3> QED BY <3>2
  <2>2. CASE /\ n < Len(fs) /\ Len(c) < Len(encodeFrame(fs[n + 1]))
             /\ \E y \in Bytes : c \o y = encodeFrame(fs[n + 1])
    <3>1. fs[n + 1] \in Frame
      <4>1. n + 1 \in 1..Len(fs)
        BY <1>2, <2>2
      <4> QED BY <1>2, <4>1, ElementOfSeq
    <3>2. parse(c) = [frames |-> << >>, buffer |-> c]
      BY <2>2, <3>1, PartIsKept
    <3> QED BY <3>2
  <2> QED BY <1>6, <2>1, <2>2
<1>9. replies[s] = Due(whole)
  <2>1. parse(b \o c).frames = WellFormed(whole) \o parse(c).frames
    BY <1>7, FramesSurvive
  <2>2. WellFormed(whole) \o << >> = WellFormed(whole)
    BY <1>7, WellFormedFacts, ConcatEmptySeq
  <2>3. parse(read).frames = WellFormed(whole)
    BY <1>6, <1>8, <2>1, <2>2, Zenon
  <2>4. Due(whole) = Datagrams(WellFormed(whole))
    BY <1>7, DueIsKept
  <2> QED BY <1>3, <2>3, <2>4
<1>10. Len(read) = Len(b) + Len(c) /\ Len(b) \in Nat /\ Len(c) \in Nat
  <2> HIDE DEF b
  <2>1. Len(b \o c) = Len(b) + Len(c) /\ Len(b) \in Nat /\ Len(c) \in Nat
    BY <1>7, ConcatFacts
  <2> QED BY <1>6, <2>1
<1>11. n < Len(fs) => Len(read) < Len(Stream(SubSeq(fs, 1, n + 1)))
  <2> SUFFICES ASSUME n < Len(fs) PROVE Len(read) < Len(Stream(SubSeq(fs, 1, n + 1)))
    OBVIOUS
  <2> DEFINE o == << fs[n + 1] >>
             e == encodeFrame(fs[n + 1])
  <2>1. n + 1 \in 1..Len(fs) /\ 1 \in 1..Len(fs) /\ n + 1 \in 1..Len(fs) /\ (n + 1) - 1 = n
    BY <1>2
  <2>2. fs[n + 1] \in Frame
    BY <1>2, <2>1, ElementOfSeq
  <2>3. SubSeq(fs, 1, n + 1) = whole \o o
    <3>1. n + 1 \in 1..Len(fs) /\ SubSeq(fs, 1, (n + 1) - 1) = whole
      BY <2>1
    <3> QED BY <1>2, <2>1, <3>1, SubSeqRecursiveSecond
  <2>4. o \in Seq(Frame) /\ Stream(o) = e /\ e \in Bytes
    BY <2>2, StreamFacts, FrameSurvives
  <2> HIDE DEF o, whole
  <2>5. Stream(whole \o o) = b \o Stream(o)
    BY <1>7, <2>4, StreamFacts
  <2> HIDE DEF b, e
  <2>6. Len(b \o e) = Len(b) + Len(e) /\ Len(e) \in Nat
    BY <1>7, <2>4, ConcatFacts
  <2>7. Len(c) < Len(e)
    BY <1>2, <1>6 DEF e
  <2>8. Len(Stream(SubSeq(fs, 1, n + 1))) = Len(b) + Len(e)
    BY <2>3, <2>4, <2>5, <2>6
  <2> QED BY <1>10, <2>6, <2>7, <2>8
<1>12. Len(b) <= Len(read)
  BY <1>10
<1> QED BY <1>4, <1>5, <1>9, <1>11, <1>12 DEF fs, whole, b

\* However the stream of a session is cut into chunks, and however many frames of it
\* are malformed, its source has got the datagrams of the frames that have come in
\* whole, once each, in order
THEOREM RepliesComeInOrder == TunnelSpec => []RepliesInOrder
<1>1. StreamsInv => RepliesInOrder
  BY StreamsInOrder DEF RepliesInOrder
<1> QED BY <1>1, StreamsInvariance, PTL

-----------------------------------------------------------------------------
(* The consumers implement SocketPool *)

PoolView == <<availableSockets, Lent, Spent>>

\* What serves, what ends and what is removed lends no socket and returns none
LEMMA SameView ==
    ASSUME UNCHANGED <<availableSockets, upgrades, key, pairOf>>,
           \A t \in Socket : tcp'[t] = "closed" <=> tcp[t] = "closed"
    PROVE  UNCHANGED PoolView
<1>1. Lent' = Lent
  BY DEF Lent, Paired
<1>2. Spent' = Spent
  BY DEF Spent, Pooled
<1> QED BY <1>1, <1>2 DEF PoolView

LEMMA DestroyedKeepsOpenness ==
    ASSUME NEW S, tcp' = Destroyed(S)
    PROVE  \A t \in Socket : tcp'[t] = "closed" <=> tcp[t] = "closed"
BY DEF Destroyed, Live

LEMMA JoinStep ==
    ASSUME TInv, NEW s \in Socket, onConnection(s), UNCHANGED <<pairVars, sessionVars>>
    PROVE  Pool!Join(s)
<1>1. /\ ~Pooled(s) /\ key[s] = NoSource /\ pairOf[s] = NoExternal /\ s \notin upgrades
      /\ tcp[s] = "closed"
  BY DEF TInv, onConnection, PoolIsUp, Holders, HeldIsUp, Paired
<1>2. /\ availableSockets' = Append(availableSockets, s)
      /\ \A t \in Socket : tcp'[t] = IF t = s THEN "open" ELSE tcp[t]
      /\ UNCHANGED <<upgrades, key, pairOf>>
  BY DEF onConnection, pairVars, sessionVars, TInv, ControlTypeOK, SocketsTypeOK
<1>3. \A t : Pooled(t)' <=> Pooled(t) \/ t = s
  <2>1. NoDup(availableSockets) /\ ~In(s, availableSockets)
    BY <1>1, PoolIsIdleIsNoDup, PooledIsIn DEF TInv
  <2>2. \A t : In(t, availableSockets') <=> In(t, availableSockets) \/ t = s
    BY <2>1, <1>2, AppendNoDup DEF TInv, ControlTypeOK, SocketsTypeOK
  <2> QED BY <2>2 DEF Pooled, In
<1>4. Lent' = Lent /\ s \notin Lent
  BY <1>1, <1>2 DEF Lent, Paired
<1>5. Spent' = Spent /\ s \notin Spent
  BY <1>1, <1>2, <1>3 DEF Spent
<1> QED BY <1>1, <1>2, <1>4, <1>5 DEF Pool!Join, Pool!InPool, Pooled

\* A socket that is taken was the front, and nobody else gets one
LEMMA LendStep ==
    ASSUME TInv, NEW s \in Socket, createConnection(s),
           \A t \in Socket : tcp'[t] = "closed" <=> tcp[t] = "closed",
           \A t \in Socket : t # s =>
               /\ key'[t] = key[t] /\ pairOf'[t] = pairOf[t]
               /\ t \in upgrades' => t \in upgrades,
           upgrades' \subseteq Socket
    PROVE  Pool!Lend
<1>1. /\ \A t : Pooled(t)' <=> Pooled(t) /\ t # s
      /\ Pooled(s)
  BY ShiftFacts
<1>2. availableSockets # << >> /\ s = Head(availableSockets)
      /\ availableSockets' = Tail(availableSockets)
  BY DEF createConnection
<1>3. Spent' = Spent \cup {s}
  BY <1>1 DEF Spent, TInv, PoolIsUp
<1>4. Lent' \in SUBSET (Lent \cup {s})
  BY DEF Lent, Paired
<1> QED BY <1>2, <1>3, <1>4 DEF Pool!Lend

LEMMA CloseStep ==
    ASSUME TInv, NEW s \in Socket, SocketCloses(s) PROVE [Pool!PoolNext]_PoolView
<1>1. /\ \A t \in Socket : tcp'[t] = IF t = s THEN "closed" ELSE tcp[t]
      /\ \A t \in Socket : key'[t] = IF t = s THEN NoSource ELSE key[t]
      /\ \A t \in Socket : pairOf'[t] = IF t = s THEN NoExternal ELSE pairOf[t]
      /\ upgrades' = upgrades \ {s} /\ upgrades \subseteq Socket
      /\ availableSockets' = RemoveFirst(availableSockets, s)
      /\ tcp[s] = "destroyed"
  BY DEF SocketCloses, CloseEvent, PairHearsClose, SessionHearsClose, TInv,
     ControlTypeOK, SocketsTypeOK, PairsTypeOK, SessionsTypeOK
<1>2. NoDup(availableSockets) /\ availableSockets \in Seq(Socket)
  BY PoolIsIdleIsNoDup DEF TInv, ControlTypeOK, SocketsTypeOK
<1>3. \A t : Pooled(t)' <=> Pooled(t) /\ t # s
  <2>1. \A t : In(t, availableSockets') <=> In(t, availableSockets) /\ t # s
    BY <1>1, <1>2, RemoveFirstNoDup
  <2> QED BY <2>1 DEF Pooled, In
<1>4. Lent' = Lent \ {s}
  BY <1>1 DEF Lent, Paired
<1>5. CASE Pooled(s)
  <2>1. Spent' = Spent
    BY <1>1, <1>3, <1>5 DEF Spent
  <2>2. Lent' = Lent
    BY <1>4, <1>5 DEF Lent, Paired, TInv, PoolIsIdle
  <2>3. PICK k \in 1..Len(availableSockets) :
            availableSockets' = [j \in 1..(Len(availableSockets) - 1) |->
                IF j < k THEN availableSockets[j] ELSE availableSockets[j + 1]]
    <3>1. availableSockets' # availableSockets
      BY <1>3, <1>5 DEF Pooled
    <3> QED BY <3>1, <1>1, <1>2, RemoveFirstNoDup
  <2>4. Pool!Leave(k)
    BY <2>1, <2>2, <2>3 DEF Pool!Leave
  <2> QED BY <2>4 DEF Pool!PoolNext
<1>6. CASE ~Pooled(s)
  <2>1. availableSockets' = availableSockets
    BY <1>1, <1>6 DEF RemoveFirst, Pooled
  <2>2. Spent' = Spent \ {s}
    BY <1>1, <1>3 DEF Spent
  <2>3. Pool!Return(s)
    BY <1>4, <2>1, <2>2 DEF Pool!Return
  <2> QED BY <2>3 DEF Pool!PoolNext
<1> QED BY <1>5, <1>6

LEMMA SocketPoolStep ==
    ASSUME TInv, NEW s \in Socket, SocketOnly(s) PROVE [Pool!PoolNext]_PoolView
<1>0. UNCHANGED <<pairVars, sessionVars>> /\ UNCHANGED <<key, pairOf>>
  BY DEF SocketOnly, pairVars, sessionVars
<1>1. CASE onConnection(s)
  BY <1>0, <1>1, JoinStep DEF Pool!PoolNext
<1>2. CASE PeerCloses(s) \/ UpgradeEnds(s)
  <2>1. tcp' = Destroyed({s}) /\ UNCHANGED <<availableSockets, upgrades>>
    BY <1>2 DEF PeerCloses, UpgradeEnds
  <2>2. UNCHANGED PoolView
    BY <1>0, <2>1, DestroyedKeepsOpenness, SameView
  <2> QED BY <2>2
<1>3. CASE handleUpgrade(s) \/ UpgradeTooLate(s)
  <2>1. createConnection(s) /\ upgrades' \subseteq upgrades \cup {s}
    BY <1>3 DEF handleUpgrade, UpgradeTooLate
  <2>2. \A t \in Socket : tcp'[t] = "closed" <=> tcp[t] = "closed"
    BY <1>3, DestroyedKeepsOpenness DEF handleUpgrade, UpgradeTooLate
  <2>3. Pool!Lend
    BY <1>0, <2>1, <2>2, LendStep DEF TInv, ControlTypeOK, SocketsTypeOK
  <2> QED BY <2>3 DEF Pool!PoolNext
<1> QED BY <1>1, <1>2, <1>3 DEF SocketOnly, SocketStep

LEMMA PairPoolStep == ASSUME TInv, PairOnly PROVE [Pool!PoolNext]_PoolView
<1>0. UNCHANGED key /\ upgrades' = upgrades /\ upgrades \subseteq Socket
  BY DEF PairOnly, sessionVars, ExternalConnects, ExternalStep, ExternalEnds, ExternalFinishes,
     ExternalResets, ExternalCloseEvent, TunnelEnds, TunnelFinishes, socketVars,
     TInv, ControlTypeOK, SocketsTypeOK
<1>1. ASSUME NEW x \in External, ExternalConnects(x) PROVE [Pool!PoolNext]_PoolView
  <2>1. CASE ExternalRejected(x)
    BY <1>0, <2>1, SameView DEF ExternalRejected
  <2>2. CASE ExternalGetsDead(x) \/ ExternalPaired(x)
    <3>1. PICK s \in Socket :
              /\ createConnection(s) /\ UNCHANGED tcp
              /\ pairOf' = pairOf \/ pairOf' = [pairOf EXCEPT ![s] = x]
      BY <2>2 DEF ExternalGetsDead, ExternalPaired
    <3>2. \A t \in Socket : t # s => pairOf'[t] = pairOf[t]
      BY <3>1 DEF TInv, ControlTypeOK, PairsTypeOK
    <3>3. Pool!Lend
      BY <1>0, <3>1, <3>2, LendStep
    <3> QED BY <3>3 DEF Pool!PoolNext
  <2> QED BY <1>1, <2>1, <2>2 DEF ExternalConnects
<1>2. CASE \/ \E x \in External : ExternalStep(x)
           \/ \E s \in Socket : TunnelEnds(s) \/ TunnelFinishes(s)
  <2>1. UNCHANGED <<availableSockets, pairOf>>
    BY <1>2 DEF ExternalStep, ExternalEnds, ExternalFinishes, ExternalResets,
       ExternalCloseEvent, TunnelEnds, TunnelFinishes, socketVars, pairVars
  <2>2. tcp' = tcp \/ (\E S : tcp' = Destroyed(S))
           \/ \E s \in Socket : tcp[s] = "open" /\ tcp' = [tcp EXCEPT ![s] = "ended"]
    BY <1>2 DEF ExternalStep, ExternalEnds, ExternalFinishes, ExternalResets,
       ExternalCloseEvent, TunnelEnds, TunnelFinishes, socketVars
  <2>3. \A t \in Socket : tcp'[t] = "closed" <=> tcp[t] = "closed"
    BY <2>2, DestroyedKeepsOpenness DEF TInv, ControlTypeOK, SocketsTypeOK
  <2> QED BY <1>0, <2>1, <2>3, SameView
<1> QED BY <1>1, <1>2 DEF PairOnly

LEMMA SessionPoolStep == ASSUME TInv, SessionOnly PROVE [Pool!PoolNext]_PoolView
<1>0. UNCHANGED pairOf /\ upgrades' = upgrades /\ upgrades \subseteq Socket
  BY DEF SessionOnly, pairVars, ForwardDatagram, NewSession, SessionStep, ClientReplies,
     TunnelData, IdlePasses, SessionTimeout, SessionHearsError, socketVars, TInv,
     ControlTypeOK, SocketsTypeOK
<1>1. ASSUME NEW k \in Source, NewSession(k) PROVE [Pool!PoolNext]_PoolView
  <2>1. PICK s \in Socket :
            /\ createConnection(s) /\ UNCHANGED tcp
            /\ key' = key \/ key' = [key EXCEPT ![s] = k]
    BY <1>1 DEF NewSession
  <2>2. \A t \in Socket : t # s => key'[t] = key[t]
    BY <2>1 DEF TInv, ControlTypeOK, SessionsTypeOK
  <2>3. Pool!Lend
    BY <1>0, <2>1, <2>2, LendStep
  <2> QED BY <2>3 DEF Pool!PoolNext
<1>2. CASE \/ \E k \in Source : ForwardDatagram(k)
           \/ \E s \in Socket : SessionStep(s)
  <2>1. UNCHANGED <<availableSockets, key>>
    BY <1>2 DEF ForwardDatagram, SessionStep, ClientReplies, TunnelData, IdlePasses,
       SessionTimeout, SessionHearsError, socketVars
  <2>2. tcp' = tcp \/ \E S : tcp' = Destroyed(S)
    BY <1>2 DEF ForwardDatagram, SessionStep, ClientReplies, TunnelData, IdlePasses,
       SessionTimeout, SessionHearsError, socketVars
  <2>3. \A t \in Socket : tcp'[t] = "closed" <=> tcp[t] = "closed"
    BY <2>2, DestroyedKeepsOpenness
  <2> QED BY <1>0, <2>1, <2>3, SameView
<1> QED BY <1>1, <1>2 DEF SessionOnly

\* Pairs, sessions and websockets take the sockets of the pool oldest first, one
\* consumer each, and give none back
THEOREM ConsumersUsePool == TunnelSpec => UsesPool
<1>1. TunnelInit => Pool!PoolInit
  BY DEF TunnelInit, SocketsInit, PairsInit, SessionsInit, Pool!PoolInit, Lent, Paired, Spent
<1>2. TInv /\ [TunnelNext]_tunnelVars => [Pool!PoolNext]_PoolView
  <2> SUFFICES ASSUME TInv, [TunnelNext]_tunnelVars PROVE [Pool!PoolNext]_PoolView
    OBVIOUS
  <2>1. CASE UNCHANGED tunnelVars
    BY <2>1, SameView DEF tunnelVars, socketVars, pairVars, sessionVars
  <2>2. CASE close
    <3>1. /\ UNCHANGED <<availableSockets, upgrades, key, pairOf>>
          /\ tcp' = Destroyed(activePairs \cup Mapped)
      BY <2>2 DEF close, destroyPairs, destroySessions
    <3> QED BY <3>1, DestroyedKeepsOpenness, SameView
  <2> QED BY <2>1, <2>2, SocketPoolStep, PairPoolStep, SessionPoolStep, CloseStep
          DEF TunnelNext
<1> QED BY <1>1, <1>2, TunnelInvariance, PTL
        DEF TunnelSpec, UsesPool, Pool!PoolSpec, PoolView, Pool!poolVars
=============================================================================
