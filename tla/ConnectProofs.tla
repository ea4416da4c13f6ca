---------------------------- MODULE ConnectProofs -----------------------------
(***************************************************************************)
(* Proofs about Connect for any number of goroutines, any list of COPs,    *)
(* any set of SSL modes and any number of refused keys.                    *)
(***************************************************************************)
EXTENDS Connect, SequenceTheorems, TLAPS

-----------------------------------------------------------------------------
(* The inductive invariant.                                                *)

Labels == {"idle", "check", "reset", "lookup", "append", "write", "settle", "pick",
           "dial", "tls", "ws", "up", "failed", "panic", "absent"}
Errors == {"none", "host", "noAddress", "dial", "tls", "ws", "logon"}
Addresses == 0..MaxCops
Certificates == SUBSET {"chain", "host"}

\* The values of the connector's variables.
Options == /\ level \in 0..5 /\ copMode \in BOOLEAN
           /\ cops \in 0..MaxCops /\ lastCop \in 0..cops /\ hostKnown \in BOOLEAN
Shared == discovered \in Seq(Addresses) /\ raced \in BOOLEAN
Places == pc \in [Conns -> Labels]
Search == /\ cop \in [Conns -> 1..(MaxCops + 1)] /\ got \in [Conns -> Addresses]
          /\ snap \in [Conns -> Seq(Addresses)]
Dial == /\ cnt \in [Conns -> Nat] /\ idx \in [Conns -> Nat] /\ start \in [Conns -> Nat]
        /\ tried \in [Conns -> SUBSET Addresses] /\ fallback \in [Conns -> BOOLEAN]
Indexes == \A g \in Conns : cnt[g] = 0 \/ (idx[g] \in 0..(cnt[g] - 1) /\ start[g] \in 0..(cnt[g] - 1))
\* A goroutine dials from a list that was not empty.
ListToDial == \A g \in Conns : pc[g] = "dial" => cnt[g] # 0
Link == /\ sock \in [Conns -> BOOLEAN] /\ tls \in [Conns -> BOOLEAN]
        /\ cert \in [Conns -> Certificates] /\ err \in [Conns -> Errors]

Types == Options /\ Shared /\ Places /\ Search /\ Dial /\ Indexes /\ Link /\ ListToDial

\* What a goroutine's connection has gone through so far.
SecureSoFar(g) ==
    /\ sock[g] => pc[g] \in {"tls", "ws", "up"}
    /\ tls[g] => pc[g] \in {"up", "failed"} /\ UseTls /\ VerifyCert(cert[g])
    /\ fallback[g] => AllowTlsFallback
    /\ pc[g] \in {"tls", "ws"} => UseTls
    /\ pc[g] = "ws" => VerifyCert(cert[g])
    /\ pc[g] = "up" /\ level >= Levels.REQUIRE => tls[g]

Secure == \A g \in Conns : SecureSoFar(g)

-----------------------------------------------------------------------------
(* Types.                                                                  *)

\* An unknown mode is a level too.
LEMMA LevelType == \A m : DecodeSslMode(m) \in 0..5
<1> SUFFICES ASSUME NEW m PROVE DecodeSslMode(m) \in 0..5
  OBVIOUS
<1>1. CASE m \in DOMAIN Levels
  BY <1>1 DEF DecodeSslMode, Levels
<1>2. CASE m \notin DOMAIN Levels
  BY <1>2 DEF DecodeSslMode, Levels
<1> QED BY <1>1, <1>2

\* The types hold at the start.
LEMMA InitTypes == Init => Types
<1> SUFFICES ASSUME Init PROVE Types
  OBVIOUS
<1> USE DEF Init, ConnectorInit
<1>1. Options
  <2>1. level \in 0..5
    BY LevelType
  <2>2. copMode \in BOOLEAN /\ hostKnown \in BOOLEAN
    OBVIOUS
  <2>3. cops \in 0..MaxCops /\ lastCop \in 0..cops
    BY MaxCopsAssumption
  <2> QED BY <2>1, <2>2, <2>3 DEF Options
<1>2. Shared
  <2>1. discovered \in Seq(Addresses)
    OBVIOUS
  <2>2. raced \in BOOLEAN
    BY Zenon
  <2> QED BY <2>1, <2>2 DEF Shared
<1>3. Places
  BY DEF Places, Labels
<1>4. Search
  BY MaxCopsAssumption DEF Search, Addresses, Host
<1>5. Dial /\ Indexes
  BY DEF Dial, Indexes
<1>6. Link
  BY DEF Link, Certificates, Errors
<1>7. ListToDial
  <2> SUFFICES ASSUME NEW g \in Conns PROVE pc[g] # "dial"
    BY DEF ListToDial
  <2> QED OBVIOUS
<1> QED BY <1>1, <1>2, <1>3, <1>4, <1>5, <1>6, <1>7 DEF Types

\* The index moves on within the list.
LEMMA NextIndexIs ==
    ASSUME NEW c \in Nat \ {0}, NEW i \in 0..(c - 1)
    PROVE  (i + 1) % c = IF i + 1 < c THEN i + 1 ELSE 0
OBVIOUS

\* A goroutine comes to dial only with a list, which it then keeps.
LEMMA ListToDialKeeps ==
    ASSUME Types, NEW g \in Conns, ConnectorStep(g)
    PROVE  ListToDial'
<1>1. Places /\ Dial /\ Shared /\ ListToDial
  BY DEF Types
<1>2. SUFFICES ASSUME NEW h \in Conns, pc'[h] = "dial"
               PROVE  cnt'[h] # 0
  BY Zenon DEF ListToDial
<1>3. CASE Pick(g)
  <2>1. CASE h = g
    <3>1. discovered # <<>> /\ cnt' = [cnt EXCEPT ![g] = Len(discovered)]
      BY <1>1, <1>2, <1>3, <2>1 DEF Pick, Goto, Places
    <3>2. Len(discovered) # 0
      BY <1>1, <3>1 DEF Shared
    <3> QED BY <1>1, <2>1, <3>1, <3>2, Zenon DEF Dial
  <2>2. CASE h # g
    <3>1. pc'[h] = pc[h] /\ cnt'[h] = cnt[h]
      BY <1>1, <1>3, <2>2 DEF Pick, Goto, Places, Dial
    <3> QED BY <1>1, <1>2, <3>1 DEF ListToDial
  <2> QED BY <2>1, <2>2
<1>4. CASE DialFail(g)
  <2>1. cnt' = cnt /\ pc[g] = "dial"
    BY <1>4, Zenon DEF DialFail
  <2>2. pc[h] = "dial"
    BY <1>1, <1>2, <1>4, <2>1 DEF DialFail, GiveUp, Goto, Places
  <2> QED BY <1>1, <2>1, <2>2, Zenon DEF ListToDial
<1>5. CASE DialOk(g)
  <2>1. h # g /\ pc[h] = "dial"
    BY <1>1, <1>2, <1>5 DEF DialOk, Goto, Places
  <2>2. cnt'[h] = cnt[h]
    BY <1>1, <1>5, <2>1 DEF DialOk, ForgetDial, Dial, dial
  <2> QED BY <1>1, <2>1, <2>2, Zenon DEF ListToDial
<1>6. CASE UpgradeWebSocket(g)
  <2>1. h # g /\ pc[h] = "dial"
    BY <1>1, <1>2, <1>6 DEF UpgradeWebSocket, Goto, Places
  <2>2. cnt'[h] = cnt[h]
    BY <1>1, <1>6, <2>1 DEF UpgradeWebSocket, ForgetDial, Dial
  <2> QED BY <1>1, <2>1, <2>2, Zenon DEF ListToDial
<1>7. CASE \/ Check(g) \/ Reset(g) \/ LookupCop(g) \/ LookupHost(g) \/ AppendRead(g)
           \/ AppendWrite(g) \/ IndexPanic(g)
  <2>1. cnt' = cnt
    BY <1>7, Zenon DEF Check, Reset, LookupCop, LookupHost, AppendRead, AppendWrite, IndexPanic, dial
  <2>2. pc[h] = "dial"
    BY <1>1, <1>2, <1>7 DEF Check, Reset, LookupCop, LookupHost, AppendRead, AppendWrite, IndexPanic,
                            Goto, Places
  <2> QED BY <1>1, <2>1, <2>2, Zenon DEF ListToDial
<1>8. CASE TlsHandshake(g) \/ TlsFail(g)
  <2>1. cnt' = cnt
    BY <1>8, Zenon DEF TlsHandshake, TlsFail
  <2>2. pc[h] = "dial"
    BY <1>1, <1>2, <1>8 DEF TlsHandshake, TlsFail, GiveUp, Goto, Places
  <2> QED BY <1>1, <2>1, <2>2, Zenon DEF ListToDial
<1> QED BY <1>3, <1>4, <1>5, <1>6, <1>7, <1>8 DEF ConnectorStep

\* Giving up keeps the types of what it changes.
LEMMA GivingUpTypes ==
    ASSUME Types, NEW g \in Conns, NEW e \in Errors, GiveUp(g, e), tls' = tls
    PROVE  Places' /\ Link' /\ fallback' \in [Conns -> BOOLEAN]
<1>0. Places /\ Dial /\ Link
  BY DEF Types
<1>1. fallback' = fallback \/ fallback' = [fallback EXCEPT ![g] = TRUE]
  BY Zenon DEF GiveUp
<1>2. fallback' \in [Conns -> BOOLEAN]
  BY <1>0, <1>1, Zenon DEF Dial
<1>3. Places'
  <2>1. pc' = [pc EXCEPT ![g] = "check"] \/ pc' = [pc EXCEPT ![g] = "failed"]
    BY Zenon DEF GiveUp, Goto
  <2> QED BY <1>0, <2>1 DEF Places, Labels
<1>4. err' \in [Conns -> Errors]
  <2>1. err' = err \/ err' = [err EXCEPT ![g] = e]
    BY Zenon DEF GiveUp
  <2> QED BY <1>0, <2>1, Zenon DEF Link
<1>5. sock' \in [Conns -> BOOLEAN] /\ cert' \in [Conns -> Certificates]
  <2>1. sock' = [sock EXCEPT ![g] = FALSE] /\ cert' = [cert EXCEPT ![g] = {}]
    BY Zenon DEF GiveUp
  <2>2. {} \in Certificates
    BY DEF Certificates
  <2> QED BY <1>0, <2>1, <2>2, Zenon DEF Link
<1> QED BY <1>0, <1>2, <1>3, <1>4, <1>5, Zenon DEF Link

\* The types hold after every step of a goroutine.
LEMMA TypesKeep ==
    ASSUME Types, NEW g \in Conns, ConnectorStep(g)
    PROVE  Types'
<1>0. Options /\ Shared /\ Places /\ Search /\ Dial /\ Indexes /\ Link /\ ListToDial
  BY DEF Types
<1>l. ListToDial'
  BY ListToDialKeeps
<1> USE DEF dns, options, shared, search, dial, link, Goto
<1>1. CASE Check(g)
  <2>1. Options' /\ Search' /\ Dial' /\ Indexes' /\ Link'
    BY <1>0, <1>1 DEF Check, Options, Search, Dial, Indexes, Link
  <2>2. Shared' /\ Places'
    BY <1>0, <1>1 DEF Check, Shared, Places, Labels
  <2> QED BY <1>l, <2>1, <2>2 DEF Types
<1>2. CASE Reset(g)
  <2>1. Options' /\ Dial' /\ Indexes' /\ Link'
    BY <1>0, <1>2 DEF Reset, Options, Dial, Indexes, Link
  <2>2. Shared' /\ Places'
    BY <1>0, <1>2 DEF Reset, Shared, Places, Labels
  <2>3. Search'
    BY <1>0, <1>2, MaxCopsAssumption DEF Reset, Search
  <2> QED BY <1>l, <2>1, <2>2, <2>3 DEF Types
<1>3. CASE LookupCop(g)
  <2>1. Options' /\ Dial' /\ Indexes' /\ Link'
    BY <1>0, <1>3 DEF LookupCop, Options, Dial, Indexes, Link
  <2>2. Shared' /\ Places'
    BY <1>0, <1>3 DEF LookupCop, Shared, Places, Labels
  <2>3. Search'
    <3>1. cop[g] \in 1..(MaxCops + 1) /\ cops \in 0..MaxCops
      BY <1>0 DEF Search, Options
    <3>2. snap' \in [Conns -> Seq(Addresses)]
      BY <1>0, <1>3, Zenon DEF LookupCop, Search
    <3>3. CASE EndOfCops(cop[g])
      <4> cop' = cop /\ got' = got
        BY <1>3, <3>3, Zenon DEF LookupCop
      <4> QED BY <1>0, <3>2, Zenon DEF Search
    <3>4. CASE ~EndOfCops(cop[g])
      <4>1. got' = [got EXCEPT ![g] = cop[g]] /\ cop' = [cop EXCEPT ![g] = cop[g] + 1]
        BY <1>3, <3>4, Zenon DEF LookupCop
      <4>2. cop[g] \in 1..MaxCops
        BY <3>1, <3>4, MaxCopsAssumption DEF EndOfCops
      <4>3. cop[g] + 1 \in 1..(MaxCops + 1) /\ cop[g] \in Addresses
        BY <4>2, MaxCopsAssumption DEF Addresses
      <4>4. cop' \in [Conns -> 1..(MaxCops + 1)] /\ got' \in [Conns -> Addresses]
        BY <1>0, <4>1, <4>3, Zenon DEF Search
      <4> QED BY <3>2, <4>4, Zenon DEF Search
    <3> QED BY <3>3, <3>4
  <2> QED BY <1>l, <2>1, <2>2, <2>3 DEF Types
<1>4. CASE LookupHost(g)
  <2>1. Options' /\ Dial' /\ Indexes'
    BY <1>0, <1>4 DEF LookupHost, Options, Dial, Indexes
  <2>2. Shared' /\ Places'
    BY <1>0, <1>4 DEF LookupHost, Shared, Places, Labels
  <2>3. got' \in [Conns -> Addresses]
    <3> Host \in Addresses
      BY MaxCopsAssumption DEF Addresses, Host
    <3> got' = got \/ got' = [got EXCEPT ![g] = Host]
      BY <1>4, Zenon DEF LookupHost
    <3> QED BY <1>0, Zenon DEF Search
  <2>4. Search'
    BY <1>0, <1>4, <2>3, Zenon DEF LookupHost, Search
  <2>5. Link'
    BY <1>0, <1>4 DEF LookupHost, Link, Errors
  <2> QED BY <1>l, <2>1, <2>2, <2>4, <2>5 DEF Types
<1>5. CASE AppendRead(g)
  <2>1. Options' /\ Dial' /\ Indexes' /\ Link'
    BY <1>0, <1>5 DEF AppendRead, Options, Dial, Indexes, Link
  <2>2. Shared' /\ Places'
    BY <1>0, <1>5 DEF AppendRead, Shared, Places, Labels
  <2>3. Search'
    BY <1>0, <1>5 DEF AppendRead, Search, Shared
  <2> QED BY <1>l, <2>1, <2>2, <2>3 DEF Types
<1>6. CASE AppendWrite(g)
  <2>1. Options' /\ Dial' /\ Indexes' /\ Link' /\ Search'
    BY <1>0, <1>6 DEF AppendWrite, Options, Dial, Indexes, Link, Search
  <2>2. Shared' /\ Places'
    BY <1>0, <1>6 DEF AppendWrite, Shared, Places, Labels, Search
  <2> QED BY <1>l, <2>1, <2>2 DEF Types
<1>7. CASE Pick(g)
  <2>1. Options' /\ Shared' /\ Places' /\ Link'
    BY <1>0, <1>7 DEF Pick, Options, Shared, Places, Labels, Link, Errors
  <2>2. Search'
    BY <1>0, <1>7, MaxCopsAssumption DEF Pick, ForgetSearch, Search, Addresses, Host
  <2>3. Dial' /\ Indexes'
    <3>1. CASE discovered = <<>>
      BY <1>0, <1>7, <3>1 DEF Pick, Dial, Indexes
    <3>2. CASE discovered # <<>>
      <4>1. PICK i \in 0..(Len(discovered) - 1) : idx' = [idx EXCEPT ![g] = i]
        BY <1>7, <3>2, Zenon DEF Pick
      <4>2. cnt' = [cnt EXCEPT ![g] = Len(discovered)] /\ start' = [start EXCEPT ![g] = idx'[g]]
            /\ tried' = [tried EXCEPT ![g] = {}] /\ fallback' = fallback
        BY <1>7, <3>2, Zenon DEF Pick
      <4>3. Len(discovered) \in Nat /\ i \in Nat
        BY <1>0, <4>1 DEF Shared
      <4> HIDE DEF dial
      <4>4. idx'[g] = i
        BY <1>0, <4>1, Zenon DEF Dial
      <4>5. Dial'
        BY <1>0, <4>1, <4>2, <4>3, <4>4, Zenon DEF Dial
      <4>6. ASSUME NEW h \in Conns
            PROVE  cnt'[h] = 0 \/ (idx'[h] \in 0..(cnt'[h] - 1) /\ start'[h] \in 0..(cnt'[h] - 1))
        <5>1. CASE h = g
          BY <1>0, <4>1, <4>2, <4>4, <5>1, Zenon DEF Dial
        <5>2. CASE h # g
          <6> cnt'[h] = cnt[h] /\ idx'[h] = idx[h] /\ start'[h] = start[h]
            BY <1>0, <4>1, <4>2, <5>2, Zenon DEF Dial
          <6> QED BY <1>0, Zenon DEF Indexes
        <5> QED BY <5>1, <5>2
      <4>7. Indexes'
        BY <4>6, Zenon DEF Indexes
      <4> QED BY <4>5, <4>7
    <3> QED BY <3>1, <3>2
  <2> QED BY <1>l, <2>1, <2>2, <2>3 DEF Types
<1>8. CASE IndexPanic(g)
  BY <1>0, <1>l, <1>8 DEF IndexPanic, Types, Options, Shared, Places, Labels, Search, Dial, Indexes, Link
<1>9. CASE DialOk(g)
  <2>1. Options' /\ Shared' /\ Places' /\ Search' /\ Link'
    BY <1>0, <1>9 DEF DialOk, Options, Shared, Places, Labels, Search, Link
  <2>2. Dial' /\ Indexes'
    <3>1. CASE UsingTlsPort(g)
      BY <1>0, <1>9, <3>1 DEF DialOk, Dial, Indexes
    <3>2. CASE ~UsingTlsPort(g)
      <4> ForgetDial(g)
        BY <1>9, <3>2, Zenon DEF DialOk
      <4> QED BY <1>0 DEF ForgetDial, Dial, Indexes
    <3> QED BY <3>1, <3>2
  <2> QED BY <1>l, <2>1, <2>2 DEF Types
<1>10. CASE DialFail(g)
  <2>1. Options' /\ Shared' /\ Search'
    BY <1>0, <1>10 DEF DialFail, Options, Shared, Search
  <2>2. Places' /\ Link'
    <3>1. CASE GiveUp(g, "dial")
      <4>1. "dial" \in Errors /\ tls' = tls
        BY <1>10 DEF DialFail, Errors
      <4> QED BY <3>1, <4>1, GivingUpTypes
    <3>2. CASE ~GiveUp(g, "dial")
      <4> pc' = pc /\ sock' = sock /\ cert' = cert /\ err' = err /\ tls' = tls
        BY <1>10, <3>2, Zenon DEF DialFail
      <4> QED BY <1>0, Zenon DEF Places, Link
    <3> QED BY <3>1, <3>2
  <2>3. Dial' /\ Indexes'
    <3>1. cnt' = cnt /\ start' = start /\ idx' = [idx EXCEPT ![g] = NextIndex(g)]
          /\ tried' = [tried EXCEPT ![g] = @ \cup {discovered[idx[g] + 1]}]
          /\ pc[g] = "dial" /\ idx[g] < Len(discovered)
      BY <1>10, Zenon DEF DialFail
    <3>2. idx[g] \in Nat /\ discovered \in Seq(Addresses)
      BY <1>0 DEF Dial, Shared
    <3>3. discovered[idx[g] + 1] \in Addresses
      BY <3>1, <3>2
    <3>4. fallback' \in [Conns -> BOOLEAN]
      <4> fallback' = fallback \/ fallback' = [fallback EXCEPT ![g] = TRUE]
        BY <1>10, Zenon DEF DialFail, GiveUp
      <4> QED BY <1>0, Zenon DEF Dial
    <3>5. cnt[g] \in Nat \ {0} /\ idx[g] \in 0..(cnt[g] - 1)
      BY <1>0, <3>1, Zenon DEF Dial, Indexes, ListToDial
    <3>6. NextIndex(g) \in 0..(cnt[g] - 1)
      <4>1. \A c \in Nat \ {0} : \A i \in 0..(c - 1) : (i + 1) % c \in 0..(c - 1)
        BY NextIndexIs
      <4> QED BY <3>5, <4>1, Zenon DEF NextIndex
    <3>7. NextIndex(g) \in Nat
      BY <3>5, <3>6
    <3>8. idx' \in [Conns -> Nat] /\ tried' \in [Conns -> SUBSET Addresses]
      BY <1>0, <3>1, <3>3, <3>7 DEF Dial
    <3>9. ASSUME NEW h \in Conns
          PROVE  cnt[h] = 0 \/ (idx'[h] \in 0..(cnt[h] - 1) /\ start[h] \in 0..(cnt[h] - 1))
      <4>1. CASE h = g
        <5> idx'[h] = NextIndex(g)
          BY <1>0, <3>1, <4>1, Zenon DEF Dial
        <5> QED BY <1>0, <3>5, <3>6, <4>1, Zenon DEF Indexes
      <4>2. CASE h # g
        <5> idx'[h] = idx[h]
          BY <1>0, <3>1, <4>2, Zenon DEF Dial
        <5> QED BY <1>0, Zenon DEF Indexes
      <4> QED BY <4>1, <4>2
    <3>10. Dial'
      BY <1>0, <3>1, <3>4, <3>8, Zenon DEF Dial
    <3>11. Indexes'
      BY <3>1, <3>9, Zenon DEF Indexes
    <3> QED BY <3>10, <3>11
  <2> QED BY <1>l, <2>1, <2>2, <2>3 DEF Types
<1>11. CASE TlsHandshake(g)
  <2>1. Options' /\ Shared' /\ Search'
    BY <1>0, <1>11, Zenon DEF TlsHandshake, Options, Shared, Search
  <2>2. cnt' = cnt /\ idx' = idx /\ start' = start /\ tried' = tried /\ tls' = tls
    BY <1>11, Zenon DEF TlsHandshake
  <2>3. Places' /\ Link' /\ fallback' \in [Conns -> BOOLEAN]
    <3>1. CASE GiveUp(g, "tls")
      <4>1. "tls" \in Errors
        BY DEF Errors
      <4> QED BY <2>2, <3>1, <4>1, GivingUpTypes
    <3>2. CASE ~GiveUp(g, "tls")
      <4>1. PICK c \in SUBSET {"chain", "host"} :
               /\ pc' = [pc EXCEPT ![g] = "ws"] /\ cert' = [cert EXCEPT ![g] = c]
               /\ fallback' = fallback /\ sock' = sock /\ err' = err
        BY <1>11, <3>2, Zenon DEF TlsHandshake
      <4>2. Places'
        BY <1>0, <4>1 DEF Places, Labels
      <4>3. cert' \in [Conns -> Certificates]
        BY <1>0, <4>1, Zenon DEF Link, Certificates
      <4> QED BY <1>0, <2>2, <4>1, <4>2, <4>3, Zenon DEF Link, Dial
    <3> QED BY <3>1, <3>2
  <2>4. Dial' /\ Indexes'
    BY <1>0, <2>2, <2>3, Zenon DEF Dial, Indexes
  <2> QED BY <1>l, <2>1, <2>3, <2>4 DEF Types
<1>12. CASE UpgradeWebSocket(g)
  <2>1. Options' /\ Shared' /\ Places' /\ Search' /\ Link'
    BY <1>0, <1>12 DEF UpgradeWebSocket, Options, Shared, Places, Labels, Search, Link
  <2>2. Dial' /\ Indexes'
    BY <1>0, <1>12 DEF UpgradeWebSocket, ForgetDial, Dial, Indexes
  <2> QED BY <1>l, <2>1, <2>2 DEF Types
<1>13. CASE TlsFail(g)
  <2>1. Options' /\ Shared' /\ Search'
    BY <1>0, <1>13, Zenon DEF TlsFail, Options, Shared, Search
  <2>2. cnt' = cnt /\ idx' = idx /\ start' = start /\ tried' = tried /\ tls' = tls
    BY <1>13, Zenon DEF TlsFail
  <2>3. Places' /\ Link' /\ fallback' \in [Conns -> BOOLEAN]
    <3>1. pc[g] \in Errors /\ GiveUp(g, pc[g])
      BY <1>13 DEF TlsFail, Errors
    <3> QED BY <2>2, <3>1, GivingUpTypes
  <2>4. Dial' /\ Indexes'
    BY <1>0, <2>2, <2>3, Zenon DEF Dial, Indexes
  <2> QED BY <1>l, <2>1, <2>3, <2>4 DEF Types
<1> QED BY <1>1, <1>2, <1>3, <1>4, <1>5, <1>6, <1>7, <1>8, <1>9, <1>10, <1>11, <1>12, <1>13 DEF ConnectorStep

\* A step of a goroutine leaves the others where they are, and the options alone.
Same(h) ==
    /\ pc'[h] = pc[h] /\ cop'[h] = cop[h] /\ got'[h] = got[h] /\ snap'[h] = snap[h]
    /\ cnt'[h] = cnt[h] /\ idx'[h] = idx[h] /\ start'[h] = start[h] /\ tried'[h] = tried[h]
    /\ fallback'[h] = fallback[h] /\ sock'[h] = sock[h] /\ tls'[h] = tls[h]
    /\ cert'[h] = cert[h] /\ err'[h] = err[h]

\* What belongs to another goroutine stays as it is.
LEMMA OthersStay ==
    ASSUME Types, NEW g \in Conns, ConnectorStep(g), NEW h \in Conns, h # g
    PROVE  Same(h)
<1>0. Places /\ Search /\ Dial /\ Link
  BY DEF Types
<1> USE DEF dns, options, shared, search, dial, link, Goto
<1>1. CASE Check(g)
  BY <1>0, <1>1 DEF Check, Same, Places
<1>2. CASE Reset(g)
  BY <1>0, <1>2 DEF Reset, Same, Places, Search
<1>3. CASE LookupCop(g)
  <2>1. pc'[h] = pc[h]
    BY <1>0, <1>3 DEF LookupCop, Places
  <2>2. cop'[h] = cop[h] /\ got'[h] = got[h]
    BY <1>0, <1>3 DEF LookupCop, Search
  <2> QED BY <1>3, <2>1, <2>2 DEF LookupCop, Same
<1>4. CASE LookupHost(g)
  <2>1. pc'[h] = pc[h]
    BY <1>0, <1>4 DEF LookupHost, Places
  <2>2. err'[h] = err[h] /\ got'[h] = got[h]
    BY <1>0, <1>4 DEF LookupHost, Search, Link
  <2> QED BY <1>4, <2>1, <2>2 DEF LookupHost, Same
<1>5. CASE AppendRead(g)
  BY <1>0, <1>5 DEF AppendRead, Same, Places, Search
<1>6. CASE AppendWrite(g)
  BY <1>0, <1>6 DEF AppendWrite, Same, Places
<1>7. CASE Pick(g)
  <2>1. pc'[h] = pc[h] /\ err'[h] = err[h]
    BY <1>0, <1>7 DEF Pick, Places, Link
  <2>2. cop'[h] = cop[h] /\ got'[h] = got[h] /\ snap'[h] = snap[h]
    BY <1>0, <1>7 DEF Pick, ForgetSearch, Search
  <2>3. cnt'[h] = cnt[h] /\ idx'[h] = idx[h] /\ start'[h] = start[h] /\ tried'[h] = tried[h]
    BY <1>0, <1>7 DEF Pick, Dial
  <2> QED BY <1>7, <2>1, <2>2, <2>3 DEF Pick, Same
<1>8. CASE IndexPanic(g)
  BY <1>0, <1>8 DEF IndexPanic, Same, Places
<1>9. CASE DialOk(g)
  <2>1. pc'[h] = pc[h] /\ sock'[h] = sock[h]
    BY <1>0, <1>9 DEF DialOk, Places, Link
  <2>2. /\ cnt'[h] = cnt[h] /\ idx'[h] = idx[h] /\ start'[h] = start[h] /\ tried'[h] = tried[h]
        /\ fallback'[h] = fallback[h]
    BY <1>0, <1>9 DEF DialOk, ForgetDial, Dial
  <2> QED BY <1>9, <2>1, <2>2 DEF DialOk, Same
<1>10. CASE DialFail(g)
  <2>1. pc'[h] = pc[h] /\ sock'[h] = sock[h] /\ err'[h] = err[h] /\ cert'[h] = cert[h]
    BY <1>0, <1>10 DEF DialFail, GiveUp, Places, Link
  <2>2. idx'[h] = idx[h] /\ tried'[h] = tried[h] /\ fallback'[h] = fallback[h]
    BY <1>0, <1>10 DEF DialFail, GiveUp, Dial
  <2> QED BY <1>10, <2>1, <2>2 DEF DialFail, Same
<1>11. CASE TlsHandshake(g)
  <2>1. /\ pc'[h] = pc[h] /\ sock'[h] = sock[h] /\ err'[h] = err[h] /\ cert'[h] = cert[h]
        /\ fallback'[h] = fallback[h]
    BY <1>0, <1>11 DEF TlsHandshake, GiveUp, Places, Link, Dial
  <2> QED BY <1>11, <2>1 DEF TlsHandshake, Same
<1>12. CASE UpgradeWebSocket(g)
  <2>1. pc'[h] = pc[h] /\ tls'[h] = tls[h]
    BY <1>0, <1>12 DEF UpgradeWebSocket, Places, Link
  <2>2. /\ cnt'[h] = cnt[h] /\ idx'[h] = idx[h] /\ start'[h] = start[h] /\ tried'[h] = tried[h]
        /\ fallback'[h] = fallback[h]
    BY <1>0, <1>12 DEF UpgradeWebSocket, ForgetDial, Dial
  <2> QED BY <1>12, <2>1, <2>2 DEF UpgradeWebSocket, Same
<1>13. CASE TlsFail(g)
  <2>1. /\ pc'[h] = pc[h] /\ sock'[h] = sock[h] /\ err'[h] = err[h] /\ cert'[h] = cert[h]
        /\ fallback'[h] = fallback[h]
    BY <1>0, <1>13 DEF TlsFail, GiveUp, Places, Link, Dial
  <2> QED BY <1>13, <2>1 DEF TlsFail, Same
<1> QED BY <1>1, <1>2, <1>3, <1>4, <1>5, <1>6, <1>7, <1>8, <1>9, <1>10, <1>11, <1>12, <1>13 DEF ConnectorStep

\* The options and the name service are fixed.
LEMMA OptionsStay ==
    ASSUME NEW g \in Conns, ConnectorStep(g)
    PROVE  /\ level' = level /\ copMode' = copMode
           /\ cops' = cops /\ lastCop' = lastCop /\ hostKnown' = hostKnown
BY DEF ConnectorStep, Check, Reset, LookupCop, LookupHost, AppendRead, AppendWrite, Pick, IndexPanic,
       DialOk, DialFail, TlsHandshake, UpgradeWebSocket, TlsFail, dns, options

-----------------------------------------------------------------------------
(* Connections are as secure as asked.                                     *)

\* Connections begin closed.
LEMMA InitSecure == Init => Secure
<1> SUFFICES ASSUME Init, NEW g \in Conns PROVE SecureSoFar(g)
  BY DEF Secure
<1>1. ~sock[g] /\ ~tls[g] /\ ~fallback[g]
  BY Zenon DEF Init, ConnectorInit
<1>2. pc[g] \in {"idle", "absent"}
  BY DEF Init, ConnectorInit
<1> QED BY <1>1, <1>2 DEF SecureSoFar

\* Giving up closes the socket and falls back only where that is allowed.
LEMMA GivingUp ==
    ASSUME Types, Secure, NEW g \in Conns, NEW e, GiveUp(g, e), tls' = tls, level' = level,
           pc[g] \notin {"up", "failed"}
    PROVE  SecureSoFar(g)'
<1>0. Places /\ Dial /\ Link /\ SecureSoFar(g)
  BY DEF Types, Secure
<1>1. ~tls'[g] /\ ~sock'[g]
  BY <1>0 DEF SecureSoFar, GiveUp, Link
<1>2. pc'[g] \in {"check", "failed"}
  BY <1>0 DEF GiveUp, Goto, Places
<1>3. fallback'[g] => AllowTlsFallback'
  <2>1. CASE UsingTlsPort(g) /\ AllowTlsFallback
    BY <2>1, Zenon DEF AllowTlsFallback
  <2>2. CASE ~(UsingTlsPort(g) /\ AllowTlsFallback)
    <3> fallback' = fallback
      BY <2>2, Zenon DEF GiveUp
    <3> QED BY <1>0, Zenon DEF SecureSoFar, AllowTlsFallback
  <2> QED BY <2>1, <2>2
<1> QED BY <1>1, <1>2, <1>3 DEF SecureSoFar

\* A step of a goroutine keeps every connection as secure as asked.
LEMMA SecureKeeps ==
    ASSUME Types, Secure, NEW g \in Conns, ConnectorStep(g)
    PROVE  Secure'
<1>0. Options /\ Places /\ Dial /\ Link /\ SecureSoFar(g)
  BY DEF Types, Secure
<1>l. level' = level
  BY OptionsStay
<1>o. ASSUME NEW h \in Conns, h # g
      PROVE  SecureSoFar(h)'
  <2>1. Same(h)
    BY <1>o, OthersStay
  <2>2. SecureSoFar(h)
    BY Zenon DEF Secure
  <2> QED BY <1>l, <2>1, <2>2, Zenon DEF SecureSoFar, Same, VerifyCert, UseTls, AllowTlsFallback
<1>s. SecureSoFar(g)'
  <2>1. CASE \/ Check(g) \/ Reset(g) \/ LookupCop(g) \/ LookupHost(g) \/ AppendRead(g)
             \/ AppendWrite(g) \/ Pick(g) \/ IndexPanic(g)
    <3>1. sock' = sock /\ tls' = tls /\ cert' = cert /\ fallback' = fallback
      BY <2>1, Zenon DEF Check, Reset, LookupCop, LookupHost, AppendRead, AppendWrite, Pick, IndexPanic,
                         dial, link
    <3>2. /\ pc[g] \in {"idle", "check", "reset", "lookup", "append", "write", "settle", "pick", "dial"}
          /\ pc'[g] \in {"reset", "lookup", "append", "write", "settle", "pick", "dial", "failed", "panic"}
      BY <1>0, <2>1 DEF Check, Reset, LookupCop, LookupHost, AppendRead, AppendWrite, Pick, IndexPanic,
                        Goto, Places
    <3>3. ~sock[g] /\ ~tls[g]
      BY <1>0, <3>2 DEF SecureSoFar
    <3>4. fallback'[g] => AllowTlsFallback'
      BY <1>0, <1>l, <3>1, Zenon DEF SecureSoFar, AllowTlsFallback
    <3> QED BY <3>1, <3>2, <3>3, <3>4 DEF SecureSoFar
  <2>2. CASE DialOk(g)
    <3>1. pc[g] = "dial" /\ tls' = tls /\ sock' = [sock EXCEPT ![g] = TRUE]
      BY <2>2, Zenon DEF DialOk
    <3>2. ~tls'[g]
      BY <1>0, <3>1 DEF SecureSoFar
    <3>3. CASE UsingTlsPort(g)
      <4>1. pc'[g] = "tls" /\ fallback' = fallback
        BY <1>0, <2>2, <3>3 DEF DialOk, Goto, Places, dial
      <4>2. fallback'[g] => AllowTlsFallback'
        BY <1>0, <1>l, <4>1, Zenon DEF SecureSoFar, AllowTlsFallback
      <4>3. UseTls'
        BY <1>l, <3>3, Zenon DEF UsingTlsPort, UseTls
      <4> QED BY <3>2, <4>1, <4>2, <4>3 DEF SecureSoFar
    <3>4. CASE ~UsingTlsPort(g)
      <4>1. pc'[g] = "up"
        BY <1>0, <2>2, <3>4 DEF DialOk, Goto, Places
      <4>2. ~fallback'[g]
        BY <1>0, <2>2, <3>4 DEF DialOk, ForgetDial, Dial
      <4>3. ~UseTls \/ AllowTlsFallback
        BY <1>0, <3>4, Zenon DEF UsingTlsPort, SecureSoFar
      <4>4. ~(level' >= Levels.REQUIRE)
        BY <1>0, <1>l, <4>3 DEF UseTls, AllowTlsFallback, Levels, Options
      <4> QED BY <3>2, <4>1, <4>2, <4>4 DEF SecureSoFar
    <3> QED BY <3>3, <3>4
  <2>3. CASE DialFail(g)
    <3>1. pc[g] = "dial" /\ tls' = tls
      BY <2>3, Zenon DEF DialFail
    <3>2. CASE GiveUp(g, "dial")
      BY <1>l, <3>1, <3>2, GivingUp
    <3>3. CASE ~GiveUp(g, "dial")
      <4> pc' = pc /\ fallback' = fallback /\ sock' = sock /\ cert' = cert
        BY <2>3, <3>3, Zenon DEF DialFail
      <4> QED BY <1>0, <1>l, <3>1, Zenon DEF SecureSoFar, VerifyCert, UseTls, AllowTlsFallback
    <3> QED BY <3>2, <3>3
  <2>4. CASE TlsHandshake(g)
    <3>1. pc[g] = "tls" /\ tls' = tls
      BY <2>4, Zenon DEF TlsHandshake
    <3>2. CASE GiveUp(g, "tls")
      BY <1>l, <3>1, <3>2, GivingUp
    <3>3. CASE ~GiveUp(g, "tls")
      <4>1. PICK c \in SUBSET {"chain", "host"} :
               VerifyCert(c) /\ Goto(g, "ws") /\ cert' = [cert EXCEPT ![g] = c]
               /\ fallback' = fallback /\ sock' = sock
        BY <2>4, <3>3, Zenon DEF TlsHandshake
      <4>2. pc'[g] = "ws" /\ cert'[g] = c
        BY <1>0, <4>1 DEF Goto, Places, Link
      <4>3. VerifyCert(cert[g])'
        BY <1>l, <4>1, <4>2, Zenon DEF VerifyCert
      <4>4. UseTls' /\ ~tls'[g]
        BY <1>0, <1>l, <3>1 DEF SecureSoFar, UseTls
      <4>5. fallback'[g] => AllowTlsFallback'
        BY <1>0, <1>l, <4>1, Zenon DEF SecureSoFar, AllowTlsFallback
      <4> QED BY <4>2, <4>3, <4>4, <4>5 DEF SecureSoFar
    <3> QED BY <3>2, <3>3
  <2>5. CASE UpgradeWebSocket(g)
    <3>1. pc[g] = "ws" /\ sock' = sock /\ cert' = cert /\ tls' = [tls EXCEPT ![g] = TRUE]
      BY <2>5, Zenon DEF UpgradeWebSocket
    <3>2. pc'[g] = "up" /\ tls'[g]
      BY <1>0, <2>5 DEF UpgradeWebSocket, Goto, Places, Link
    <3>3. ~fallback'[g]
      BY <1>0, <2>5 DEF UpgradeWebSocket, ForgetDial, Dial
    <3>4. UseTls' /\ VerifyCert(cert[g])'
      <4> UseTls /\ VerifyCert(cert[g])
        BY <1>0, <3>1 DEF SecureSoFar
      <4> QED BY <1>l, <3>1, Zenon DEF UseTls, VerifyCert
    <3> QED BY <3>2, <3>3, <3>4 DEF SecureSoFar
  <2>6. CASE TlsFail(g)
    <3>1. pc[g] \in {"tls", "ws"} /\ tls' = tls /\ GiveUp(g, pc[g])
      BY <2>6, Zenon DEF TlsFail
    <3> QED BY <1>l, <3>1, GivingUp
  <2> QED BY <2>1, <2>2, <2>3, <2>4, <2>5, <2>6, Zenon DEF ConnectorStep
<1> QED BY <1>o, <1>s, Zenon DEF Secure

-----------------------------------------------------------------------------
(* The logon.                                                              *)

\* Where the logon stands, and what that says of its keys and nonces.
NoncesPassed == \A n \in nonces : n[2] \in Nat /\ n[2] < wrapSeqNum
KeyExchange ==
    /\ refusals \in 0..MaxRefusals
    /\ phase \in {"config", "assign", "key"} => key = refusals
    /\ phase \in {"connect", "on"} /\ gss = "td2" => key = serverKey
ContextChosen == phase \in {"assign", "key", "connect", "on"} => gss # "none"

LogonInv == LogonTypeOK /\ KeyExchange /\ ContextChosen /\ NoncesPassed /\ ~reused

\* A logon begins with nothing sent.
LEMMA InitLogon == Init => LogonInv /\ Confidential(tls[Observed])
<1> SUFFICES ASSUME LogonInit PROVE LogonInv /\ Confidential(tls[Observed])
  BY DEF Init
<1> USE DEF LogonInit
<1>1. LogonTypeOK
  <2>1. policy \in BOOLEAN /\ broken \in BOOLEAN /\ reused \in BOOLEAN
    BY Zenon
  <2>2. key \in 0..(MaxRefusals + 1) /\ serverKey \in 0..(MaxRefusals + 1) /\ wrapSeqNum \in Nat \ {0}
    BY LogonAssumption
  <2> QED BY <2>1, <2>2 DEF LogonTypeOK
<1>2. KeyExchange
  BY LogonAssumption DEF KeyExchange
<1>3. ContextChosen
  BY DEF ContextChosen
<1>4. NoncesPassed
  BY DEF NoncesPassed
<1>5. Confidential(tls[Observed])
  BY DEF Confidential
<1> QED BY <1>1, <1>2, <1>3, <1>4, <1>5 DEF LogonInv

\* A wrapped message takes a number no message had.
LEMMA WrapIsFresh ==
    ASSUME wrapSeqNum \in Nat \ {0}, NoncesPassed, ~reused, NEW len, Wrap(len)
    PROVE  NoncesPassed' /\ ~reused' /\ wrapSeqNum' \in Nat \ {0}
<1>1. wrapSeqNum' = wrapSeqNum + 1 /\ nonces' = nonces \cup {<<len, wrapSeqNum>>}
  BY DEF Wrap
<1>2. <<len, wrapSeqNum>> \notin nonces
  <2> SUFFICES ASSUME <<len, wrapSeqNum>> \in nonces PROVE FALSE
    OBVIOUS
  <2>1. <<len, wrapSeqNum>>[2] < wrapSeqNum
    BY Zenon DEF NoncesPassed
  <2> QED BY <2>1
<1>3. ~reused'
  BY <1>2, Zenon DEF Wrap
<1>4. NoncesPassed'
  <2> SUFFICES ASSUME NEW n \in nonces' PROVE n[2] \in Nat /\ n[2] < wrapSeqNum'
    BY DEF NoncesPassed
  <2>1. CASE n \in nonces
    <3> n[2] \in Nat /\ n[2] < wrapSeqNum
      BY <2>1, Zenon DEF NoncesPassed
    <3> QED BY <1>1
  <2>2. CASE n = <<len, wrapSeqNum>>
    BY <1>1, <2>2
  <2> QED BY <1>1, <2>1, <2>2
<1> QED BY <1>1, <1>3, <1>4

\* What a message does, written or not, to the numbers, the flags and the messages sent.
MessageDone(kind, t) ==
    /\ NoncesPassed' /\ ~reused' /\ reused' \in BOOLEAN /\ wrapSeqNum' \in Nat \ {0}
    /\ policy' \in BOOLEAN /\ broken' \in BOOLEAN
    /\ \/ sent' = sent
       \/ sent' = sent \cup {[kind |-> kind, enc |-> Encrypts(kind, t), policy |-> policy]}

\* Every message keeps the numbers fresh, whether it is written or not.
LEMMA MessageIsDone ==
    ASSUME LogonTypeOK, NoncesPassed, ~reused, NEW kind, NEW len, NEW t,
           Exchange(kind, len, t) \/ ExchangeFails(kind, len, t)
    PROVE  MessageDone(kind, t)
<1>1. /\ wrapSeqNum \in Nat \ {0} /\ policy \in BOOLEAN /\ broken \in BOOLEAN /\ reused \in BOOLEAN
  BY DEF LogonTypeOK
<1>2. Wrap(len) \/ (wrapSeqNum' = wrapSeqNum /\ nonces' = nonces /\ reused' = reused)
  BY Zenon DEF Exchange, ExchangeFails, Written, NotWritten
<1>3. NoncesPassed' /\ ~reused' /\ reused' \in BOOLEAN /\ wrapSeqNum' \in Nat \ {0}
  <2>1. CASE Wrap(len)
    <3>1. NoncesPassed' /\ ~reused' /\ wrapSeqNum' \in Nat \ {0}
      BY <1>1, <2>1, WrapIsFresh
    <3>2. reused' \in BOOLEAN
      BY <2>1, Zenon DEF Wrap
    <3> QED BY <3>1, <3>2
  <2>2. CASE wrapSeqNum' = wrapSeqNum /\ nonces' = nonces /\ reused' = reused
    BY <1>1, <2>2, Zenon DEF NoncesPassed
  <2> QED BY <1>2, <2>1, <2>2
<1>4. policy' \in BOOLEAN /\ broken' \in BOOLEAN
  BY <1>1, Zenon DEF Exchange, ExchangeFails, Written, NotWritten, ReadResponse
<1>5. \/ sent' = sent
      \/ sent' = sent \cup {[kind |-> kind, enc |-> Encrypts(kind, t), policy |-> policy]}
  BY Zenon DEF Exchange, ExchangeFails, Written, NotWritten
<1> QED BY <1>3, <1>4, <1>5, Zenon DEF MessageDone

\* A message keeps the messages sent confidential: the context is chosen before the
\* password and the SQL are written.
LEMMA MessageIsConfidential ==
    ASSUME NEW kind, NEW CONSTANT t, Confidential(t), MessageDone(kind, t),
           kind \in {ConnectMsg, Start} => gss # "none"
    PROVE  Confidential(t)'
<1> DEFINE new == [kind |-> kind, enc |-> Encrypts(kind, t), policy |-> policy]
<1> SUFFICES ASSUME NEW m \in sent', ~t
             PROVE  /\ m.kind = ConnectMsg => m.enc
                    /\ m.kind = Start /\ (EncryptData \/ m.policy) => m.enc
  BY Zenon DEF Confidential
<1>1. CASE m \in sent
  BY <1>1, Zenon DEF Confidential
<1>2. CASE m = new
  <2>1. m.kind = kind /\ m.policy = policy
    BY <1>2
  <2>2. m.enc <=> Encrypts(kind, t)
    BY <1>2, Zenon
  <2>3. CASE kind = ConnectMsg
    <3> Encrypts(kind, t)
      BY <2>3, Zenon DEF Encrypts, ConnectMsg
    <3> QED BY <2>2
  <2>4. CASE kind = Start /\ (EncryptData \/ policy)
    <3>1. kind \notin {1, 2, 10, 11, 12}
      BY <2>4 DEF Start
    <3> Encrypts(kind, t)
      BY <2>4, <3>1, Zenon DEF Encrypts
    <3> QED BY <2>2
  <2> QED BY <2>1, <2>3, <2>4, Zenon
<1> QED BY <1>1, <1>2, Zenon DEF MessageDone

\* The steps of the logon.
LEMMA LogonKeeps ==
    ASSUME LogonInv, NEW CONSTANT t, Confidential(t), LogonStep(t)
    PROVE  LogonInv' /\ Confidential(t)'
<1>0. LogonTypeOK /\ KeyExchange /\ ContextChosen /\ NoncesPassed /\ ~reused
  BY DEF LogonInv
<1>t. /\ phase \in {"config", "assign", "key", "connect", "on", "failed"}
      /\ gss \in {"none", "tls", "td2"} /\ key \in 0..(MaxRefusals + 1)
      /\ serverKey \in 0..(MaxRefusals + 1)
  BY <1>0 DEF LogonTypeOK
<1>c. ASSUME NEW kind, MessageDone(kind, t), kind \in {ConnectMsg, Start} => gss # "none",
             phase' \in {"config", "assign", "key", "connect", "on", "failed"},
             gss' \in {"none", "tls", "td2"},
             key' \in 0..(MaxRefusals + 1), serverKey' \in 0..(MaxRefusals + 1),
             KeyExchange', ContextChosen'
      PROVE  LogonInv' /\ Confidential(t)'
  <2>1. Confidential(t)'
    BY <1>c, MessageIsConfidential
  <2>2. /\ NoncesPassed' /\ ~reused' /\ reused' \in BOOLEAN /\ wrapSeqNum' \in Nat \ {0}
        /\ policy' \in BOOLEAN /\ broken' \in BOOLEAN
    BY <1>c, Zenon DEF MessageDone
  <2>3. LogonTypeOK'
    BY <1>c, <2>2, Zenon DEF LogonTypeOK
  <2> QED BY <1>c, <2>1, <2>2, <2>3, Zenon DEF LogonInv
<1>1. CASE ConfigHandshake(t)
  <2>1. MessageDone(Cfg, t)
    BY <1>0, <1>1, MessageIsDone, Zenon DEF ConfigHandshake
  <2>2. phase = "config" /\ key' = key /\ serverKey' = serverKey /\ refusals' = refusals
    BY <1>1, Zenon DEF ConfigHandshake, exchange
  <2>3. \/ phase' = "assign" /\ gss' \in {"tls", "td2"}
        \/ phase' = "failed" /\ gss' = gss
    <3>1. \A b : GssContext(t, b) = "tls" \/ GssContext(t, b) = "td2"
      BY Zenon DEF GssContext
    <3>2. \/ phase' = "assign" /\ gss' = GssContext(t, cidBypass')
          \/ phase' = "failed" /\ gss' = gss
      BY <1>1, Zenon DEF ConfigHandshake
    <3>3. GssContext(t, cidBypass') \in {"tls", "td2"}
      BY <3>1, Zenon
    <3> QED BY <3>2, <3>3, Zenon
  <2>4. KeyExchange'
    BY <1>0, <2>2, <2>3 DEF KeyExchange
  <2>6. ContextChosen'
    BY <2>3 DEF ContextChosen
  <2>5. Cfg \notin {ConnectMsg, Start}
    BY DEF Cfg, ConnectMsg, Start
  <2> QED BY <1>t, <1>c, <2>1, <2>2, <2>3, <2>4, <2>5, <2>6
<1>2. CASE AssignHandshake(t)
  <2>1. MessageDone(Assign, t)
    BY <1>0, <1>2, MessageIsDone, Zenon DEF AssignHandshake
  <2>2. phase = "assign" /\ gss' = gss /\ key' = key /\ serverKey' = serverKey /\ refusals' = refusals
    BY <1>2, Zenon DEF AssignHandshake, exchange
  <2>3. phase' \in {"connect", "key", "failed"} /\ (phase' = "connect" => gss = "tls")
    BY <1>2 DEF AssignHandshake
  <2>4. KeyExchange' /\ ContextChosen'
    BY <1>0, <2>2, <2>3 DEF KeyExchange, ContextChosen
  <2>5. Assign \notin {ConnectMsg, Start}
    BY DEF Assign, ConnectMsg, Start
  <2> QED BY <1>t, <1>c, <2>1, <2>2, <2>3, <2>4, <2>5
<1>3. CASE SendClientKey(t)
  <2>1. MessageDone(SSOReq, t)
    BY <1>0, <1>3, MessageIsDone, Zenon DEF SendClientKey
  <2>2. phase = "key" /\ gss' = gss /\ key' = key + 1
    BY <1>3, Zenon DEF SendClientKey, NewKey
  <2>3. \/ phase' = "connect" /\ serverKey' = refusals + 1 /\ refusals' = refusals
        \/ refusals < MaxRefusals /\ refusals' = refusals + 1 /\ phase' = phase /\ serverKey' = serverKey
    BY <1>3, Zenon DEF SendClientKey
  <2>4. key = refusals /\ refusals \in 0..MaxRefusals
    BY <1>0, <2>2 DEF KeyExchange
  <2>5. KeyExchange'
    BY <2>2, <2>3, <2>4, LogonAssumption DEF KeyExchange
  <2>6. ContextChosen'
    BY <1>0, <2>2 DEF ContextChosen
  <2>7. SSOReq \notin {ConnectMsg, Start}
    BY DEF SSOReq, ConnectMsg, Start
  <2>8. key' \in 0..(MaxRefusals + 1) /\ serverKey' \in 0..(MaxRefusals + 1)
    BY <1>t, <2>2, <2>3, <2>4, LogonAssumption
  <2>9. phase' \in {"connect", "key"}
    BY <2>2, <2>3
  <2> QED BY <1>t, <1>c, <2>1, <2>2, <2>5, <2>6, <2>7, <2>8, <2>9
<1>4. CASE Authenticate(t)
  <2>1. MessageDone(ConnectMsg, t)
    BY <1>0, <1>4, MessageIsDone, Zenon DEF Authenticate
  <2>2. /\ phase = "connect" /\ phase' \in {"on", "failed"} /\ gss' = gss
        /\ key' = key /\ serverKey' = serverKey /\ refusals' = refusals
    BY <1>4, Zenon DEF Authenticate, exchange
  <2>3. KeyExchange' /\ ContextChosen'
    BY <1>0, <2>2 DEF KeyExchange, ContextChosen
  <2>4. gss # "none"
    BY <1>0, <2>2 DEF ContextChosen
  <2> QED BY <1>t, <1>c, <2>1, <2>2, <2>3, <2>4
<1>5. CASE LogonFails(t)
  <2>1. MessageDone(KindOf(phase), t)
    BY <1>0, <1>5, MessageIsDone, Zenon DEF LogonFails
  <2>2. /\ phase \in {"config", "assign", "key", "connect"} /\ phase' = "failed" /\ gss' = gss
        /\ key' = key /\ serverKey' = serverKey /\ refusals' = refusals
    BY <1>5, Zenon DEF LogonFails, exchange
  <2>3. KeyExchange' /\ ContextChosen'
    BY <1>0, <2>2 DEF KeyExchange, ContextChosen
  <2>4. KindOf(phase) \in {ConnectMsg, Start} => gss # "none"
    BY <1>0, <2>2 DEF KindOf, ContextChosen, Cfg, Assign, SSOReq, ConnectMsg, Start
  <2> QED BY <1>t, <1>c, <2>1, <2>2, <2>3, <2>4
<1> QED BY <1>1, <1>2, <1>3, <1>4, <1>5 DEF LogonStep

\* The steps of the session that is logged on.
LEMMA RequestKeeps ==
    ASSUME LogonInv, NEW CONSTANT t, Confidential(t), Request(t)
    PROVE  LogonInv' /\ Confidential(t)'
<1>0. LogonTypeOK /\ KeyExchange /\ ContextChosen /\ NoncesPassed /\ ~reused
  BY DEF LogonInv
<1>1. MessageDone(Start, t)
  BY <1>0, MessageIsDone, Zenon DEF Request
<1>2. /\ phase = "on" /\ phase' = phase /\ gss' = gss
      /\ key' = key /\ serverKey' = serverKey /\ refusals' = refusals
  BY Zenon DEF Request, exchange
<1>3. gss # "none"
  BY <1>0, <1>2 DEF ContextChosen
<1>4. Confidential(t)'
  BY <1>1, <1>3, MessageIsConfidential
<1>5. /\ NoncesPassed' /\ ~reused' /\ reused' \in BOOLEAN /\ wrapSeqNum' \in Nat \ {0}
      /\ policy' \in BOOLEAN /\ broken' \in BOOLEAN
  BY <1>1, Zenon DEF MessageDone
<1>6. LogonTypeOK'
  BY <1>0, <1>2, <1>5, Zenon DEF LogonTypeOK
<1>7. KeyExchange' /\ ContextChosen'
  BY <1>0, <1>2, Zenon DEF KeyExchange, ContextChosen
<1> QED BY <1>4, <1>5, <1>6, <1>7, Zenon DEF LogonInv

-----------------------------------------------------------------------------
(* Connect.                                                                *)

IInv == Types /\ Secure /\ LogonInv /\ Confidential(tls[Observed])

\* A connection with TLS keeps it.
LEMMA TlsStays ==
    ASSUME Types, NEW g \in Conns, ConnectorStep(g), NEW h \in Conns, tls[h]
    PROVE  tls'[h]
<1>0. tls \in [Conns -> BOOLEAN]
  BY DEF Types, Link
<1>1. tls' = tls \/ tls' = [tls EXCEPT ![g] = TRUE]
  BY Zenon DEF ConnectorStep, Check, Reset, LookupCop, LookupHost, AppendRead, AppendWrite, Pick, IndexPanic,
       DialOk, DialFail, TlsHandshake, UpgradeWebSocket, TlsFail, link
<1> QED BY <1>0, <1>1

\* A step of a goroutine leaves the logon alone.
LEMMA DiallingKeeps ==
    ASSUME IInv, NEW g \in Conns, Dialling(g)
    PROVE  IInv'
<1>1. Types /\ Secure /\ LogonInv /\ Confidential(tls[Observed]) /\ ConnectorStep(g)
  BY Zenon DEF IInv, Dialling
<1>2. Types'
  BY <1>1, TypesKeep
<1>3. Secure'
  BY <1>1, SecureKeeps
<1>4. /\ phase' = phase /\ gss' = gss /\ wrapSeqNum' = wrapSeqNum /\ key' = key /\ serverKey' = serverKey
      /\ refusals' = refusals /\ policy' = policy /\ broken' = broken /\ sent' = sent
      /\ nonces' = nonces /\ reused' = reused
  BY Zenon DEF Dialling, logonVars, exchange
<1>5. LogonInv'
  BY <1>1, <1>4, Zenon DEF LogonInv, LogonTypeOK, KeyExchange, ContextChosen, NoncesPassed
<1>6. tls[Observed] => tls'[Observed]
  BY <1>1, TlsStays, ObservedAssumption
<1>7. Confidential(tls[Observed])'
  BY <1>1, <1>4, <1>6, Zenon DEF Confidential
<1> QED BY <1>2, <1>3, <1>5, <1>7, Zenon DEF IInv

\* A logon that fails closes the connection.
LEMMA LoggingOnKeeps ==
    ASSUME IInv, LoggingOn
    PROVE  IInv'
<1>0. Types /\ Secure /\ LogonInv /\ Confidential(tls[Observed]) /\ Observed \in Conns
  BY ObservedAssumption, Zenon DEF IInv
<1>p. Options /\ Shared /\ Places /\ Search /\ Dial /\ Indexes /\ Link /\ ListToDial
  BY <1>0 DEF Types
<1>1. pc[Observed] = "up" /\ LogonStep(tls[Observed])
  BY Zenon DEF LoggingOn
<1>2. /\ level' = level /\ copMode' = copMode /\ cops' = cops /\ lastCop' = lastCop /\ hostKnown' = hostKnown
      /\ discovered' = discovered /\ raced' = raced /\ cop' = cop /\ got' = got /\ snap' = snap
      /\ cnt' = cnt /\ idx' = idx /\ start' = start /\ tried' = tried /\ fallback' = fallback
      /\ tls' = tls /\ cert' = cert
  BY Zenon DEF LoggingOn, dns, options, shared, search, dial
<1>3. \/ pc' = pc /\ err' = err /\ sock' = sock
      \/ /\ pc' = [pc EXCEPT ![Observed] = "failed"] /\ err' = [err EXCEPT ![Observed] = "logon"]
         /\ sock' = [sock EXCEPT ![Observed] = FALSE]
  BY Zenon DEF LoggingOn, Goto
<1>4. Types'
  <2>1. Options' /\ Shared' /\ Search' /\ Dial' /\ Indexes'
    BY <1>p, <1>2, Zenon DEF Options, Shared, Search, Dial, Indexes
  <2>2. Places'
    BY <1>p, <1>3 DEF Places, Labels
  <2>3. sock' \in [Conns -> BOOLEAN]
    BY <1>p, <1>3, Zenon DEF Link
  <2>4. err' \in [Conns -> Errors]
    BY <1>p, <1>3 DEF Link, Errors
  <2>5. Link'
    BY <1>p, <1>2, <2>3, <2>4, Zenon DEF Link
  <2>6. \A h \in Conns : pc'[h] = "dial" => pc[h] = "dial"
    BY <1>p, <1>3 DEF Places
  <2>7. ListToDial'
    BY <1>p, <1>2, <2>6, Zenon DEF ListToDial
  <2> QED BY <2>1, <2>2, <2>5, <2>7, Zenon DEF Types
<1>5. Secure'
  <2> SUFFICES ASSUME NEW h \in Conns PROVE SecureSoFar(h)'
    BY Zenon DEF Secure
  <2>1. SecureSoFar(h)
    BY <1>0, Zenon DEF Secure
  <2>2. (pc'[h] = pc[h] /\ sock'[h] = sock[h]) \/ (pc[h] = "up" /\ pc'[h] = "failed" /\ ~sock'[h])
    <3>1. CASE pc' = pc /\ err' = err /\ sock' = sock
      BY <3>1
    <3>2. CASE /\ pc' = [pc EXCEPT ![Observed] = "failed"] /\ sock' = [sock EXCEPT ![Observed] = FALSE]
      BY <1>0, <1>1, <1>p, <3>2 DEF Places, Link
    <3> QED BY <1>3, <3>1, <3>2
  <2>3. CASE pc'[h] = pc[h] /\ sock'[h] = sock[h]
    BY <1>2, <2>1, <2>3, Zenon DEF SecureSoFar, VerifyCert, UseTls, AllowTlsFallback
  <2>4. CASE pc[h] = "up" /\ pc'[h] = "failed" /\ ~sock'[h]
    <3>1. /\ tls'[h] => UseTls' /\ VerifyCert(cert[h])'
          /\ fallback'[h] => AllowTlsFallback'
      BY <1>2, <2>1, Zenon DEF SecureSoFar, VerifyCert, UseTls, AllowTlsFallback
    <3> QED BY <2>4, <3>1 DEF SecureSoFar
  <2> QED BY <2>2, <2>3, <2>4
<1>6. LogonInv' /\ Confidential(tls[Observed])'
  <2>1. PICK t : t = tls[Observed]
    OBVIOUS
  <2>2. Confidential(t) /\ LogonStep(t)
    BY <1>0, <1>1, <2>1, Zenon
  <2>3. LogonInv' /\ Confidential(t)'
    BY <1>0, <2>2, LogonKeeps
  <2>4. t = tls'[Observed]
    BY <1>2, <2>1
  <2>5. Confidential(tls[Observed])'
    BY <2>3, <2>4, Zenon DEF Confidential
  <2> QED BY <2>3, <2>5
<1> QED BY <1>4, <1>5, <1>6, Zenon DEF IInv

\* SQL leaves the connector alone.
LEMMA RequestingKeeps ==
    ASSUME IInv, Requesting
    PROVE  IInv'
<1>0. Types /\ Secure /\ LogonInv /\ Confidential(tls[Observed])
  BY Zenon DEF IInv
<1>1. /\ dns' = dns /\ options' = options /\ shared' = shared /\ pc' = pc /\ search' = search
      /\ dial' = dial /\ link' = link
  BY Zenon DEF Requesting, connectorVars
<1>2. /\ level' = level /\ copMode' = copMode /\ cops' = cops /\ lastCop' = lastCop /\ hostKnown' = hostKnown
      /\ discovered' = discovered /\ raced' = raced /\ cop' = cop /\ got' = got /\ snap' = snap
      /\ cnt' = cnt /\ idx' = idx /\ start' = start /\ tried' = tried /\ fallback' = fallback
      /\ sock' = sock /\ tls' = tls /\ cert' = cert /\ err' = err
  BY <1>1, Zenon DEF dns, options, shared, search, dial, link
<1>3. Types'
  BY <1>0, <1>1, <1>2, Zenon DEF Types, Options, Shared, Places, Search, Dial, Indexes, Link, ListToDial
<1>4. Secure'
  BY <1>0, <1>1, <1>2, Zenon DEF Secure, SecureSoFar, VerifyCert, UseTls, AllowTlsFallback
<1>5. LogonInv' /\ Confidential(tls[Observed])'
  <2>1. PICK t : t = tls[Observed]
    OBVIOUS
  <2>2. Confidential(t) /\ Request(t)
    BY <1>0, <2>1, Zenon DEF Requesting
  <2>3. LogonInv' /\ Confidential(t)'
    BY <1>0, <2>2, RequestKeeps
  <2>4. t = tls'[Observed]
    BY <1>2, <2>1
  <2>5. Confidential(tls[Observed])'
    BY <2>3, <2>4, Zenon DEF Confidential
  <2> QED BY <2>3, <2>5
<1> QED BY <1>3, <1>4, <1>5, Zenon DEF IInv

\* A step that changes nothing keeps the invariant.
LEMMA StutterKeeps ==
    ASSUME IInv, UNCHANGED vars
    PROVE  IInv'
<1>1. Types /\ Secure /\ LogonInv /\ Confidential(tls[Observed])
  BY Zenon DEF IInv
<1>2. /\ level' = level /\ copMode' = copMode /\ cops' = cops /\ lastCop' = lastCop /\ hostKnown' = hostKnown
      /\ discovered' = discovered /\ raced' = raced /\ pc' = pc /\ cop' = cop /\ got' = got /\ snap' = snap
      /\ cnt' = cnt /\ idx' = idx /\ start' = start /\ tried' = tried /\ fallback' = fallback
      /\ sock' = sock /\ tls' = tls /\ cert' = cert /\ err' = err
  BY Zenon DEF vars, connectorVars, dns, options, shared, search, dial, link
<1>3. /\ phase' = phase /\ gss' = gss /\ wrapSeqNum' = wrapSeqNum /\ key' = key /\ serverKey' = serverKey
      /\ refusals' = refusals /\ policy' = policy /\ broken' = broken /\ sent' = sent
      /\ nonces' = nonces /\ reused' = reused
  BY Zenon DEF vars, logonVars, exchange
<1>4. Types'
  BY <1>1, <1>2, Zenon DEF Types, Options, Shared, Places, Search, Dial, Indexes, Link, ListToDial
<1>5. Secure'
  BY <1>1, <1>2, Zenon DEF Secure, SecureSoFar, VerifyCert, UseTls, AllowTlsFallback
<1>6. LogonInv'
  BY <1>1, <1>3, Zenon DEF LogonInv, LogonTypeOK, KeyExchange, ContextChosen, NoncesPassed
<1>7. Confidential(tls[Observed])'
  BY <1>1, <1>2, <1>3, Zenon DEF Confidential
<1> QED BY <1>4, <1>5, <1>6, <1>7, Zenon DEF IInv

\* The invariant holds at the start and after every step.
THEOREM Invariance == Spec => []IInv
<1>1. Init => IInv
  BY InitTypes, InitSecure, InitLogon, Zenon DEF IInv
<1>2. IInv /\ [Next]_vars => IInv'
  <2> SUFFICES ASSUME IInv, [Next]_vars PROVE IInv'
    OBVIOUS
  <2>1. CASE \E g \in Conns : Dialling(g)
    BY <2>1, DiallingKeeps
  <2>2. CASE LoggingOn
    BY <2>2, LoggingOnKeeps
  <2>3. CASE Requesting
    BY <2>3, RequestingKeeps
  <2>4. CASE Done
    BY <2>4, StutterKeeps DEF Done
  <2>5. CASE UNCHANGED vars
    BY <2>5, StutterKeeps
  <2> QED BY <2>1, <2>2, <2>3, <2>4, <2>5, Zenon DEF Next
<1> QED BY <1>1, <1>2, PTL DEF Spec

\* Every variable of the connector and of the logon keeps to its values.
THEOREM TypeCorrect == Spec => []TypeOK
<1>1. IInv => TypeOK
  <2> SUFFICES ASSUME IInv PROVE TypeOK
    OBVIOUS
  <2>1. Options /\ Shared /\ Places /\ Search /\ Indexes /\ Link /\ LogonTypeOK
    BY Zenon DEF IInv, Types, LogonInv
  <2>2. level \in 0..5 /\ discovered \in Seq(0..MaxCops) /\ cop \in [Conns -> 1..(MaxCops + 1)]
    BY <2>1, Zenon DEF Options, Shared, Search, Addresses
  <2>3. ConnectorTypeOK
    BY <2>1, <2>2, Zenon DEF ConnectorTypeOK, Places, Labels, Indexes, Link, Errors
  <2> QED BY <2>1, <2>3 DEF TypeOK
<1> QED BY <1>1, Invariance, PTL

\* Through every retry and fallback, for any number of goroutines and of addresses and
\* for every SSL mode, a connection is as secure as SSLMODE asks, and an attempt that
\* failed or was abandoned leaves no socket behind.
THEOREM ConnectionsAreSecure == Spec => []ConnectedAsAsked
<1>1. IInv => ConnectedAsAsked
  <2> SUFFICES ASSUME IInv PROVE ConnectedAsAsked
    OBVIOUS
  <2>1. Secure /\ level \in 0..5
    BY Zenon DEF IInv, Types, Options
  <2>2. NoSocketLeaks
    BY <2>1 DEF NoSocketLeaks, Secure, SecureSoFar
  <2>3. SecuredAsAsked
    <3> SUFFICES ASSUME NEW g \in Conns, pc[g] = "up"
                 PROVE  /\ level >= Levels.REQUIRE => tls[g]
                        /\ level <= Levels.ALLOW => ~tls[g]
                        /\ tls[g] /\ level >= Levels.VERIFYCA => "chain" \in cert[g]
                        /\ tls[g] /\ level = Levels.VERIFYFULL => "host" \in cert[g]
      BY DEF SecuredAsAsked
    <3>1. SecureSoFar(g)
      BY <2>1, Zenon DEF Secure
    <3>2. level >= Levels.REQUIRE => tls[g]
      BY <3>1 DEF SecureSoFar
    <3>3. tls[g] => level > Levels.ALLOW
      BY <3>1 DEF SecureSoFar, UseTls
    <3>4. level > Levels.ALLOW => ~(level <= Levels.ALLOW)
      BY <2>1 DEF Levels
    <3>5. /\ tls[g] /\ level >= Levels.VERIFYCA => "chain" \in cert[g]
          /\ tls[g] /\ level = Levels.VERIFYFULL => "host" \in cert[g]
      BY <3>1, Zenon DEF SecureSoFar, VerifyCert
    <3> QED BY <3>2, <3>3, <3>4, <3>5, Zenon
  <2> QED BY <2>2, <2>3 DEF ConnectedAsAsked
<1> QED BY <1>1, Invariance, PTL

\* However many keys the server refuses and however many messages are wrapped, the
\* password, and SQL where it must be, is encrypted or inside TLS, no nonce is used
\* twice with a key, and both sides end with the key of the same exchange.
THEOREM LogonsAreSecure == Spec => []LogonIsSecure
<1>1. IInv => LogonIsSecure
  BY Zenon DEF IInv, LogonInv, KeyExchange, LogonIsSecure, NonceOnce, KeysAgree
<1> QED BY <1>1, Invariance, PTL

-----------------------------------------------------------------------------
(* The shared list, as long as no two goroutines discover at a time.       *)

\* The COPs there are to find, and the first k of them.
CopsToFind == IF CopLast /\ lastCop > 0 THEN lastCop - 1 ELSE cops
FirstCops(k) == [i \in 1..k |-> i]

\* What a goroutine that discovers has found so far is what the list holds.
Progress(g) ==
    /\ pc[g] = "reset" => discovered = <<>>
    /\ pc[g] = "lookup" => copMode /\ cop[g] - 1 <= CopsToFind /\ discovered = FirstCops(cop[g] - 1)
    /\ pc[g] \in {"append", "write"} =>
          \/ /\ copMode /\ got[g] = cop[g] - 1 /\ got[g] \in 1..CopsToFind
             /\ discovered = FirstCops(got[g] - 1)
          \/ got[g] = Host /\ (copMode => CopsToFind = 0) /\ discovered = <<>>
    /\ pc[g] = "write" => snap[g] = discovered
    /\ pc[g] = "settle" => discovered = IF copMode THEN FirstCops(CopsToFind) ELSE <<>>

\* One goroutine discovers at most; without one the list is empty or complete.
OneDiscovers == \A g, h \in Conns : Discovering(g) /\ Discovering(h) => g = h
ListIsComplete == (\A g \in Conns : ~Discovering(g)) => discovered \in {<<>>, Reference}

\* The indexes a rotation has been at, and the addresses that were there.
Visited(g) == IF start[g] <= idx[g] THEN start[g]..(idx[g] - 1)
              ELSE (start[g]..(cnt[g] - 1)) \cup (0..(idx[g] - 1))
Rotation(g) ==
    /\ pc[g] = "dial" \/ err[g] = "dial" => cnt[g] <= Len(discovered)
    /\ pc[g] = "dial" => \A i \in Visited(g) : discovered[i + 1] \in tried[g]
    /\ err[g] = "dial" => \A i \in 0..(cnt[g] - 1) : discovered[i + 1] \in tried[g]
    /\ err[g] # "none" => pc[g] = "failed"
    /\ pc[g] # "panic"

Undisturbed == OneDiscovers /\ ListIsComplete /\ \A g \in Conns : Progress(g) /\ Rotation(g)
ListInv == ~raced => Undisturbed

\* The first COPs, one by one.
LEMMA FirstCopsAre ==
    ASSUME NEW k \in Nat
    PROVE  /\ FirstCops(k) \in Seq(Nat) /\ Len(FirstCops(k)) = k
           /\ Append(FirstCops(k), k + 1) = FirstCops(k + 1)
           /\ k = 0 => FirstCops(k) = <<>>
           /\ FirstCops(k) = <<>> => k = 0
<1>1. FirstCops(k) \in Seq(Nat) /\ Len(FirstCops(k)) = k
  BY DEF FirstCops
<1>2. FirstCops(k + 1) \in Seq(Nat) /\ Len(FirstCops(k + 1)) = k + 1
  BY DEF FirstCops
<1>3. Append(FirstCops(k), k + 1) = FirstCops(k + 1)
  <2>1. Append(FirstCops(k), k + 1) \in Seq(Nat) /\ Len(Append(FirstCops(k), k + 1)) = k + 1
    BY <1>1
  <2>2. \A i \in 1..(k + 1) : Append(FirstCops(k), k + 1)[i] = FirstCops(k + 1)[i]
    BY <1>1 DEF FirstCops
  <2> QED BY <1>2, <2>1, <2>2, SeqEqual
<1>4. k = 0 => FirstCops(k) = <<>>
  BY <1>1
<1>5. FirstCops(k) = <<>> => k = 0
  BY <1>1
<1> QED BY <1>1, <1>3, <1>4, <1>5

\* The name service ends where the COPs to find end.
LEMMA CopsEnd ==
    ASSUME Options
    PROVE  /\ CopsToFind \in 0..cops
           /\ \A c \in 1..(CopsToFind + 1) : EndOfCops(c) <=> c = CopsToFind + 1
<1>1. cops \in Nat /\ lastCop \in 0..cops
  BY MaxCopsAssumption DEF Options
<1>2. CASE CopLast /\ lastCop > 0
  <2>1. CopsToFind = lastCop - 1
    BY <1>2, Zenon DEF CopsToFind
  <2>2. ASSUME NEW c \in 1..lastCop PROVE EndOfCops(c) <=> c = lastCop
    <3>1. EndOfCops(c) <=> c > cops \/ c = lastCop
      BY <1>2, Zenon DEF EndOfCops
    <3> QED BY <1>1, <3>1
  <2> QED BY <1>1, <1>2, <2>1, <2>2
<1>3. CASE ~(CopLast /\ lastCop > 0)
  <2>1. CopsToFind = cops
    BY <1>3, Zenon DEF CopsToFind
  <2>2. ASSUME NEW c \in 1..(cops + 1) PROVE EndOfCops(c) <=> c = cops + 1
    <3>1. ~CopLast \/ lastCop = 0
      BY <1>1, <1>3
    <3>2. EndOfCops(c) <=> c > cops
      <4>1. CASE ~CopLast
        BY <4>1, Zenon DEF EndOfCops
      <4>2. CASE lastCop = 0
        <5> c # lastCop
          BY <4>2
        <5> QED BY Zenon DEF EndOfCops
      <4> QED BY <3>1, <4>1, <4>2
    <3> QED BY <1>1, <3>2
  <2> QED BY <1>1, <2>1, <2>2
<1> QED BY <1>2, <1>3

\* A list that is complete.
LEMMA CompleteList ==
    ASSUME Options
    PROVE  /\ copMode /\ CopsToFind > 0 => Reference = FirstCops(CopsToFind)
           /\ ~(copMode /\ CopsToFind > 0) => Reference = <<Host>>
BY Zenon DEF Reference, FirstCops, CopsToFind

\* What a goroutine has undisturbed is what it had: only the one that discovers
\* changes the list, and it only appends.
LEMMA ListGrows ==
    ASSUME Types, NEW g \in Conns, Progress(g), ConnectorStep(g)
    PROVE  /\ Len(discovered) <= Len(discovered')
           /\ \A i \in 1..Len(discovered) : discovered'[i] = discovered[i]
<1>0. discovered \in Seq(Addresses) /\ got \in [Conns -> Addresses]
  BY DEF Types, Shared, Search
<1>1. CASE Reset(g)
  <2> discovered = <<>> /\ discovered' = <<>>
    BY <1>1, Zenon DEF Reset, Progress
  <2> QED OBVIOUS
<1>2. CASE AppendWrite(g)
  <2>1. discovered' = Append(discovered, got[g])
    <3>1. discovered' = Append(snap[g], got[g]) /\ pc[g] = "write"
      BY <1>2, Zenon DEF AppendWrite
    <3>2. snap[g] = discovered
      BY <3>1, Zenon DEF Progress
    <3> QED BY <3>1, <3>2
  <2>2. got[g] \in Addresses
    BY <1>0
  <2> HIDE DEF ConnectorStep
  <2> QED BY <1>0, <2>1, <2>2
<1>3. CASE ~Reset(g) /\ ~AppendWrite(g)
  <2>1. discovered' = discovered
    BY <1>3, Zenon DEF ConnectorStep, Check, LookupCop, LookupHost, AppendRead, Pick, IndexPanic,
         DialOk, DialFail, TlsHandshake, UpgradeWebSocket, TlsFail, shared
  <2>2. Len(discovered) \in Nat
    BY <1>0
  <2> QED BY <2>1, <2>2
<1> QED BY <1>1, <1>2, <1>3

\* A goroutine that does not discover leaves the list alone.
LEMMA OnlyDiscoverersWrite ==
    ASSUME NEW g \in Conns, ConnectorStep(g), ~Discovering(g)
    PROVE  discovered' = discovered
<1>1. ~Reset(g) /\ ~AppendWrite(g)
  BY DEF Discovering, Reset, AppendWrite
<1> QED BY <1>1, Zenon DEF ConnectorStep, Check, LookupCop, LookupHost, AppendRead, Pick, IndexPanic,
         DialOk, DialFail, TlsHandshake, UpgradeWebSocket, TlsFail, shared

\* A discovery begins with Check; when none is disturbed, no other is under way then.
LEMMA OneBegins ==
    ASSUME Types, Undisturbed, NEW g \in Conns, ConnectorStep(g), ~raced'
    PROVE  /\ \A h \in Conns \ {g} : Discovering(h)' <=> Discovering(h)
           /\ Discovering(g)' => \A h \in Conns \ {g} : ~Discovering(h)
<1>0. Places
  BY DEF Types
<1>1. ASSUME NEW h \in Conns \ {g}
      PROVE  Discovering(h)' <=> Discovering(h)
  <2>1. Same(h)
    BY OthersStay
  <2>2. pc'[h] = pc[h]
    BY <2>1, Zenon DEF Same
  <2> QED BY <2>2, Zenon DEF Discovering
<1>2. ASSUME Discovering(g)', NEW h \in Conns \ {g}, Discovering(h)
      PROVE  FALSE
  <2>1. CASE Discovering(g)
    BY <1>2, <2>1, Zenon DEF Undisturbed, OneDiscovers
  <2>2. CASE ~Discovering(g)
    <3>1. Check(g)
      <4>1. ASSUME ~Check(g) PROVE FALSE
        <5>1. pc'[g] \notin {"reset", "lookup", "append", "write", "settle"}
          BY <1>0, <2>2, <4>1 DEF ConnectorStep, Discovering, Reset, LookupCop, LookupHost, AppendRead, AppendWrite,
             Pick, IndexPanic, DialOk, DialFail, TlsHandshake, UpgradeWebSocket, TlsFail, GiveUp, Goto, Places
        <5> QED BY <1>2, <5>1, Zenon DEF Discovering
      <4> QED BY <4>1
    <3>2. discovered = <<>>
      <4>1. ASSUME discovered # <<>> PROVE FALSE
        <5>1. pc'[g] = "pick"
          BY <1>0, <3>1, <4>1 DEF Check, Goto, Places
        <5> QED BY <1>2, <5>1 DEF Discovering
      <4> QED BY <4>1
    <3>3. raced'
      BY <1>2, <3>1, <3>2, Zenon DEF Check
    <3> QED BY <3>3
  <2> QED BY <2>1, <2>2
<1> QED BY <1>1, <1>2, Zenon

\* At most one goroutine discovers after the step.
LEMMA OneDiscoversKeeps ==
    ASSUME Types, Undisturbed, NEW g \in Conns, ConnectorStep(g), ~raced'
    PROVE  OneDiscovers'
<1>1. SUFFICES ASSUME NEW h \in Conns, NEW k \in Conns, Discovering(h)', Discovering(k)'
               PROVE  h = k
  BY Zenon DEF OneDiscovers
<1>2. /\ \A f \in Conns \ {g} : Discovering(f)' <=> Discovering(f)
      /\ Discovering(g)' => \A f \in Conns \ {g} : ~Discovering(f)
  BY OneBegins
<1>3. CASE h = g \/ k = g
  BY <1>1, <1>2, <1>3, Zenon
<1>4. CASE h # g /\ k # g
  BY <1>1, <1>2, <1>4, Zenon DEF Undisturbed, OneDiscovers
<1> QED BY <1>3, <1>4

\* What the goroutine that takes the step has found.
LEMMA OwnProgress ==
    ASSUME Types, Undisturbed, NEW g \in Conns, ConnectorStep(g), ~raced'
    PROVE  Progress(g)'
<1>0. Options /\ Shared /\ Places /\ Search /\ Progress(g)
  BY DEF Types, Undisturbed
<1>o. /\ level' = level /\ copMode' = copMode
      /\ cops' = cops /\ lastCop' = lastCop /\ hostKnown' = hostKnown
  BY OptionsStay
<1>n. CopsToFind' = CopsToFind /\ CopsToFind \in Nat
  <2>1. CopsToFind \in 0..cops /\ cops \in Nat
    BY <1>0, CopsEnd, MaxCopsAssumption DEF Options
  <2>2. CopsToFind \in Nat
    BY <2>1
  <2>3. CopsToFind' = CopsToFind
    BY <1>o, Zenon DEF CopsToFind
  <2> QED BY <2>2, <2>3
<1>z. FirstCops(0) = <<>>
  BY FirstCopsAre
<1>1. CASE Check(g)
  <2>1. CASE discovered = <<>>
    <3> pc'[g] = "reset" /\ discovered' = <<>>
      BY <1>0, <1>1, <2>1 DEF Check, Goto, Places
    <3> QED BY DEF Progress
  <2>2. CASE discovered # <<>>
    <3> pc'[g] = "pick"
      BY <1>0, <1>1, <2>2 DEF Check, Goto, Places
    <3> QED BY DEF Progress
  <2> QED BY <2>1, <2>2
<1>2. CASE Reset(g)
  <2>1. discovered' = <<>> /\ cop'[g] = 1 /\ pc'[g] = IF copMode THEN "lookup" ELSE "settle"
    BY <1>0, <1>2 DEF Reset, Goto, Places, Search
  <2>2. CASE copMode
    <3> pc'[g] = "lookup" /\ copMode'
      BY <1>o, <2>1, <2>2
    <3>1. discovered' = FirstCops(cop'[g] - 1) /\ cop'[g] - 1 <= CopsToFind'
      BY <1>n, <1>z, <2>1
    <3> QED BY <3>1 DEF Progress
  <2>3. CASE ~copMode
    <3> pc'[g] = "settle" /\ ~copMode'
      BY <1>o, <2>1, <2>3
    <3> QED BY <2>1 DEF Progress
  <2> QED BY <2>2, <2>3
<1>3. CASE LookupCop(g)
  <2>1. /\ pc[g] = "lookup" /\ copMode /\ discovered = FirstCops(cop[g] - 1)
        /\ discovered' = discovered /\ copMode'
    BY <1>0, <1>3, <1>o, Zenon DEF LookupCop, Progress, shared
  <2>2. cop[g] \in 1..(CopsToFind + 1)
    <3>1. cop[g] \in 1..(MaxCops + 1) /\ cop[g] - 1 <= CopsToFind
      BY <1>0, <2>1 DEF Search, Progress
    <3> QED BY <1>n, <3>1, MaxCopsAssumption
  <2>3. EndOfCops(cop[g]) <=> cop[g] = CopsToFind + 1
    BY <1>0, <2>2, CopsEnd
  <2>4. CASE EndOfCops(cop[g])
    <3>1. pc'[g] = "settle"
      BY <1>0, <1>3, <2>4 DEF LookupCop, Goto, Places
    <3>2. cop[g] - 1 = CopsToFind
      BY <1>n, <2>3, <2>4
    <3>3. discovered' = FirstCops(CopsToFind')
      BY <1>n, <2>1, <3>2
    <3> QED BY <2>1, <3>1, <3>3 DEF Progress
  <2>5. CASE ~EndOfCops(cop[g])
    <3>1. pc'[g] = "append" /\ got'[g] = cop[g] /\ cop'[g] = cop[g] + 1
      BY <1>0, <1>3, <2>5 DEF LookupCop, Goto, Places, Search
    <3>2. got'[g] \in 1..CopsToFind' /\ got'[g] = cop'[g] - 1
      BY <1>n, <2>2, <2>3, <2>5, <3>1
    <3>3. discovered' = FirstCops(got'[g] - 1)
      BY <2>1, <3>1
    <3> QED BY <2>1, <3>1, <3>2, <3>3 DEF Progress
  <2> QED BY <2>4, <2>5
<1>4. CASE LookupHost(g)
  <2>1. pc[g] = "settle" /\ discovered' = discovered
    BY <1>4, Zenon DEF LookupHost, shared
  <2>2. CASE pc'[g] = "append"
    <3>1. (~copMode \/ discovered = <<>>) /\ got'[g] = Host
      BY <1>0, <1>4, <2>2 DEF LookupHost, Goto, Places, Search
    <3>2. copMode => CopsToFind = 0
      <4> SUFFICES ASSUME copMode PROVE CopsToFind = 0
        OBVIOUS
      <4>1. FirstCops(CopsToFind) = <<>>
        BY <1>0, <2>1, <3>1 DEF Progress
      <4> QED BY <1>n, <4>1, FirstCopsAre
    <3>3. discovered = <<>>
      BY <1>0, <2>1, <3>1 DEF Progress
    <3>4. copMode' => CopsToFind' = 0
      BY <1>n, <1>o, <3>2, Zenon
    <3> QED BY <2>1, <2>2, <3>1, <3>3, <3>4 DEF Progress
  <2>3. CASE pc'[g] # "append"
    <3> pc'[g] \in {"pick", "failed"}
      BY <1>0, <1>4, <2>3 DEF LookupHost, Goto, Places
    <3> QED BY DEF Progress
  <2> QED BY <2>2, <2>3
<1>5. CASE AppendRead(g)
  <2>1. /\ pc[g] = "append" /\ pc'[g] = "write" /\ snap'[g] = discovered
        /\ discovered' = discovered /\ cop' = cop /\ got' = got
    BY <1>0, <1>5 DEF AppendRead, Goto, Places, Search, shared
  <2>2. \/ /\ copMode /\ got[g] = cop[g] - 1 /\ got[g] \in 1..CopsToFind
           /\ discovered = FirstCops(got[g] - 1)
        \/ got[g] = Host /\ (copMode => CopsToFind = 0) /\ discovered = <<>>
    BY <1>0, <2>1 DEF Progress
  <2>3. \/ /\ copMode' /\ got'[g] = cop'[g] - 1 /\ got'[g] \in 1..CopsToFind'
           /\ discovered' = FirstCops(got'[g] - 1)
        \/ got'[g] = Host /\ (copMode' => CopsToFind' = 0) /\ discovered' = <<>>
    BY <1>n, <1>o, <2>1, <2>2, Zenon
  <2> QED BY <2>1, <2>3 DEF Progress
<1>6. CASE AppendWrite(g)
  <2>1. /\ pc[g] = "write" /\ discovered' = Append(discovered, got[g]) /\ cop' = cop
        /\ pc'[g] = IF got[g] = Host THEN "pick" ELSE "lookup"
    <3>1. pc[g] = "write" /\ discovered' = Append(snap[g], got[g]) /\ cop' = cop
      BY <1>6, Zenon DEF AppendWrite, search
    <3>2. snap[g] = discovered
      BY <1>0, <3>1, Zenon DEF Progress
    <3>3. pc'[g] = IF got[g] = Host THEN "pick" ELSE "lookup"
      BY <1>0, <1>6 DEF AppendWrite, Goto, Places
    <3> QED BY <3>1, <3>2, <3>3
  <2>2. CASE got[g] = Host
    <3> pc'[g] = "pick"
      BY <2>1, <2>2
    <3> QED BY DEF Progress
  <2>3. CASE got[g] # Host
    <3>1. /\ copMode /\ got[g] = cop[g] - 1 /\ got[g] \in 1..CopsToFind
          /\ discovered = FirstCops(got[g] - 1)
      BY <1>0, <2>1, <2>3 DEF Progress
    <3>2. got[g] - 1 \in Nat /\ (got[g] - 1) + 1 = got[g]
      BY <1>n, <3>1
    <3>3. discovered' = FirstCops(got[g])
      BY <2>1, <3>1, <3>2, FirstCopsAre
    <3>4. discovered' = FirstCops(cop'[g] - 1) /\ cop'[g] - 1 <= CopsToFind'
      BY <1>n, <2>1, <3>1, <3>3
    <3>5. pc'[g] = "lookup" /\ copMode'
      BY <1>o, <2>1, <2>3, <3>1
    <3> QED BY <3>4, <3>5 DEF Progress
  <2> QED BY <2>2, <2>3
<1>7. CASE \/ Pick(g) \/ IndexPanic(g) \/ DialOk(g) \/ DialFail(g)
           \/ TlsHandshake(g) \/ UpgradeWebSocket(g) \/ TlsFail(g)
  <2> pc'[g] \in {"dial", "failed", "panic", "tls", "up", "check", "ws"}
    BY <1>0, <1>7 DEF Pick, IndexPanic, DialOk, DialFail, TlsHandshake, UpgradeWebSocket, TlsFail,
                      GiveUp, Goto, Places
  <2> QED BY DEF Progress
<1> QED BY <1>1, <1>2, <1>3, <1>4, <1>5, <1>6, <1>7 DEF ConnectorStep

\* What any goroutine has found is in the list after the step.
LEMMA ProgressKeeps ==
    ASSUME Types, Undisturbed, NEW g \in Conns, ConnectorStep(g), ~raced', NEW h \in Conns
    PROVE  Progress(h)'
<1>1. CASE h = g
  BY <1>1, OwnProgress
<1>2. CASE h # g /\ Discovering(h)
  <2>1. discovered' = discovered
    BY <1>2, OnlyDiscoverersWrite, Zenon DEF Undisturbed, OneDiscovers
  <2>2. Same(h) /\ copMode' = copMode /\ CopsToFind' = CopsToFind
    BY <1>2, OthersStay, OptionsStay, Zenon DEF CopsToFind
  <2>3. Progress(h)
    BY Zenon DEF Undisturbed
  <2> QED BY <2>1, <2>2, <2>3, Zenon DEF Progress, Same
<1>3. CASE h # g /\ ~Discovering(h)
  <2>1. Same(h)
    BY <1>3, OthersStay
  <2>2. pc'[h] = pc[h]
    BY <2>1, Zenon DEF Same
  <2>3. pc'[h] \notin {"reset", "lookup", "append", "write", "settle"}
    BY <1>3, <2>2, Zenon DEF Discovering
  <2> QED BY <2>3 DEF Progress
<1> QED BY <1>1, <1>2, <1>3

\* Without a discovery the list stays empty or complete.
LEMMA ListIsCompleteKeeps ==
    ASSUME Types, Undisturbed, NEW g \in Conns, ConnectorStep(g), ~raced'
    PROVE  ListIsComplete'
<1>0. Options /\ Shared /\ Places /\ Search /\ Progress(g)
  BY DEF Types, Undisturbed
<1>r. Reference' = Reference
  <2> copMode' = copMode /\ cops' = cops /\ lastCop' = lastCop
    BY OptionsStay
  <2> QED BY Zenon DEF Reference
<1>1. SUFFICES ASSUME \A f \in Conns : ~Discovering(f)'
               PROVE  discovered' = <<>> \/ discovered' = Reference
  BY <1>r DEF ListIsComplete
<1>2. CASE ~Discovering(g)
  <2>1. discovered' = discovered
    BY <1>2, OnlyDiscoverersWrite
  <2>2. \A f \in Conns : ~Discovering(f)
    BY <1>1, <1>2, OneBegins, Zenon
  <2> QED BY <2>1, <2>2, Zenon DEF Undisturbed, ListIsComplete
<1>3. CASE Discovering(g)
  <2>0. CopsToFind \in Nat
    <3> CopsToFind \in 0..cops /\ cops \in Nat
      BY <1>0, CopsEnd, MaxCopsAssumption DEF Options
    <3> QED OBVIOUS
  <2>1. pc'[g] \notin {"reset", "lookup", "append", "write", "settle"}
    BY <1>1, Zenon DEF Discovering
  <2>2. LookupHost(g) \/ AppendWrite(g)
    BY <1>0, <1>3, <2>1 DEF ConnectorStep, Discovering, Check, Reset, LookupCop, AppendRead,
       Pick, IndexPanic, DialOk, DialFail, TlsHandshake, UpgradeWebSocket, TlsFail, Goto, Places
  <2>3. CASE LookupHost(g)
    <3>1. discovered' = discovered /\ pc[g] = "settle"
      BY <2>3, Zenon DEF LookupHost, shared
    <3>2. CASE copMode
      <4>1. discovered = FirstCops(CopsToFind)
        BY <1>0, <3>1, <3>2 DEF Progress
      <4>2. CASE CopsToFind > 0
        BY <1>0, <3>1, <3>2, <4>1, <4>2, CompleteList
      <4>3. CASE CopsToFind = 0
        <5> discovered = <<>>
          BY <4>1, <4>3, FirstCopsAre
        <5> QED BY <3>1
      <4> QED BY <2>0, <4>2, <4>3
    <3>3. CASE ~copMode
      BY <1>0, <3>1, <3>3 DEF Progress
    <3> QED BY <3>2, <3>3
  <2>4. CASE AppendWrite(g)
    <3>1. pc[g] = "write" /\ discovered' = Append(discovered, got[g])
      <4>1. pc[g] = "write" /\ discovered' = Append(snap[g], got[g])
        BY <2>4, Zenon DEF AppendWrite
      <4>2. snap[g] = discovered
        BY <1>0, <4>1, Zenon DEF Progress
      <4> QED BY <4>1, <4>2
    <3>2. got[g] = Host
      <4> SUFFICES ASSUME got[g] # Host PROVE FALSE
        OBVIOUS
      <4> pc'[g] = "lookup"
        BY <1>0, <2>4 DEF AppendWrite, Goto, Places
      <4> QED BY <2>1
    <3>3. discovered = <<>> /\ ~(copMode /\ CopsToFind > 0)
      <4>1. \/ got[g] \in 1..CopsToFind
            \/ (copMode => CopsToFind = 0) /\ discovered = <<>>
        BY <1>0, <3>1 DEF Progress
      <4>2. got[g] \notin 1..CopsToFind
        BY <3>2 DEF Host
      <4> QED BY <2>0, <4>1, <4>2
    <3>4. Reference = <<Host>>
      BY <1>0, <3>3, CompleteList
    <3> QED BY <3>1, <3>2, <3>3, <3>4
  <2> QED BY <2>2, <2>3, <2>4
<1> QED BY <1>2, <1>3

-----------------------------------------------------------------------------
(* The rotation.                                                           *)

\* A rotation of c indexes from s: those before i, wrapping around, and what the next
\* index adds to them.
Passed(c, s, i) == IF s <= i THEN s..(i - 1) ELSE (s..(c - 1)) \cup (0..(i - 1))

\* Moving to the next index passes one more, and back at the start all are passed.
LEMMA RotationAdvances ==
    ASSUME NEW c \in Nat \ {0}, NEW s \in 0..(c - 1), NEW i \in 0..(c - 1)
    PROVE  /\ Passed(c, s, i) \subseteq 0..(c - 1)
           /\ (i + 1) % c # s => Passed(c, s, (i + 1) % c) \subseteq Passed(c, s, i) \cup {i}
           /\ (i + 1) % c = s => 0..(c - 1) \subseteq Passed(c, s, i) \cup {i}
<1>1. (i + 1) % c = IF i + 1 < c THEN i + 1 ELSE 0
  BY NextIndexIs
<1>2. CASE i + 1 < c
  <2>1. (i + 1) % c = i + 1
    BY <1>1, <1>2
  <2> QED BY <1>2, <2>1 DEF Passed
<1>3. CASE i + 1 = c
  <2>1. (i + 1) % c = 0
    BY <1>1, <1>3
  <2> QED BY <1>3, <2>1 DEF Passed
<1> QED BY <1>2, <1>3

\* Where a goroutine that dials is in its list.
LEMMA DialsWithin ==
    ASSUME Types, NEW g \in Conns
    PROVE  /\ cnt[g] \in Nat
           /\ pc[g] = "dial" => /\ cnt[g] \in Nat \ {0} /\ idx[g] \in 0..(cnt[g] - 1)
                                /\ start[g] \in 0..(cnt[g] - 1) /\ Visited(g) \subseteq 0..(cnt[g] - 1)
<1>1. cnt[g] \in Nat /\ (cnt[g] = 0 \/ (idx[g] \in 0..(cnt[g] - 1) /\ start[g] \in 0..(cnt[g] - 1)))
      /\ (pc[g] = "dial" => cnt[g] # 0)
  BY DEF Types, Dial, Indexes, ListToDial
<1>2. ASSUME pc[g] = "dial"
      PROVE  Visited(g) \subseteq 0..(cnt[g] - 1)
  <2>1. cnt[g] \in Nat \ {0} /\ idx[g] \in 0..(cnt[g] - 1) /\ start[g] \in 0..(cnt[g] - 1)
    BY <1>1, <1>2
  <2>2. Passed(cnt[g], start[g], idx[g]) \subseteq 0..(cnt[g] - 1)
    BY <2>1, RotationAdvances
  <2> QED BY <2>2, Zenon DEF Visited, Passed
<1> QED BY <1>1, <1>2

\* A rotation that does not move keeps what it has, as the list only grows.
LEMMA RotationStays ==
    ASSUME Types, NEW h \in Conns, Rotation(h),
           Len(discovered) <= Len(discovered'),
           \A i \in 1..Len(discovered) : discovered'[i] = discovered[i],
           Len(discovered) \in Nat, Len(discovered') \in Nat,
           pc'[h] = pc[h], cnt'[h] = cnt[h], idx'[h] = idx[h], start'[h] = start[h],
           tried'[h] = tried[h], err'[h] = err[h]
    PROVE  Rotation(h)'
<1>1. /\ cnt[h] \in Nat
      /\ pc[h] = "dial" => Visited(h) \subseteq 0..(cnt[h] - 1)
  BY DialsWithin
<1>2. Visited(h)' = Visited(h)
  BY Zenon DEF Visited
<1>3. pc'[h] = "dial" \/ err'[h] = "dial" => cnt'[h] <= Len(discovered')
  <2>1. pc[h] = "dial" \/ err[h] = "dial" => cnt[h] <= Len(discovered)
    BY Zenon DEF Rotation
  <2> QED BY <1>1, <2>1
<1>4. ASSUME pc'[h] = "dial", NEW i \in Visited(h)
      PROVE  discovered'[i + 1] \in tried'[h]
  <2>1. i \in 0..(cnt[h] - 1) /\ cnt[h] <= Len(discovered)
    BY <1>1, <1>4, Zenon DEF Rotation
  <2>2. i + 1 \in 1..Len(discovered)
    BY <1>1, <2>1
  <2>3. discovered[i + 1] \in tried[h]
    BY <1>4, Zenon DEF Rotation
  <2> QED BY <2>2, <2>3
<1>5. ASSUME err'[h] = "dial", NEW i \in 0..(cnt[h] - 1)
      PROVE  discovered'[i + 1] \in tried'[h]
  <2>1. cnt[h] <= Len(discovered)
    BY <1>5, Zenon DEF Rotation
  <2>2. i + 1 \in 1..Len(discovered)
    BY <1>1, <2>1
  <2>3. discovered[i + 1] \in tried[h]
    BY <1>5, Zenon DEF Rotation
  <2> QED BY <2>2, <2>3
<1>6. (err'[h] # "none" => pc'[h] = "failed") /\ pc'[h] # "panic"
  BY Zenon DEF Rotation
<1> QED BY <1>2, <1>3, <1>4, <1>5, <1>6, Zenon DEF Rotation

\* The rotation of the goroutine that dials in vain.
LEMMA DialFailKeeps ==
    ASSUME Types, Undisturbed, NEW g \in Conns, DialFail(g)
    PROVE  Rotation(g)'
<1>0. Shared /\ Places /\ Dial /\ Link /\ Rotation(g)
  BY DEF Types, Undisturbed
<1>1. /\ pc[g] = "dial" /\ discovered' = discovered /\ cnt' = cnt /\ start' = start
      /\ tried' = [tried EXCEPT ![g] = @ \cup {discovered[idx[g] + 1]}]
      /\ idx' = [idx EXCEPT ![g] = NextIndex(g)]
  BY Zenon DEF DialFail, shared
<1>2. /\ cnt[g] \in Nat \ {0} /\ idx[g] \in 0..(cnt[g] - 1) /\ start[g] \in 0..(cnt[g] - 1)
      /\ cnt[g] <= Len(discovered)
  BY <1>0, <1>1, DialsWithin, Zenon DEF Rotation
<1>3. /\ idx'[g] = (idx[g] + 1) % cnt[g]
      /\ tried'[g] = tried[g] \cup {discovered[idx[g] + 1]}
  BY <1>0, <1>1, Zenon DEF Dial, NextIndex
<1> DEFINE P == Passed(cnt[g], start[g], idx[g])
<1>4. \A i \in P : discovered[i + 1] \in tried[g]
  BY <1>0, <1>1, Zenon DEF Rotation, Visited, Passed
<1>5. \A i \in P \cup {idx[g]} : discovered'[i + 1] \in tried'[g]
  BY <1>1, <1>3, <1>4, Zenon
<1>6. err[g] = "none"
  BY <1>0, <1>1 DEF Rotation
<1>7. CASE idx'[g] # start[g]
  <2>1. pc' = pc /\ err' = err
    BY <1>7, Zenon DEF DialFail
  <2>2. Visited(g)' \subseteq P \cup {idx[g]}
    <3>1. Passed(cnt[g], start[g], idx'[g]) \subseteq P \cup {idx[g]}
      BY <1>2, <1>3, <1>7, RotationAdvances
    <3>2. Visited(g)' = Passed(cnt[g], start[g], idx'[g])
      BY <1>1, Zenon DEF Visited, Passed
    <3> QED BY <3>1, <3>2
  <2>3. \A i \in Visited(g)' : discovered'[i + 1] \in tried'[g]
    BY <1>5, <2>2, Zenon
  <2>4. cnt'[g] <= Len(discovered')
    BY <1>1, <1>2
  <2>5. pc'[g] = "dial" /\ err'[g] = "none"
    BY <1>1, <1>6, <2>1
  <2> HIDE DEF P
  <2> QED BY <2>3, <2>4, <2>5 DEF Rotation
<1>8. CASE idx'[g] = start[g]
  <2>1. GiveUp(g, "dial")
    BY <1>8, Zenon DEF DialFail
  <2>2. \/ pc'[g] = "check" /\ err'[g] = "none"
        \/ pc'[g] = "failed" /\ err'[g] = "dial"
    BY <1>0, <1>6, <2>1 DEF GiveUp, Goto, Places, Link
  <2>3. 0..(cnt[g] - 1) \subseteq P \cup {idx[g]}
    BY <1>2, <1>3, <1>8, RotationAdvances
  <2>4. \A i \in 0..(cnt'[g] - 1) : discovered'[i + 1] \in tried'[g]
    BY <1>1, <1>5, <2>3, Zenon
  <2>5. cnt'[g] <= Len(discovered')
    BY <1>1, <1>2
  <2> HIDE DEF P
  <2> QED BY <2>2, <2>4, <2>5 DEF Rotation
<1> QED BY <1>7, <1>8

\* A goroutine that does not dial and has not failed to has no rotation to keep.
LEMMA NoRotation ==
    ASSUME NEW g \in Conns, pc'[g] \notin {"dial", "panic"}, err'[g] # "dial",
           err'[g] # "none" => pc'[g] = "failed"
    PROVE  Rotation(g)'
<1>1. pc'[g] # "dial" /\ pc'[g] # "panic"
  OBVIOUS
<1> QED BY <1>1, Zenon DEF Rotation

\* The rotation of the goroutine that takes the step.
LEMMA OwnRotation ==
    ASSUME Types, Undisturbed, NEW g \in Conns, ConnectorStep(g)
    PROVE  Rotation(g)'
<1>0. Shared /\ Places /\ Dial /\ Link /\ Rotation(g)
  BY DEF Types, Undisturbed
<1>e. pc[g] # "failed" => err[g] = "none"
  BY <1>0, Zenon DEF Rotation
<1>1. CASE \/ Check(g) \/ Reset(g) \/ LookupCop(g) \/ AppendRead(g) \/ AppendWrite(g)
           \/ DialOk(g) \/ UpgradeWebSocket(g)
  <2>1. err' = err
    BY <1>1, Zenon DEF Check, Reset, LookupCop, AppendRead, AppendWrite, DialOk, UpgradeWebSocket, link
  <2>2. pc[g] # "failed" /\ pc'[g] \notin {"dial", "panic"}
    BY <1>0, <1>1 DEF Check, Reset, LookupCop, AppendRead, AppendWrite, DialOk, UpgradeWebSocket,
                      Goto, Places
  <2>3. err'[g] = "none"
    BY <1>e, <2>1, <2>2
  <2> QED BY <2>2, <2>3, NoRotation
<1>2. CASE LookupHost(g)
  <2>1. pc[g] = "settle"
    BY <1>2, Zenon DEF LookupHost
  <2>2. err[g] = "none"
    BY <1>e, <2>1
  <2>3. \/ pc'[g] \in {"pick", "append"} /\ err'[g] = "none"
        \/ pc'[g] = "failed" /\ err'[g] = "host"
    BY <1>0, <1>2, <2>2 DEF LookupHost, Goto, Places, Link
  <2> QED BY <2>3, NoRotation
<1>3. CASE Pick(g)
  <2>1. pc[g] = "pick" /\ discovered' = discovered
    BY <1>3, Zenon DEF Pick, shared
  <2>2. err[g] = "none"
    BY <1>e, <2>1
  <2>3. CASE discovered = <<>>
    <3>1. pc'[g] = "failed" /\ err'[g] = "noAddress"
      BY <1>0, <1>3, <2>3 DEF Pick, Goto, Places, Link
    <3> QED BY <3>1, NoRotation
  <2>4. CASE discovered # <<>>
    <3>1. PICK i \in 0..(Len(discovered) - 1) : idx' = [idx EXCEPT ![g] = i]
      BY <1>3, <2>4, Zenon DEF Pick
    <3>2. /\ cnt' = [cnt EXCEPT ![g] = Len(discovered)] /\ start' = [start EXCEPT ![g] = idx'[g]]
          /\ err' = err
      BY <1>3, <2>4, Zenon DEF Pick
    <3>3. idx'[g] = i /\ start'[g] = i /\ cnt'[g] = Len(discovered)
      BY <1>0, <3>1, <3>2, Zenon DEF Dial
    <3>4. pc'[g] = "dial"
      BY <1>0, <1>3, <2>4 DEF Pick, Goto, Places
    <3>5. i \in Nat /\ Len(discovered) \in Nat
      BY <1>0, <3>1 DEF Shared
    <3>6. Visited(g)' = {}
      <4>1. Visited(g)' = i..(i - 1)
        <5> i <= i
          BY <3>5
        <5> QED BY <3>3, Zenon DEF Visited
      <4> QED BY <3>5, <4>1
    <3>7. err'[g] = "none" /\ cnt'[g] <= Len(discovered')
      BY <2>1, <2>2, <3>2, <3>3, <3>5
    <3>8. \A j \in Visited(g)' : discovered'[j + 1] \in tried'[g]
      BY <3>6
    <3> QED BY <3>4, <3>7, <3>8 DEF Rotation
  <2> QED BY <2>3, <2>4
<1>4. CASE IndexPanic(g)
  <2>1. pc[g] = "dial" /\ idx[g] >= Len(discovered)
    BY <1>4, Zenon DEF IndexPanic
  <2>2. cnt[g] \in Nat \ {0} /\ idx[g] \in 0..(cnt[g] - 1) /\ cnt[g] <= Len(discovered)
    BY <1>0, <2>1, DialsWithin, Zenon DEF Rotation
  <2>3. Len(discovered) \in Nat
    BY <1>0 DEF Shared
  <2>4. FALSE
    BY <2>1, <2>2, <2>3
  <2> QED BY <2>4
<1>5. CASE DialFail(g)
  BY <1>5, DialFailKeeps
<1>6. CASE TlsHandshake(g) \/ TlsFail(g)
  <2>1. pc[g] \in {"tls", "ws"}
    BY <1>6 DEF TlsHandshake, TlsFail
  <2>2. err[g] = "none"
    BY <1>e, <2>1
  <2>3. GiveUp(g, "tls") \/ GiveUp(g, pc[g]) \/ (Goto(g, "ws") /\ err' = err)
    BY <1>6, Zenon DEF TlsHandshake, TlsFail
  <2>4. CASE GiveUp(g, "tls") \/ GiveUp(g, pc[g])
    <3>1. \/ pc'[g] = "check" /\ err'[g] = "none"
          \/ pc'[g] = "failed" /\ err'[g] \in {"tls", "ws"}
      BY <1>0, <2>1, <2>2, <2>4 DEF GiveUp, Goto, Places, Link
    <3> QED BY <3>1, NoRotation
  <2>5. CASE Goto(g, "ws") /\ err' = err
    <3>1. pc'[g] = "ws" /\ err'[g] = "none"
      BY <1>0, <2>2, <2>5 DEF Goto, Places
    <3> QED BY <3>1, NoRotation
  <2> QED BY <2>3, <2>4, <2>5
<1> QED BY <1>1, <1>2, <1>3, <1>4, <1>5, <1>6 DEF ConnectorStep

\* As long as no two discoveries overlap, a step leaves the list and the rotations sound.
LEMMA UndisturbedKeeps ==
    ASSUME Types, Undisturbed, NEW g \in Conns, ConnectorStep(g), ~raced'
    PROVE  Undisturbed'
<1>1. OneDiscovers' /\ ListIsComplete'
  BY OneDiscoversKeeps, ListIsCompleteKeeps
<1>2. \A h \in Conns : Progress(h)'
  BY ProgressKeeps
<1>3. Rotation(g)'
  BY OwnRotation
<1>4. ASSUME NEW h \in Conns, h # g
      PROVE  Rotation(h)'
  <2>1. Same(h)
    BY <1>4, OthersStay
  <2>2. Progress(g) /\ Rotation(h)
    BY Zenon DEF Undisturbed
  <2>3. /\ Len(discovered) <= Len(discovered')
        /\ \A i \in 1..Len(discovered) : discovered'[i] = discovered[i]
    BY <2>2, ListGrows
  <2>4. Len(discovered) \in Nat /\ Len(discovered') \in Nat
    <3>1. Shared /\ Shared'
      BY TypesKeep, Zenon DEF Types
    <3> QED BY <3>1 DEF Shared
  <2>5. /\ pc'[h] = pc[h] /\ cnt'[h] = cnt[h] /\ idx'[h] = idx[h] /\ start'[h] = start[h]
        /\ tried'[h] = tried[h] /\ err'[h] = err[h]
    BY <2>1, Zenon DEF Same
  <2> QED BY <2>2, <2>3, <2>4, <2>5, RotationStays
<1> QED BY <1>1, <1>2, <1>3, <1>4, Zenon DEF Undisturbed

\* A goroutine starts with an empty list and nothing dialled.
LEMMA InitUndisturbed == Init => Undisturbed
<1> SUFFICES ASSUME Init PROVE Undisturbed
  OBVIOUS
<1>1. ASSUME NEW g \in Conns
      PROVE  pc[g] \in {"idle", "absent"} /\ err[g] = "none"
  BY DEF Init, ConnectorInit
<1>2. \A g \in Conns : ~Discovering(g)
  BY <1>1 DEF Discovering
<1>3. OneDiscovers
  BY <1>2, Zenon DEF OneDiscovers
<1>4. ListIsComplete
  BY DEF Init, ConnectorInit, ListIsComplete
<1>5. ASSUME NEW g \in Conns
      PROVE  Progress(g) /\ Rotation(g)
  BY <1>1 DEF Progress, Rotation
<1> QED BY <1>3, <1>4, <1>5 DEF Undisturbed

\* Two discoveries that overlapped stay known.
LEMMA RacedStays ==
    ASSUME NEW g \in Conns, ConnectorStep(g), raced
    PROVE  raced'
BY Zenon DEF ConnectorStep, Check, Reset, LookupCop, LookupHost, AppendRead, AppendWrite, Pick, IndexPanic,
       DialOk, DialFail, TlsHandshake, UpgradeWebSocket, TlsFail, shared

\* A logon leaves the list and the rotations alone.
LEMMA LoggingOnIsApart ==
    ASSUME Types, Undisturbed, LoggingOn
    PROVE  Undisturbed'
<1>0. Places /\ Link /\ Observed \in Conns
  BY ObservedAssumption DEF Types
<1>1. /\ level' = level /\ copMode' = copMode /\ cops' = cops /\ lastCop' = lastCop /\ hostKnown' = hostKnown
      /\ discovered' = discovered /\ raced' = raced /\ cop' = cop /\ got' = got /\ snap' = snap
      /\ cnt' = cnt /\ idx' = idx /\ start' = start /\ tried' = tried /\ fallback' = fallback
  BY Zenon DEF LoggingOn, dns, options, shared, search, dial
<1>2. ASSUME NEW h \in Conns
      PROVE  \/ pc'[h] = pc[h] /\ err'[h] = err[h]
             \/ pc[h] = "up" /\ pc'[h] = "failed" /\ err'[h] = "logon"
  <2>1. pc[Observed] = "up"
    BY Zenon DEF LoggingOn
  <2>2. CASE pc' = pc /\ err' = err
    BY <2>2
  <2>3. CASE pc' = [pc EXCEPT ![Observed] = "failed"] /\ err' = [err EXCEPT ![Observed] = "logon"]
    BY <1>0, <2>1, <2>3 DEF Places, Link
  <2> QED BY <2>2, <2>3, Zenon DEF LoggingOn, Goto
<1>3. ASSUME NEW h \in Conns
      PROVE  Discovering(h)' <=> Discovering(h)
  <2>1. CASE pc'[h] = pc[h]
    BY <2>1, Zenon DEF Discovering
  <2>2. CASE pc[h] = "up" /\ pc'[h] = "failed"
    BY <2>2 DEF Discovering
  <2> QED BY <1>2, <2>1, <2>2
<1>4. Reference' = Reference /\ CopsToFind' = CopsToFind
  BY <1>1, Zenon DEF Reference, CopsToFind
<1>5. OneDiscovers' /\ ListIsComplete'
  BY <1>1, <1>3, <1>4, Zenon DEF Undisturbed, OneDiscovers, ListIsComplete
<1>6. ASSUME NEW h \in Conns
      PROVE  Progress(h)' /\ Rotation(h)'
  <2>1. Progress(h) /\ Rotation(h)
    BY Zenon DEF Undisturbed
  <2>2. CASE pc'[h] = pc[h] /\ err'[h] = err[h]
    BY <1>1, <1>4, <2>1, <2>2, Zenon DEF Progress, Rotation, Visited
  <2>3. CASE pc'[h] = "failed" /\ err'[h] = "logon"
    BY <2>3 DEF Progress, Rotation
  <2> QED BY <1>2, <2>2, <2>3
<1> QED BY <1>5, <1>6, Zenon DEF Undisturbed

\* A step that leaves the connector alone leaves the list and the rotations alone.
LEMMA ApartKeeps ==
    ASSUME ListInv, UNCHANGED connectorVars
    PROVE  ListInv'
<1>1. /\ dns' = dns /\ options' = options /\ shared' = shared /\ pc' = pc /\ search' = search
      /\ dial' = dial /\ link' = link
  BY Zenon DEF connectorVars
<1>2. /\ level' = level /\ copMode' = copMode /\ cops' = cops /\ lastCop' = lastCop /\ hostKnown' = hostKnown
      /\ discovered' = discovered /\ raced' = raced /\ cop' = cop /\ got' = got /\ snap' = snap
      /\ cnt' = cnt /\ idx' = idx /\ start' = start /\ tried' = tried /\ err' = err
  BY <1>1, Zenon DEF dns, options, shared, search, dial, link
<1>3. Reference' = Reference /\ CopsToFind' = CopsToFind
  BY <1>2, Zenon DEF Reference, CopsToFind
<1> QED BY <1>1, <1>2, <1>3, Zenon DEF ListInv, Undisturbed, OneDiscovers, ListIsComplete, Discovering,
                                      Progress, Rotation, Visited

\* The list and the rotations stay sound, whatever the goroutines do.
THEOREM ListIsSound == Spec => []ListInv
<1>1. Init => ListInv
  BY InitUndisturbed, Zenon DEF ListInv
<1>2. IInv /\ ListInv /\ [Next]_vars => ListInv'
  <2> SUFFICES ASSUME IInv, ListInv, [Next]_vars PROVE ListInv'
    OBVIOUS
  <2>0. Types
    BY Zenon DEF IInv
  <2>1. ASSUME NEW g \in Conns, Dialling(g)
        PROVE  ListInv'
    <3> SUFFICES ASSUME ~raced' PROVE Undisturbed'
      BY Zenon DEF ListInv
    <3>1. ConnectorStep(g)
      BY <2>1, Zenon DEF Dialling
    <3>2. ~raced
      BY <3>1, RacedStays
    <3>3. Undisturbed
      BY <3>2, Zenon DEF ListInv
    <3> QED BY <2>0, <3>1, <3>3, UndisturbedKeeps
  <2>2. CASE LoggingOn
    <3> SUFFICES ASSUME ~raced' PROVE Undisturbed'
      BY Zenon DEF ListInv
    <3>1. ~raced
      BY <2>2, Zenon DEF LoggingOn, shared
    <3>2. Undisturbed
      BY <3>1, Zenon DEF ListInv
    <3> QED BY <2>0, <2>2, <3>2, LoggingOnIsApart
  <2>3. CASE Requesting
    BY <2>3, ApartKeeps, Zenon DEF Requesting
  <2>4. CASE UNCHANGED vars
    BY <2>4, ApartKeeps, Zenon DEF vars
  <2> QED BY <2>1, <2>2, <2>3, <2>4, Zenon DEF Next, Done
<1> QED BY <1>1, <1>2, Invariance, PTL DEF Spec

\* For any number of COPs and of goroutines: as long as no two discoveries overlap,
\* Connect never panics, a goroutine that dials from a finished list has the whole list
\* before it, and Connect gives up only after it has dialled every address of it.
THEOREM EveryAddressIsTried == Spec => []AddressesAreTried
<1>1. IInv /\ ListInv => AddressesAreTried
  <2> SUFFICES ASSUME IInv, ListInv, ~raced
               PROVE  /\ \A g \in Conns :
                            /\ pc[g] # "panic"
                            /\ pc[g] = "dial" /\ cnt[g] = Len(discovered) /\ ~(\E h \in Conns : Discovering(h))
                               => discovered = Reference
                      /\ \A g \in Conns :
                            err[g] = "dial" => {discovered[i] : i \in 1..cnt[g]} \subseteq tried[g]
    BY Zenon DEF AddressesAreTried, ListIsStable, EveryAddressTried
  <2>0. Types /\ Undisturbed
    BY Zenon DEF IInv, ListInv
  <2>1. ASSUME NEW g \in Conns
        PROVE  pc[g] # "panic"
    BY <2>0, Zenon DEF Undisturbed, Rotation
  <2>2. ASSUME NEW g \in Conns, pc[g] = "dial", cnt[g] = Len(discovered), ~(\E h \in Conns : Discovering(h))
        PROVE  discovered = Reference
    <3>1. discovered \in {<<>>, Reference}
      BY <2>0, <2>2, Zenon DEF Undisturbed, ListIsComplete
    <3>2. Len(discovered) # 0
      BY <2>0, <2>2, Zenon DEF Types, ListToDial
    <3>3. discovered # <<>>
      BY <3>2
    <3> QED BY <3>1, <3>3
  <2>3. ASSUME NEW g \in Conns, err[g] = "dial", NEW i \in 1..cnt[g]
        PROVE  discovered[i] \in tried[g]
    <3>1. cnt[g] \in Nat
      BY <2>0 DEF Types, Dial
    <3>2. i - 1 \in 0..(cnt[g] - 1) /\ (i - 1) + 1 = i
      BY <2>3, <3>1
    <3>3. discovered[(i - 1) + 1] \in tried[g]
      BY <2>0, <2>3, <3>2, Zenon DEF Undisturbed, Rotation
    <3> QED BY <3>2, <3>3
  <2> QED BY <2>1, <2>2, <2>3
<1> QED BY <1>1, Invariance, ListIsSound, PTL
=============================================================================
