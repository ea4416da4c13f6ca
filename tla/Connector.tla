------------------------------ MODULE Connector ------------------------------
(***************************************************************************)
(* The connector: goroutines of database/sql that call Connect at the same *)
(* time share one list of discovered addresses, which no lock protects.    *)
(* Each looks the host's COPs up if the list is empty, dials the addresses *)
(* from a random one on, and, unless SSLMODE says otherwise, upgrades to   *)
(* TLS and a web socket or falls back to the port without TLS.             *)
(*                                                                         *)
(* Either all goroutines call Connect or one does.                         *)
(*                                                                         *)
(* COP i has address i.  The shared slice is read and written in separate  *)
(* steps, so an append may undo another goroutine's.                       *)
(***************************************************************************)
EXTENDS Integers, Sequences, FiniteSets

CONSTANTS Conns,     \* goroutines in Connect
          CopLast,   \* the COPLAST option
          SSLModes,  \* values of the SSLMODE option
          MaxCops    \* bound: COPs in the name service

Levels == [DISABLE |-> 0, ALLOW |-> 1, PREFER |-> 2, REQUIRE |-> 3,
           VERIFYCA |-> 4, VERIFYFULL |-> 5]

ASSUME ConnsAssumption == IsFiniteSet(Conns) /\ Conns # {}
ASSUME OptionsAssumption == CopLast \in BOOLEAN /\ SSLModes # {}
ASSUME MaxCopsAssumption == MaxCops \in Nat

Host == 0      \* the address of the host's own name

VARIABLES
    \* configuration and name service, fixed
    level, copMode,
    cops,        \* number of COPs that resolve
    lastCop,     \* the COP that coplast names, or 0
    hostKnown,
    \* shared
    discovered,
    raced,       \* two goroutines discovered at the same time
    \* per goroutine
    pc, cop, got, snap,   \* discovery: COP number, addresses found, slice read
    cnt, idx, start,      \* disIpCount, rotateIndex, startIndex
    tried,                \* addresses dialled in vain on the current port
    fallback,             \* tlsFallback
    sock, tls, cert, err

dns == <<cops, lastCop, hostKnown>>
options == <<level, copMode>>
shared == <<discovered, raced>>
search == <<cop, got, snap>>
dial == <<cnt, idx, start, tried, fallback>>
link == <<sock, tls, cert, err>>
connectorVars == <<dns, options, shared, pc, search, dial, link>>

\* decodeSslMode: a value it does not know is taken for PREFER.
DecodeSslMode(m) == IF m \in DOMAIN Levels THEN Levels[m] ELSE Levels.PREFER

ConnectorInit ==
    /\ level \in {DecodeSslMode(m) : m \in SSLModes}
    /\ copMode \in BOOLEAN
    /\ cops \in {0, MaxCops} /\ lastCop \in 0..cops /\ hostKnown \in BOOLEAN
    /\ discovered = <<>> /\ raced = FALSE
    /\ \E S \in {Conns} \cup {{g} : g \in Conns} :
          pc = [g \in Conns |-> IF g \in S THEN "idle" ELSE "absent"]
    /\ cop = [g \in Conns |-> 1]
    /\ got = [g \in Conns |-> Host]
    /\ snap = [g \in Conns |-> <<>>]
    /\ cnt = [g \in Conns |-> 0] /\ idx = [g \in Conns |-> 0] /\ start = [g \in Conns |-> 0]
    /\ tried = [g \in Conns |-> {}]
    /\ fallback = [g \in Conns |-> FALSE]
    /\ sock = [g \in Conns |-> FALSE] /\ tls = [g \in Conns |-> FALSE]
    /\ cert = [g \in Conns |-> {}]
    /\ err = [g \in Conns |-> "none"]

Goto(g, l) == pc' = [pc EXCEPT ![g] = l]

\* The locals of discoverIps and of connect end with the call.
ForgetSearch(g) ==
    /\ cop' = [cop EXCEPT ![g] = 1]
    /\ got' = [got EXCEPT ![g] = Host]
    /\ snap' = [snap EXCEPT ![g] = <<>>]
ForgetDial(g) ==
    /\ cnt' = [cnt EXCEPT ![g] = 0] /\ idx' = [idx EXCEPT ![g] = 0] /\ start' = [start EXCEPT ![g] = 0]
    /\ tried' = [tried EXCEPT ![g] = {}]
    /\ fallback' = [fallback EXCEPT ![g] = FALSE]

-----------------------------------------------------------------------------
(* Discovery.                                                              *)

Discovering(g) == pc[g] \in {"reset", "lookup", "append", "write", "settle"}

\* Mutant: the list is looked up again for every connection.
CheckAlways(g) ==
    /\ pc[g] \in {"idle", "check"}
    /\ Goto(g, "reset")
    /\ raced' = (raced \/ \E h \in Conns \ {g} : Discovering(h))
    /\ UNCHANGED <<dns, options, discovered, search, dial, link>>
\* connect: only an empty list is looked up.
Check(g) ==
    /\ pc[g] \in {"idle", "check"}
    /\ Goto(g, IF discovered = <<>> THEN "reset" ELSE "pick")
    /\ raced' = (raced \/ (discovered = <<>> /\ \E h \in Conns \ {g} : Discovering(h)))
    /\ UNCHANGED <<dns, options, discovered, search, dial, link>>

\* discoverIps begins with a new list.
Reset(g) ==
    /\ pc[g] = "reset"
    /\ discovered' = <<>>
    /\ cop' = [cop EXCEPT ![g] = 1]
    /\ Goto(g, IF copMode THEN "lookup" ELSE "settle")
    /\ UNCHANGED <<dns, options, raced, got, snap, dial, link>>

\* copDiscovery stops at a name that does not resolve and at the address of coplast.
EndOfCops(n) == n > cops \/ (CopLast /\ n = lastCop)

LookupCop(g) ==
    /\ pc[g] = "lookup"
    /\ IF EndOfCops(cop[g])
       THEN Goto(g, "settle") /\ UNCHANGED <<got, cop>>
       ELSE /\ Goto(g, "append")
            /\ got' = [got EXCEPT ![g] = cop[g]]
            /\ cop' = [cop EXCEPT ![g] = @ + 1]
    /\ UNCHANGED <<dns, options, shared, snap, dial, link>>

\* Without COPs the host's own name is looked up.
LookupHost(g) ==
    /\ pc[g] = "settle"
    /\ \/ copMode /\ discovered # <<>> /\ Goto(g, "pick") /\ UNCHANGED <<got, err>>
       \/ /\ ~copMode \/ discovered = <<>>
          /\ IF hostKnown
             THEN /\ Goto(g, "append") /\ got' = [got EXCEPT ![g] = Host]
                  /\ UNCHANGED err
             ELSE /\ Goto(g, "failed") /\ err' = [err EXCEPT ![g] = "host"]
                  /\ UNCHANGED got
    /\ UNCHANGED <<dns, options, shared, cop, snap, dial, sock, tls, cert>>

\* c.discoveredIps = append(c.discoveredIps, ips...): the slice is read ...
AppendRead(g) ==
    /\ pc[g] = "append"
    /\ snap' = [snap EXCEPT ![g] = discovered]
    /\ Goto(g, "write")
    /\ UNCHANGED <<dns, options, shared, cop, got, dial, link>>

\* ... and written.
AppendWrite(g) ==
    /\ pc[g] = "write"
    /\ discovered' = Append(snap[g], got[g])
    /\ Goto(g, IF got[g] = Host THEN "pick" ELSE "lookup")
    /\ UNCHANGED <<dns, options, raced, search, dial, link>>

-----------------------------------------------------------------------------
(* Dialling.                                                               *)

UseTls == level > Levels.ALLOW
\* Mutant: REQUIRE may fall back too.
AllowTlsFallbackToRequire == level <= Levels.REQUIRE
AllowTlsFallback == level < Levels.REQUIRE
\* Mutant: a fallback tries TLS again.
UsingTlsPortAlways(g) == UseTls /\ g \in Conns
UsingTlsPort(g) == UseTls /\ ~fallback[g]

\* A random address to begin with.
Pick(g) ==
    /\ pc[g] = "pick"
    /\ IF discovered = <<>>
       THEN /\ Goto(g, "failed") /\ err' = [err EXCEPT ![g] = "noAddress"]
            /\ UNCHANGED <<cnt, idx, start, tried>>
       ELSE /\ Goto(g, "dial")
            /\ cnt' = [cnt EXCEPT ![g] = Len(discovered)]
            /\ idx' \in {[idx EXCEPT ![g] = i] : i \in 0..(Len(discovered) - 1)}
            /\ start' = [start EXCEPT ![g] = idx'[g]]
            /\ tried' = [tried EXCEPT ![g] = {}]
            /\ UNCHANGED err
    /\ ForgetSearch(g)
    /\ UNCHANGED <<dns, options, shared, fallback, sock, tls, cert>>

\* The list is shared: it may have become shorter than disIpCount.
IndexPanic(g) ==
    /\ pc[g] = "dial" /\ idx[g] >= Len(discovered)
    /\ Goto(g, "panic")
    /\ UNCHANGED <<dns, options, shared, search, dial, link>>

DialOk(g) ==
    /\ pc[g] = "dial" /\ idx[g] < Len(discovered)
    /\ sock' = [sock EXCEPT ![g] = TRUE]
    /\ IF UsingTlsPort(g) THEN Goto(g, "tls") /\ UNCHANGED dial
                          ELSE Goto(g, "up") /\ ForgetDial(g)
    /\ UNCHANGED <<dns, options, shared, search, tls, cert, err>>

\* Mutant: the last address before the first one is not tried.
NextIndexSkipping(g) == IF cnt[g] > 1 /\ (idx[g] + 2) % cnt[g] = start[g] THEN start[g]
                        ELSE (idx[g] + 1) % cnt[g]
NextIndex(g) == (idx[g] + 1) % cnt[g]

\* Mutant: the socket of the failed attempt stays open.
GiveUpOpen(g, e) ==
    /\ IF UsingTlsPort(g) /\ AllowTlsFallback
       THEN /\ Goto(g, "check") /\ fallback' = [fallback EXCEPT ![g] = TRUE]
            /\ UNCHANGED err
       ELSE /\ Goto(g, "failed") /\ err' = [err EXCEPT ![g] = e]
            /\ UNCHANGED fallback
    /\ cert' = [cert EXCEPT ![g] = {}]
    /\ UNCHANGED sock
\* An attempt failed: once more without TLS if that was with and SSLMODE allows it.
GiveUp(g, e) ==
    /\ IF UsingTlsPort(g) /\ AllowTlsFallback
       THEN /\ Goto(g, "check") /\ fallback' = [fallback EXCEPT ![g] = TRUE]
            /\ UNCHANGED err
       ELSE /\ Goto(g, "failed") /\ err' = [err EXCEPT ![g] = e]
            /\ UNCHANGED fallback
    /\ cert' = [cert EXCEPT ![g] = {}]
    /\ sock' = [sock EXCEPT ![g] = FALSE]

DialFail(g) ==
    /\ pc[g] = "dial" /\ idx[g] < Len(discovered)
    /\ tried' = [tried EXCEPT ![g] = @ \cup {discovered[idx[g] + 1]}]
    /\ idx' = [idx EXCEPT ![g] = NextIndex(g)]
    /\ IF idx'[g] = start[g] THEN GiveUp(g, "dial") ELSE UNCHANGED <<pc, fallback, sock, cert, err>>
    /\ UNCHANGED <<dns, options, shared, search, cnt, start, tls>>

-----------------------------------------------------------------------------
(* TLS.                                                                    *)

\* getVerifyCertFn, for a certificate with the sound parts c.
VerifyCert(c) ==
    /\ level >= Levels.VERIFYCA => "chain" \in c
    /\ level = Levels.VERIFYFULL => "host" \in c

TlsHandshake(g) ==
    /\ pc[g] = "tls"
    /\ \E c \in SUBSET {"chain", "host"} :
          IF VerifyCert(c)
          THEN /\ Goto(g, "ws") /\ cert' = [cert EXCEPT ![g] = c]
               /\ UNCHANGED <<fallback, sock, err>>
          ELSE GiveUp(g, "tls")
    /\ UNCHANGED <<dns, options, shared, search, cnt, idx, start, tried, tls>>

UpgradeWebSocket(g) ==
    /\ pc[g] = "ws"
    /\ tls' = [tls EXCEPT ![g] = TRUE]
    /\ Goto(g, "up") /\ ForgetDial(g)
    /\ UNCHANGED <<dns, options, shared, search, sock, cert, err>>

\* No TLS on that port, or no web socket behind it.
TlsFail(g) ==
    /\ pc[g] \in {"tls", "ws"}
    /\ GiveUp(g, pc[g])
    /\ UNCHANGED <<dns, options, shared, search, cnt, idx, start, tried, tls>>

ConnectorStep(g) ==
    \/ Check(g) \/ Reset(g) \/ LookupCop(g) \/ LookupHost(g) \/ AppendRead(g) \/ AppendWrite(g)
    \/ Pick(g) \/ IndexPanic(g) \/ DialOk(g) \/ DialFail(g)
    \/ TlsHandshake(g) \/ UpgradeWebSocket(g) \/ TlsFail(g)

-----------------------------------------------------------------------------
(* Properties.                                                             *)

ConnectorTypeOK ==
    /\ level \in 0..5 /\ discovered \in Seq(0..MaxCops)
    /\ pc \in [Conns -> {"idle", "check", "reset", "lookup", "append", "write", "settle", "pick",
                         "dial", "tls", "ws", "up", "failed", "panic", "absent"}]
    /\ cop \in [Conns -> 1..(MaxCops + 1)]
    /\ \A g \in Conns : cnt[g] = 0 \/ (idx[g] \in 0..(cnt[g] - 1) /\ start[g] \in 0..(cnt[g] - 1))
    /\ err \in [Conns -> {"none", "host", "noAddress", "dial", "tls", "ws", "logon"}]

\* The addresses copDiscovery is to find: those of the COPs before the one that
\* coplast names, or all of them, or the host's own.
Reference ==
    LET n == IF CopLast /\ lastCop > 0 THEN lastCop - 1 ELSE cops
    IN  IF copMode /\ n > 0 THEN [i \in 1..n |-> i] ELSE <<Host>>

\* As long as no two first connections overlap, a goroutine that dials has the whole
\* list before it, and no later discovery pulls it away: Connect does not panic.
ListIsStable ==
    ~raced => \A g \in Conns :
        /\ pc[g] # "panic"
        /\ pc[g] = "dial" /\ cnt[g] = Len(discovered) /\ ~(\E h \in Conns : Discovering(h))
           => discovered = Reference

\* Connect gives up only after every address of the list was dialled, wherever the
\* rotation began.
EveryAddressTried ==
    ~raced => \A g \in Conns :
        err[g] = "dial" => {discovered[i] : i \in 1..cnt[g]} \subseteq tried[g]

\* A connection is as secure as SSLMODE asks, through every retry and fallback: from
\* REQUIRE on never without TLS, never with a certificate the mode rejects.
SecuredAsAsked ==
    \A g \in Conns : pc[g] = "up" =>
        /\ level >= Levels.REQUIRE => tls[g]
        /\ level <= Levels.ALLOW => ~tls[g]
        /\ tls[g] /\ level >= Levels.VERIFYCA => "chain" \in cert[g]
        /\ tls[g] /\ level = Levels.VERIFYFULL => "host" \in cert[g]

\* An attempt that failed or was abandoned for another leaves no socket behind.
NoSocketLeaks == \A g \in Conns : sock[g] => pc[g] \in {"tls", "ws", "up"}
=============================================================================
