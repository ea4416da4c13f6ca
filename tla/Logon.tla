-------------------------------- MODULE Logon --------------------------------
(***************************************************************************)
(* The logon of one connection, and which of its messages are encrypted.   *)
(*                                                                         *)
(* handshake exchanges configurations and picks a security context: the    *)
(* simplified one when TLS protects the connection and the server allows   *)
(* it, else TD2 with a Diffie-Hellman key.  authenticate sends user and    *)
(* password.  Afterwards the caller sends SQL.  Any response may carry a   *)
(* security policy.                                                        *)
(***************************************************************************)
EXTENDS Integers, FiniteSets

CONSTANTS EncryptData,   \* the ENCRYPTDATA option
          MaxRefusals,   \* bound: client keys the server refuses
          MaxMessages,   \* bound: SQL messages
          Sizes          \* lengths of messages, as far as told apart

ASSUME LogonAssumption == EncryptData \in BOOLEAN /\ MaxRefusals \in Nat /\ MaxMessages \in Nat /\ Sizes \subseteq Nat

VARIABLES
    cidBypass,  \* the server lets TLS replace TD2
    qopUsable,  \* the cipher suites it offers include one the client has
    phase,      \* "config", "assign", "key", "connect", "on", "failed"
    gss,        \* "none", "tls" or "td2"
    wrapSeqNum,
    key,        \* the exchange the client's master key is from
    serverKey,  \* the exchange the server took its key from
    refusals,
    policy,     \* polSecurityRequired
    broken,     \* the connection is marked unusable
    sent,       \* messages written: kind, encryption, policy in force
    nonces,     \* nonces used with the session's key
    reused      \* some nonce was used twice

abilities == <<cidBypass, qopUsable>>
exchange == <<key, serverKey, refusals>>
logonVars == <<abilities, phase, gss, wrapSeqNum, exchange, policy, broken, sent, nonces, reused>>

\* Kinds of messages, as in packet_header.go.
Assign == 1
ConnectMsg == 3
Start == 5
Cfg == 10
SSOReq == 12

LogonInit ==
    /\ cidBypass = FALSE /\ qopUsable = FALSE
    /\ phase = "config" /\ gss = "none" /\ wrapSeqNum = 1
    /\ key = 0 /\ serverKey = 0 /\ refusals = 0
    /\ policy = FALSE /\ broken = FALSE
    /\ sent = {} /\ nonces = {} /\ reused = FALSE

-----------------------------------------------------------------------------
(* writeLanMessage.                                                        *)

\* Mutant: a logon counts as part of the handshake.
EncryptsDataOnly(kind, tls) ==
    /\ gss # "none" /\ ~tls
    /\ kind \notin {1, 2, 3, 4, 10, 11, 12} /\ (EncryptData \/ policy)
\* Logon always, the handshake never, the rest by configuration or policy.
Encrypts(kind, tls) ==
    /\ gss # "none" /\ ~tls
    /\ kind \in {3, 4} \/ (kind \notin {1, 2, 10, 11, 12} /\ (EncryptData \/ policy))

\* Mutant: the sequence number stays.
WrapSame(len) ==
    LET nonce == <<len, wrapSeqNum>> IN
    /\ reused' = (reused \/ nonce \in nonces)
    /\ nonces' = nonces \cup {nonce}
    /\ UNCHANGED wrapSeqNum
\* wrap: the nonce is the length and the sequence number of the token.
Wrap(len) ==
    LET nonce == <<len, wrapSeqNum>> IN
    /\ reused' = (reused \/ nonce \in nonces)
    /\ nonces' = nonces \cup {nonce}
    /\ wrapSeqNum' = wrapSeqNum + 1

\* The message goes out, wrapped if it must be ...
Written(kind, len, tls) ==
    /\ ~broken
    /\ IF Encrypts(kind, tls) THEN qopUsable /\ Wrap(len)
                              ELSE UNCHANGED <<wrapSeqNum, nonces, reused>>
    /\ sent' = sent \cup {[kind |-> kind, enc |-> Encrypts(kind, tls), policy |-> policy]}
\* ... or not: no cipher suite to wrap with, or the socket fails.
NotWritten(kind, len, tls) ==
    /\ \/ /\ Encrypts(kind, tls) /\ ~qopUsable /\ ~broken
          /\ UNCHANGED <<broken, wrapSeqNum, nonces, reused>>
       \/ /\ ~broken /\ broken' = TRUE
          /\ IF Encrypts(kind, tls) /\ qopUsable THEN Wrap(len)
                                                 ELSE UNCHANGED <<wrapSeqNum, nonces, reused>>
       \/ broken /\ UNCHANGED <<broken, wrapSeqNum, nonces, reused>>
    /\ UNCHANGED <<sent, policy>>

\* readLanMessageRawInto: a response may carry the policy in its control data.
ReadResponse ==
    /\ policy' \in BOOLEAN
    /\ UNCHANGED broken

Exchange(kind, len, tls) == Written(kind, len, tls) /\ ReadResponse
\* The exchange fails, or the server answers with an error.
ExchangeFails(kind, len, tls) ==
    \/ NotWritten(kind, len, tls)
    \/ /\ Written(kind, len, tls) /\ UNCHANGED policy
       /\ broken' \in BOOLEAN

-----------------------------------------------------------------------------
(* handshake.                                                              *)

\* handshake: TLS and the server's consent replace the TD2 context.
GssContext(tls, bypass) == IF tls /\ bypass THEN "tls" ELSE "td2"

\* configHandshake, and the choice of the context by mechanism and bypass.
ConfigHandshake(tls) ==
    /\ phase = "config"
    /\ \E len \in Sizes : Exchange(Cfg, len, tls)
    /\ cidBypass' \in BOOLEAN
    /\ \/ phase' = "assign" /\ gss' = GssContext(tls, cidBypass')
       \/ phase' = "failed" /\ UNCHANGED gss     \* no TD2, or no configuration in the answer
    /\ UNCHANGED <<qopUsable, exchange>>

\* The first message of establishSecureChannel, in both contexts.
AssignHandshake(tls) ==
    /\ phase = "assign"
    /\ \E len \in Sizes : Exchange(Assign, len, tls)
    /\ qopUsable' \in BOOLEAN
    /\ phase' \in {IF gss = "tls" THEN "connect" ELSE "key", "failed"}
    /\ UNCHANGED <<cidBypass, gss, exchange>>

\* Mutant: the key of a refused exchange is kept.
NewKeyOnce == IF key = 0 THEN 1 ELSE key
\* Every attempt draws a new secret and computes a new master key.
NewKey == key + 1

\* The key is sent until the server accepts it; nothing counts the attempts.
SendClientKey(tls) ==
    /\ phase = "key"
    /\ \E len \in Sizes : Exchange(SSOReq, len, tls)
    /\ key' = NewKey
    /\ \/ phase' = "connect" /\ serverKey' = refusals + 1 /\ UNCHANGED refusals
       \/ /\ refusals < MaxRefusals /\ refusals' = refusals + 1
          /\ UNCHANGED <<phase, serverKey>>
    /\ UNCHANGED <<abilities, gss>>

\* baseAuthenticate: a success or end parcel, or an answer with neither.
Authenticate(tls) ==
    /\ phase = "connect"
    /\ \E len \in Sizes : Exchange(ConnectMsg, len, tls)
    /\ phase' \in {"on", "failed"}
    /\ UNCHANGED <<abilities, gss, exchange>>

KindOf(p) == CASE p = "config" -> Cfg [] p = "assign" -> Assign
               [] p = "key" -> SSOReq [] p = "connect" -> ConnectMsg

LogonFails(tls) ==
    /\ phase \in {"config", "assign", "key", "connect"}
    /\ \E len \in Sizes : ExchangeFails(KindOf(phase), len, tls)
    /\ phase' = "failed"
    /\ UNCHANGED <<abilities, gss, exchange>>

LogonStep(tls) ==
    \/ ConfigHandshake(tls) \/ AssignHandshake(tls) \/ SendClientKey(tls) \/ Authenticate(tls)
    \/ LogonFails(tls)

\* SQL on the logged on session.
Request(tls) ==
    /\ phase = "on" /\ wrapSeqNum <= MaxMessages
    /\ \E len \in Sizes : Exchange(Start, len, tls) \/ ExchangeFails(Start, len, tls)
    /\ UNCHANGED <<abilities, phase, gss, exchange>>

-----------------------------------------------------------------------------
(* Properties.                                                             *)

LogonTypeOK ==
    /\ phase \in {"config", "assign", "key", "connect", "on", "failed"}
    /\ gss \in {"none", "tls", "td2"}
    /\ wrapSeqNum \in Nat \ {0} /\ key \in 0..(MaxRefusals + 1) /\ serverKey \in 0..(MaxRefusals + 1)
    /\ policy \in BOOLEAN /\ broken \in BOOLEAN /\ reused \in BOOLEAN

\* The password leaves the client encrypted or through TLS, whichever context was
\* negotiated; so does SQL if the option or the policy in force asks for it.
Confidential(tls) ==
    \A m \in sent : ~tls =>
        /\ m.kind = ConnectMsg => m.enc
        /\ m.kind = Start /\ (EncryptData \/ m.policy) => m.enc

\* No two messages are wrapped with the same nonce under the session's key.
NonceOnce == ~reused

\* From the end of the key exchange on, both sides use the key of the same attempt,
\* however many the server refused.
KeysAgree == phase \in {"connect", "on"} /\ gss = "td2" => key = serverKey
=============================================================================
