------------------------------- MODULE Connect -------------------------------
(***************************************************************************)
(* Connect as a whole: the goroutines of the connector, one of which is    *)
(* followed through its logon and its first requests.  Connect closes the  *)
(* connection whose handshake or authentication fails.  A logon shares     *)
(* nothing with other goroutines, so it is followed where there are none.  *)
(***************************************************************************)
EXTENDS Connector, Logon

CONSTANT Observed   \* the goroutine that is followed

ASSUME ObservedAssumption == Observed \in Conns

vars == <<connectorVars, logonVars>>

Init == ConnectorInit /\ LogonInit

Alone == \A g \in Conns \ {Observed} : pc[g] = "absent"

Dialling(g) == ConnectorStep(g) /\ UNCHANGED logonVars

LoggingOn ==
    /\ pc[Observed] = "up" /\ Alone /\ LogonStep(tls[Observed])
    /\ IF phase' = "failed"
       THEN /\ Goto(Observed, "failed") /\ err' = [err EXCEPT ![Observed] = "logon"]
            /\ sock' = [sock EXCEPT ![Observed] = FALSE]
       ELSE UNCHANGED <<pc, err, sock>>
    /\ UNCHANGED <<dns, options, shared, search, dial, tls, cert>>

Requesting == Request(tls[Observed]) /\ UNCHANGED connectorVars

Returned(g) ==
    \/ pc[g] \in {"failed", "panic", "absent"}
    \/ pc[g] = "up" /\ (g = Observed /\ Alone => phase = "on")

Done == (\A g \in Conns : Returned(g)) /\ UNCHANGED vars

Next == (\E g \in Conns : Dialling(g)) \/ LoggingOn \/ Requesting \/ Done

Spec == Init /\ [][Next]_vars /\ WF_vars(Dialling(Observed)) /\ WF_vars(LoggingOn)

-----------------------------------------------------------------------------
(* Properties.                                                             *)

TypeOK == ConnectorTypeOK /\ LogonTypeOK

\* As long as no two first connections overlap, Connect never panics, dials from a list
\* no later discovery pulls away, and fails only when every address was dialled.
AddressesAreTried == ListIsStable /\ EveryAddressTried

\* Through every retry and fallback a connection is as secure as SSLMODE asks, and an
\* attempt that failed or was abandoned leaves no socket behind.
ConnectedAsAsked == SecuredAsAsked /\ NoSocketLeaks

\* The password, and SQL where it must be, is encrypted or inside TLS; no nonce is used
\* twice with a key; and after a refused key both sides use the key that came later.
LogonIsSecure == Confidential(tls[Observed]) /\ NonceOnce /\ KeysAgree

\* Connect returns, with a connection that is logged on or with an error, whatever the
\* other goroutines do, if the network and the server answer and the server does not
\* refuse keys for ever.
ConnectReturns == <>Returned(Observed)
=============================================================================
