---------------------------- MODULE MCIntelLookup ----------------------------
(* A rate-limited provider that knows addresses and one without a limit that *)
(* knows addresses and mail addresses too, under a cache of one row that an   *)
(* earlier process filled.                                                   *)
EXTENDS IntelLookup, TLC

CONSTANTS ip, mail, ingest, sweep

MCWorkers == {ingest, sweep}
MCIndicators == {ip, mail}
MCBatches == ingest :> {<<>>, <<ip, mail>>} @@ sweep :> {<<ip>>, <<mail>>}
MCProviders == <<"virustotal", "misp">>
MCHandles == [virustotal |-> {ip}, misp |-> {ip, mail}]
MCTTL == ip :> 1 @@ mail :> 2
MCStored == <<"misp", mail>> :> [id |-> 1, expiresAt |-> 2,
                                 record |-> Record("misp", Definitive, 0, 0)]
MCLimited == {"virustotal"}
=============================================================================
