---------------------------- MODULE AccessControl ----------------------------
(***************************************************************************)
(* Who may use the server: the survey cookie a magic key buys, the check   *)
(* in front of the test page, and the cache of authenticated addresses     *)
(* that the iperf3 server asks.  The cache is written by the HTTP handlers *)
(* and by a loop that walks the connected clients every second under the   *)
(* read lock of the client map; entries age and are swept by that loop.    *)
(*                                                                         *)
(* Time is kept as ages in ticks, capped where older makes no difference.  *)
(* A magic key is a sequence of parts, "hyphen" and "underscore" among     *)
(* them, because the cookie rewrites both.                                 *)
(***************************************************************************)
EXTENDS LoginFlow, Sequences

CONSTANTS Keys,           \* strings a visitor may enter
          MagicKeys,      \* magic_keys.magic_keys
          SurveyTimeout,  \* survey_timeout_seconds, in ticks
          IPs,            \* addresses as sockets report them
          Unmapped,       \* to_ipv4_mapped: the IPv4 address behind an address, or Absent
          Timeout,        \* auth_timeout_secs, in ticks
          Clients

ASSUME AccessAssumption ==
  /\ Keys \subseteq Seq(STRING)
  /\ MagicKeys \subseteq Keys
  /\ SurveyTimeout \in Nat
  /\ Timeout \in Nat \ {0}
  /\ Unmapped \in [IPs -> IPs \cup {Absent}]
  /\ Absent \notin IPs
  /\ \A ip \in IPs : Unmapped[ip] # Absent => Unmapped[Unmapped[ip]] = Absent

VARIABLES survey_cookie, \* the encoded key and its age
          entered,       \* history: the key the survey cookie was issued for
          registered,    \* clients in the map
          peer_address,  \* their addresses
          cache,         \* age of each address's entry; Timeout once useless
          swept,         \* addresses that have no entry
          syncing,       \* clients the sync loop has yet to visit; Absent while it sleeps
          callback,      \* the iperf3 server has its auth callback
          entitled       \* history: age of each address's last right to be let in

accessVars == <<survey_cookie, entered, registered, peer_address, cache, swept,
                syncing, callback, entitled>>

NormalizeIp(ip) == IF Unmapped[ip] # Absent THEN Unmapped[ip] ELSE ip

AccessTypeOK ==
  /\ registered \in SUBSET Clients
  /\ peer_address \in [Clients -> IPs \cup {Absent}]
  /\ cache \in [IPs -> 0..Timeout]
  /\ swept \in SUBSET IPs
  /\ syncing \in (SUBSET Clients) \cup {Absent}
  /\ callback \in BOOLEAN
  /\ entitled \in [IPs -> 0..Timeout]

AccessInit ==
  /\ survey_cookie = Absent
  /\ entered = Absent
  /\ registered = {}
  /\ peer_address = [c \in Clients |-> Absent]
  /\ cache = [ip \in IPs |-> Timeout]
  /\ swept = IPs
  /\ syncing = Absent
  /\ callback = FALSE
  /\ entitled = [ip \in IPs |-> Timeout]

-----------------------------------------------------------------------------
(* The survey cookie *)

\* replace("-", "_") when the cookie is made.
EncodeKey(key) == [i \in DOMAIN key |-> IF key[i] = "hyphen" THEN "underscore" ELSE key[i]]

\* split('_') and join("-") when it is read back.
DecodeKey(id) == [i \in DOMAIN id |-> IF id[i] = "underscore" THEN "hyphen" ELSE id[i]]

ValidateSurveySession ==
  /\ survey_cookie # Absent
  /\ survey_cookie.age <= SurveyTimeout
  /\ DecodeKey(survey_cookie.id) \in MagicKeys

\* Mutant: only a browser without a session cookie is asked for a survey cookie.
GrantsFirstCookie == IF session_cookie # Absent THEN SessionValid ELSE ValidateSurveySession

\* require_auth_or_survey_session: either cookie will do.
RequireAuthOrSurveySession == SessionValid \/ ValidateSurveySession

-----------------------------------------------------------------------------
(* The cache *)

RecordAuthRaw(ip) ==  \* mutant: a mapped address gets an entry of its own
  /\ cache' = [cache EXCEPT ![ip] = 0]
  /\ swept' = swept \ {ip}

RecordAuth(ip) ==
  /\ cache' = [cache EXCEPT ![NormalizeIp(ip)] = 0]
  /\ swept' = swept \ {NormalizeIp(ip)}

CheckAuth(ip) == /\ NormalizeIp(ip) \notin swept
                 /\ cache[NormalizeIp(ip)] < Timeout

\* is_ip_allowed with require_auth: no callback yet means nobody.
IsIpAllowed(ip) == callback /\ CheckAuth(NormalizeIp(ip))

Entitle(ip) == entitled' = [entitled EXCEPT ![NormalizeIp(ip)] = 0]

-----------------------------------------------------------------------------
(* HTTP handlers *)

\* magic_key_auth_with_cache: an unknown key changes nothing.
MagicKeyAuth(key, ip) ==
  /\ key \in MagicKeys
  /\ RecordAuth(ip)
  /\ Entitle(ip)
  /\ survey_cookie' = [id |-> EncodeKey(key), age |-> 0]
  /\ entered' = key
  /\ UNCHANGED <<registered, peer_address, syncing, callback>>

\* auth_status_with_cache: whoever is let in is remembered.
AuthStatus(ip) ==
  /\ SessionValid \/ ValidateSurveySession
  /\ RecordAuth(ip)
  /\ Entitle(ip)
  /\ UNCHANGED <<survey_cookie, entered, registered, peer_address, syncing, callback>>

-----------------------------------------------------------------------------
(* Clients and the sync loop *)

\* A client's session is put into the map (signaling, under the write lock).
Join(c) ==
  /\ syncing = Absent
  /\ c \notin registered
  /\ registered' = registered \cup {c}
  /\ peer_address' = [peer_address EXCEPT ![c] = Absent]
  /\ UNCHANGED <<survey_cookie, entered, cache, swept, syncing, callback, entitled>>

\* Its peer connection reports the address it ended up with (own mutex).
SetPeerAddress(c, ip) ==
  /\ c \in registered
  /\ peer_address' = [peer_address EXCEPT ![c] = ip]
  /\ Entitle(ip)
  /\ UNCHANGED <<survey_cookie, entered, registered, cache, swept, syncing, callback>>

LeaveAnyTime(c) ==  \* mutant: the map is changed while the loop walks it
  /\ c \in registered
  /\ registered' = registered \ {c}
  /\ UNCHANGED <<survey_cookie, entered, peer_address, cache, swept, syncing, callback, entitled>>

\* The client's session leaves the map, which takes the write lock.
Leave(c) ==
  /\ syncing = Absent
  /\ LeaveAnyTime(c)

\* The loop takes the read lock ...
SyncBegin ==
  /\ syncing = Absent
  /\ syncing' = registered
  /\ UNCHANGED <<survey_cookie, entered, registered, peer_address, cache, swept, callback, entitled>>

\* ... records the address of each client, awaiting each one's mutex ...
SyncRecord(c) ==
  /\ syncing # Absent /\ c \in syncing
  /\ syncing' = syncing \ {c}
  /\ IF peer_address[c] # Absent THEN RecordAuth(peer_address[c])
     ELSE UNCHANGED <<cache, swept>>
  /\ UNCHANGED <<survey_cookie, entered, registered, peer_address, callback, entitled>>

\* ... drops the lock, sweeps what has expired and sleeps.
SyncEnd ==
  /\ syncing = {}
  /\ syncing' = Absent
  /\ swept' = swept \cup {ip \in IPs : cache[ip] >= Timeout}
  /\ UNCHANGED <<survey_cookie, entered, registered, peer_address, cache, callback, entitled>>

\* The task that installs the callback gets to run.
SetAuthCallback ==
  /\ ~callback
  /\ callback' = TRUE
  /\ UNCHANGED <<survey_cookie, entered, registered, peer_address, cache, swept, syncing, entitled>>

-----------------------------------------------------------------------------
(* Time *)

Older(age, cap) == IF age < cap THEN age + 1 ELSE cap

Present(ip) == \E c \in registered : peer_address[c] # Absent /\ NormalizeIp(peer_address[c]) = ip

Tick ==
  /\ session_cookie' = IF session_cookie = Absent THEN Absent
       ELSE [session_cookie EXCEPT !.age = Older(@, SessionTimeout + 1)]
  /\ survey_cookie' = IF survey_cookie = Absent THEN Absent
       ELSE [survey_cookie EXCEPT !.age = Older(@, SurveyTimeout + 1)]
  /\ cache' = [ip \in IPs |-> Older(cache[ip], Timeout)]
  /\ entitled' = [ip \in IPs |-> IF Present(ip) THEN 0 ELSE Older(entitled[ip], Timeout)]
  /\ UNCHANGED <<flow, temp_states, oauth_cookie, held>>
  /\ UNCHANGED <<entered, registered, peer_address, swept, syncing, callback>>

-----------------------------------------------------------------------------
Handlers == \/ \E key \in Keys, ip \in IPs : MagicKeyAuth(key, ip)
            \/ \E ip \in IPs : AuthStatus(ip)
            \/ \E c \in Clients : Join(c) \/ Leave(c)
            \/ \E c \in Clients, ip \in IPs : SetPeerAddress(c, ip)
            \/ SetAuthCallback

SyncStep == SyncBegin \/ (\E c \in Clients : SyncRecord(c)) \/ SyncEnd

AccessSpecInit == LoginInit /\ AccessInit

AccessNext == \/ LoginNext /\ UNCHANGED accessVars
              \/ (Handlers \/ SyncStep) /\ UNCHANGED loginVars
              \/ Tick

AccessSpec == AccessSpecInit /\ [][AccessNext]_<<loginVars, accessVars>>

-----------------------------------------------------------------------------
(* Properties *)

\* The iperf3 server lets an address in only if, within the last Timeout, a
\* browser there was authenticated or a client in the map had that address:
\* the sync loop never records a client that has left, and neither it nor the
\* sweep keeps an old entry alive (auth_cache.rs, the sync loop of main.rs).
AdmissionRecent == \A ip \in IPs : IsIpAllowed(ip) => entitled[NormalizeIp(ip)] < Timeout

\* Until it times out, a survey cookie bought with a key that has no
\* underscore opens the test page and names that key, whatever logins,
\* logouts and expiries happen beside it (survey_middleware.rs).
SurveySessionHonoured ==
  (survey_cookie # Absent /\ survey_cookie.age <= SurveyTimeout
     /\ \A i \in DOMAIN entered : entered[i] # "underscore")
    => RequireAuthOrSurveySession /\ DecodeKey(survey_cookie.id) = entered

\* A client that stays in the map at its address is let into the iperf3 server
\* sooner or later, however its socket spells the address (the sync loop).
ClientAdmitted ==
  \A c \in Clients, ip \in IPs :
    (c \in registered /\ peer_address[c] = ip)
      ~> (IsIpAllowed(ip) \/ c \notin registered \/ peer_address[c] # ip)
=============================================================================
