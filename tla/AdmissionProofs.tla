--------------------------- MODULE AdmissionProofs ---------------------------
(***************************************************************************)
(* Proofs about whom the server lets in and about the tests of those whom  *)
(* the iperf3 server has let in.                                           *)
(*                                                                         *)
(* Logins, the address cache and the survey cookie, for any number of      *)
(* logins, addresses, clients and keys and any timeout: logins do not mix, *)
(* admissions are recent and cookies are honoured.                         *)
(*                                                                         *)
(* The iperf3 server, for any number of tests, connections and slots: no   *)
(* slot is leaked, a test stays findable by its cookie, and results are    *)
(* final.  The second needs to know that the only other session a cookie   *)
(* can get is the one a late data connection opens, and that by then the   *)
(* test it was opened for is over; the third that streams join a running   *)
(* test but never leave it.                                                *)
(***************************************************************************)
EXTENDS AccessControl, Iperf3Server, FiniteSetTheorems, TLAPS

\* The variables of the two modules of AccessControl.
allVars == <<loginVars, accessVars>>

-----------------------------------------------------------------------------
(* Logins *)

\* What overlapping logins preserve: a login whose code was exchanged with a
\* verifier holds its own state, and one that is done never gets it back.
LoginInv ==
  /\ flow \in [Flows -> FlowStates]
  /\ temp_states \in SUBSET Flows
  /\ oauth_cookie \in Flows \cup {Absent}
  /\ held \in [Flows -> Flows \cup {Absent}]
  /\ \A f \in Flows :
       /\ HasVerifier(f) /\ flow[f] \in {"granted", "done"} => held[f] = f
       /\ HasVerifier(f) /\ flow[f] = "done" => f \notin temp_states

\* Every step of every login, in any order, preserves the invariant.
LEMMA LoginInvNext == LoginInv /\ LoginNext => LoginInv'
<1> SUFFICES ASSUME LoginInv, LoginNext PROVE LoginInv'
  OBVIOUS
<1> USE DEF LoginInv, FlowStates, HasVerifier
<1>1. ASSUME NEW f \in Flows, Login(f) PROVE LoginInv'
  <2>1. flow[f] = "new" /\ held' = held
    BY <1>1 DEF Login
  <2>2. \/ flow' = [flow EXCEPT ![f] = "at provider"] /\ temp_states' = temp_states \cup {f}
           /\ oauth_cookie' = f
        \/ flow' = [flow EXCEPT ![f] = "failed"] /\ temp_states' = temp_states
           /\ oauth_cookie' = oauth_cookie
    BY <1>1 DEF Login
  <2> QED BY <2>1, <2>2
<1>2. ASSUME NEW f \in Flows, NEW approved \in BOOLEAN, ProviderDecides(f, approved)
      PROVE LoginInv'
  BY <1>2 DEF ProviderDecides
<1>3. ASSUME NEW f \in Flows, Callback(f) PROVE LoginInv'
  BY <1>3 DEF Callback
<1>4. ASSUME NEW f \in Flows, NEW answer \in {"granted", "nonce", "error"}, CompleteAuth(f, answer)
      PROVE LoginInv'
  BY <1>4 DEF CompleteAuth, Accepts
<1>5. ASSUME NEW f \in Flows, Finish(f) PROVE LoginInv'
  BY <1>5 DEF Finish
<1>6. ASSUME NEW u \in Users, PlainLogin(u) PROVE LoginInv'
  BY <1>6 DEF PlainLogin
<1>7. CASE Logout
  BY <1>7 DEF Logout
<1>8. CASE StateCookieExpires
  BY <1>8 DEF StateCookieExpires
<1> QED BY <1>1, <1>2, <1>3, <1>4, <1>5, <1>6, <1>7, <1>8 DEF LoginNext

\* Logins in any number of tabs never mix: whoever is logged in is the account
\* of the login that completed, and its state is gone (routes.rs, *_callback).
THEOREM LoginsNeverMix == AccessSpec => []LoginsDoNotMix
<1>1. AccessSpecInit => LoginInv
  BY LoginAssumption DEF AccessSpecInit, LoginInit, LoginInv, FlowStates
<1>2. LoginInv /\ [AccessNext]_allVars => LoginInv'
  <2> SUFFICES ASSUME LoginInv, [AccessNext]_allVars PROVE LoginInv'
    OBVIOUS
  <2>1. CASE LoginNext
    BY <2>1, LoginInvNext
  <2>2. CASE UNCHANGED <<flow, temp_states, oauth_cookie, held>>
    BY <2>2 DEF LoginInv, HasVerifier
  <2> QED BY <2>1, <2>2 DEF AccessNext, Tick, loginVars, allVars
<1>3. LoginInv => LoginsDoNotMix
  BY LoginAssumption DEF LoginInv, LoginsDoNotMix, Identity, HasVerifier
<1> QED BY <1>1, <1>2, <1>3, PTL DEF AccessSpec, allVars

-----------------------------------------------------------------------------
(* The cache *)

\* No entry is younger than the right it stands for; a client in the map has
\* its right renewed; the loop, which holds the lock, only visits such clients.
CacheInv ==
  /\ AccessTypeOK
  /\ \A ip \in IPs : entitled[ip] <= cache[ip]
  /\ \A c \in registered : peer_address[c] # Absent => entitled[NormalizeIp(peer_address[c])] = 0
  /\ syncing # Absent => syncing \subseteq registered

\* A normalised address is an address, and normalising it again changes nothing.
LEMMA NormalForm ==
  ASSUME NEW ip \in IPs
  PROVE  NormalizeIp(ip) \in IPs /\ NormalizeIp(NormalizeIp(ip)) = NormalizeIp(ip)
BY AccessAssumption DEF NormalizeIp

\* The handlers, the clients and the loop preserve the invariant.
LEMMA CacheInvStep == CacheInv /\ (Handlers \/ SyncStep) => CacheInv'
<1> SUFFICES ASSUME CacheInv, Handlers \/ SyncStep PROVE CacheInv'
  OBVIOUS
<1> USE AccessAssumption DEF CacheInv, AccessTypeOK
<1>1. ASSUME NEW ip \in IPs, RecordAuth(ip), Entitle(ip),
             UNCHANGED <<registered, peer_address, syncing, callback>>
      PROVE CacheInv'
  <2> DEFINE n == NormalizeIp(ip)
  <2>1. n \in IPs
    BY NormalForm
  <2>2. cache' = [cache EXCEPT ![n] = 0] /\ entitled' = [entitled EXCEPT ![n] = 0]
        /\ swept' = swept \ {n}
    BY <1>1 DEF RecordAuth, Entitle
  <2>3. AccessTypeOK'
    BY <1>1, <2>1, <2>2
  <2>4. \A c \in registered : peer_address[c] # Absent =>
          NormalizeIp(peer_address[c]) \in IPs
    BY NormalForm
  <2> QED BY <1>1, <2>1, <2>2, <2>3, <2>4
<1>2. ASSUME NEW key \in Keys, NEW ip \in IPs, MagicKeyAuth(key, ip) PROVE CacheInv'
  BY <1>1, <1>2 DEF MagicKeyAuth
<1>3. ASSUME NEW ip \in IPs, AuthStatus(ip) PROVE CacheInv'
  BY <1>1, <1>3 DEF AuthStatus
<1>4. ASSUME NEW c \in Clients, Join(c) PROVE CacheInv'
  BY <1>4 DEF Join
<1>5. ASSUME NEW c \in Clients, Leave(c) PROVE CacheInv'
  BY <1>5 DEF Leave, LeaveAnyTime
<1>6. ASSUME NEW c \in Clients, NEW ip \in IPs, SetPeerAddress(c, ip) PROVE CacheInv'
  <2> DEFINE n == NormalizeIp(ip)
  <2>1. n \in IPs
    BY NormalForm
  <2>2. entitled' = [entitled EXCEPT ![n] = 0] /\ peer_address' = [peer_address EXCEPT ![c] = ip]
        /\ UNCHANGED <<registered, cache, swept, syncing, callback>>
    BY <1>6 DEF SetPeerAddress, Entitle
  <2>3. \A d \in registered : peer_address[d] # Absent => NormalizeIp(peer_address[d]) \in IPs
    BY NormalForm
  <2>4. \A d \in registered' : peer_address'[d] # Absent => entitled'[NormalizeIp(peer_address'[d])] = 0
    BY <2>1, <2>2, <2>3
  <2> QED BY <2>1, <2>2, <2>4
<1>7. CASE SetAuthCallback
  BY <1>7 DEF SetAuthCallback
<1>8. CASE SyncBegin
  BY <1>8 DEF SyncBegin
<1>9. ASSUME NEW c \in Clients, SyncRecord(c) PROVE CacheInv'
  <2>1. c \in registered /\ UNCHANGED <<registered, peer_address, callback, entitled>>
        /\ syncing' = syncing \ {c} /\ syncing # Absent
    BY <1>9 DEF SyncRecord
  <2>2. CASE peer_address[c] = Absent
    BY <1>9, <2>1, <2>2 DEF SyncRecord
  <2>3. CASE peer_address[c] # Absent
    <3> DEFINE n == NormalizeIp(peer_address[c])
    <3>1. n \in IPs /\ entitled[n] = 0
      BY <2>1, <2>3, NormalForm
    <3>2. cache' = [cache EXCEPT ![n] = 0] /\ swept' = swept \ {n}
      BY <1>9, <2>3 DEF SyncRecord, RecordAuth
    <3> HIDE DEF n
    <3>3. AccessTypeOK'
      BY <2>1, <3>1, <3>2
    <3> QED BY <2>1, <3>1, <3>2, <3>3
  <2> QED BY <2>2, <2>3
<1>10. CASE SyncEnd
  BY <1>10 DEF SyncEnd
<1> QED BY <1>2, <1>3, <1>4, <1>5, <1>6, <1>7, <1>8, <1>9, <1>10 DEF Handlers, SyncStep

\* So does the passing of time: what a connected client has is renewed, and
\* everything else ages together.
LEMMA CacheInvTick == CacheInv /\ Tick => CacheInv'
<1> SUFFICES ASSUME CacheInv, Tick PROVE CacheInv'
  OBVIOUS
<1> USE AccessAssumption DEF CacheInv, AccessTypeOK
<1>1. UNCHANGED <<registered, peer_address, swept, syncing, callback>>
  BY DEF Tick
<1>2. cache' = [ip \in IPs |-> Older(cache[ip], Timeout)]
  BY DEF Tick
<1>3. entitled' = [ip \in IPs |-> IF Present(ip) THEN 0 ELSE Older(entitled[ip], Timeout)]
  BY DEF Tick
<1>4. AccessTypeOK'
  BY <1>1, <1>2, <1>3 DEF Older
<1>5. \A ip \in IPs : entitled'[ip] <= cache'[ip]
  BY <1>2, <1>3 DEF Older
<1>6. ASSUME NEW c \in registered, peer_address[c] # Absent
      PROVE  entitled'[NormalizeIp(peer_address[c])] = 0
  <2>1. NormalizeIp(peer_address[c]) \in IPs
    BY <1>6, NormalForm
  <2>2. Present(NormalizeIp(peer_address[c]))
    BY <1>6 DEF Present
  <2> QED BY <1>3, <2>1, <2>2
<1> QED BY <1>1, <1>4, <1>5, <1>6

\* Nobody is let into the iperf3 server on an authentication older than the
\* timeout, or on a client that has left (auth_cache.rs, main.rs sync loop).
THEOREM AdmissionsAreRecent == AccessSpec => []AdmissionRecent
<1>1. AccessSpecInit => CacheInv
  <2> SUFFICES ASSUME AccessInit PROVE CacheInv
    BY DEF AccessSpecInit
  <2>1. Timeout \in 0..Timeout
    BY AccessAssumption
  <2>2. AccessTypeOK
    BY <2>1 DEF AccessInit, AccessTypeOK
  <2> QED BY <2>1, <2>2 DEF AccessInit, CacheInv
<1>2. CacheInv /\ [AccessNext]_allVars => CacheInv'
  <2> SUFFICES ASSUME CacheInv, [AccessNext]_allVars PROVE CacheInv'
    OBVIOUS
  <2>1. CASE Handlers \/ SyncStep
    BY <2>1, CacheInvStep
  <2>2. CASE Tick
    BY <2>2, CacheInvTick
  <2>3. CASE UNCHANGED accessVars
    BY <2>3 DEF accessVars, CacheInv, AccessTypeOK
  <2> QED BY <2>1, <2>2, <2>3 DEF AccessNext, allVars
<1>3. CacheInv => AdmissionRecent
  <2> SUFFICES ASSUME CacheInv, NEW ip \in IPs, IsIpAllowed(ip)
               PROVE entitled[NormalizeIp(ip)] < Timeout
    BY DEF AdmissionRecent
  <2>1. NormalizeIp(ip) \in IPs /\ cache[NormalizeIp(ip)] < Timeout
    BY NormalForm DEF IsIpAllowed, CheckAuth
  <2> QED BY <2>1, AccessAssumption DEF CacheInv, AccessTypeOK
<1> QED BY <1>1, <1>2, <1>3, PTL DEF AccessSpec, allVars

-----------------------------------------------------------------------------
(* The survey cookie *)

\* The cookie carries the key it was bought with, in its rewritten form.
SurveyInv ==
  survey_cookie # Absent =>
    entered \in MagicKeys /\ \E a : survey_cookie = [id |-> EncodeKey(entered), age |-> a]

\* A key without underscores survives the rewriting of its hyphens
\* (auth_handlers.rs, survey_middleware.rs).
LEMMA KeySurvives ==
  ASSUME NEW key \in Keys, \A i \in DOMAIN key : key[i] # "underscore"
  PROVE  DecodeKey(EncodeKey(key)) = key
<1>1. key \in Seq(STRING)
  BY AccessAssumption
<1>2. key = [i \in DOMAIN key |-> key[i]]
  BY <1>1
<1>3. DOMAIN EncodeKey(key) = DOMAIN key
  BY DEF EncodeKey
<1>4. \A i \in DOMAIN key : DecodeKey(EncodeKey(key))[i] = key[i]
  BY <1>3 DEF DecodeKey, EncodeKey
<1>5. DecodeKey(EncodeKey(key)) = [i \in DOMAIN key |-> DecodeKey(EncodeKey(key))[i]]
  BY <1>3 DEF DecodeKey
<1> QED BY <1>2, <1>4, <1>5

\* Logins, handlers, the loop and time leave the key in the cookie alone.
LEMMA SurveyInvNext == SurveyInv /\ [AccessNext]_allVars => SurveyInv'
<1> SUFFICES ASSUME SurveyInv, [AccessNext]_allVars PROVE SurveyInv'
  OBVIOUS
<1>1. ASSUME NEW key \in Keys, NEW ip \in IPs, MagicKeyAuth(key, ip) PROVE SurveyInv'
  BY <1>1 DEF MagicKeyAuth, SurveyInv
<1>2. CASE Tick
  <2>1. CASE survey_cookie = Absent
    BY <1>2, <2>1 DEF Tick, SurveyInv
  <2>2. CASE survey_cookie # Absent
    <3>1. PICK a : survey_cookie = [id |-> EncodeKey(entered), age |-> a]
      BY <2>2 DEF SurveyInv
    <3>2. entered' = entered /\ entered \in MagicKeys
      BY <1>2, <2>2 DEF Tick, SurveyInv
    <3>3. survey_cookie' = [id |-> EncodeKey(entered), age |-> Older(a, SurveyTimeout + 1)]
      BY <1>2, <2>2, <3>1 DEF Tick
    <3> QED BY <3>2, <3>3 DEF SurveyInv
  <2> QED BY <2>1, <2>2
<1>3. ASSUME UNCHANGED <<survey_cookie, entered>> PROVE SurveyInv'
  BY <1>3 DEF SurveyInv
<1> QED
  BY <1>1, <1>2, <1>3 DEF AccessNext, Handlers, SyncStep, AuthStatus, Join, Leave, LeaveAnyTime,
     SetPeerAddress, SetAuthCallback, SyncBegin, SyncRecord, SyncEnd, allVars, accessVars

\* For any keys, and whatever else the browser and the server do: a survey
\* cookie that has not timed out opens the page and gives its key back, if the
\* key has no underscore (survey_middleware.rs).
THEOREM SurveySessionsHonoured == AccessSpec => []SurveySessionHonoured
<1>1. AccessSpecInit => SurveyInv
  BY DEF AccessSpecInit, AccessInit, SurveyInv
<1>2. SurveyInv => SurveySessionHonoured
  <2> SUFFICES ASSUME SurveyInv, survey_cookie # Absent, survey_cookie.age <= SurveyTimeout,
                      \A i \in DOMAIN entered : entered[i] # "underscore"
               PROVE  RequireAuthOrSurveySession /\ DecodeKey(survey_cookie.id) = entered
    BY DEF SurveySessionHonoured
  <2>1. entered \in MagicKeys /\ survey_cookie.id = EncodeKey(entered)
    BY DEF SurveyInv
  <2>2. DecodeKey(survey_cookie.id) = entered
    BY <2>1, KeySurvives, AccessAssumption
  <2> QED BY <2>1, <2>2 DEF RequireAuthOrSurveySession, ValidateSurveySession
<1> QED BY <1>1, <1>2, SurveyInvNext, PTL DEF AccessSpec, allVars

-----------------------------------------------------------------------------
(* The sessions of the iperf3 server *)

\* The types the pool rests on.
PoolTypes ==
  /\ pc \in [Conns -> Labels]
  /\ sessions \in [Controls -> Conns \cup {None}]
  /\ told \in SUBSET Controls

\* A test that was told to open its streams has got past "params".
ToldProgress == \A t \in told : pc[t] \in (Active \ {"params"}) \cup {"ended"}

\* A data connection exists only for such a test, and opens a session only
\* after the test has ended.
LateStreams ==
  \A d \in Datas :
    /\ pc[d] # "closed" => TestOf[d] \in told
    /\ pc[d] \in Active \cup {"insert"} => pc[TestOf[d]] = "ended"

PoolInv ==
  /\ PoolTypes
  /\ ToldProgress
  /\ LateStreams
  /\ SlotHeldByLiveSession
  /\ TestFindableByCookie

\* The server starts with an empty map.
LEMMA PoolInvInit == Init => PoolInv
  BY Iperf3Assumption DEF Init, PoolInv, PoolTypes, ToldProgress, LateStreams,
     SlotHeldByLiveSession, TestFindableByCookie, Registered, Active, Labels, Conns

\* Facts about cookies.
LEMMA CookieFacts ==
  /\ \A c \in Controls : Cookie(c) = c
  /\ \A d \in Datas : Cookie(d) = TestOf[d] /\ TestOf[d] \in Controls
  /\ \A c \in Conns : Cookie(c) \in Controls
  BY Iperf3Assumption DEF Cookie, Conns

\* A step that moves one connection between two labels that are both active,
\* or neither, without telling anybody to open streams, keeps the invariant.
LEMMA QuietStep ==
  ASSUME PoolInv, NEW c \in Conns, NEW label \in Labels \ {"closed", "insert", "params"},
         pc' = [pc EXCEPT ![c] = label], UNCHANGED <<sessions, told>>,
         pc[c] # "closed" \/ (c \in Datas => TestOf[c] \in told),
         pc[c] \in Active <=> label \in Active,
         pc[c] # "ended", label = "ended" => pc[c] = "cookie"
  PROVE  PoolInv'
<1> USE Iperf3Assumption DEF PoolInv
<1>1. PoolTypes'
  BY DEF PoolTypes
<1>2. ToldProgress'
  BY DEF PoolTypes, ToldProgress, Active, Conns
<1>3. LateStreams'
  BY DEF PoolTypes, LateStreams, ToldProgress, Active, Conns
<1>4. SlotHeldByLiveSession'
  BY DEF PoolTypes, SlotHeldByLiveSession, Registered, Cookie
<1>5. TestFindableByCookie'
  BY DEF PoolTypes, TestFindableByCookie, Conns
<1> QED BY <1>1, <1>2, <1>3, <1>4, <1>5

\* Every step preserves the invariant.
LEMMA PoolInvNext == PoolInv /\ [Next]_vars => PoolInv'
<1> SUFFICES ASSUME PoolInv, [Next]_vars PROVE PoolInv'
  OBVIOUS
<1> USE Iperf3Assumption
<1>1. ASSUME NEW c \in Conns, Connect(c) PROVE PoolInv'
  BY <1>1, QuietStep DEF Connect, Go, Labels, Active
<1>2. ASSUME NEW c \in Conns, NEW allowed \in BOOLEAN, Accept(c, allowed) PROVE PoolInv'
  BY <1>2, QuietStep DEF Accept, Go, Labels, Active
<1>3. ASSUME NEW c \in Conns, AddDataStream(c) PROVE PoolInv'
  BY <1>3, QuietStep DEF AddDataStream, Go, Labels, Active
<1>4. ASSUME NEW c \in Conns, NewSession(c) PROVE PoolInv'
  <2>0. /\ pc[c] = "cookie" /\ sessions[Cookie(c)] = None
        /\ pc' = [pc EXCEPT ![c] = "insert"] /\ UNCHANGED <<sessions, told>>
    BY <1>4 DEF NewSession, Go
  <2>1. PoolTypes'
    BY <2>0 DEF PoolInv, PoolTypes, Labels
  <2>2. ToldProgress'
    BY <2>0 DEF PoolInv, PoolTypes, ToldProgress, Active, Conns
  <2>3. ASSUME c \in Datas PROVE pc[TestOf[c]] = "ended" /\ TestOf[c] # c /\ TestOf[c] \in told
    BY <2>0, <2>3, CookieFacts
       DEF PoolInv, PoolTypes, LateStreams, ToldProgress, TestFindableByCookie, Conns
  <2>4. LateStreams'
    BY <2>0, <2>3 DEF PoolInv, PoolTypes, LateStreams, Conns, Active
  <2>5. SlotHeldByLiveSession'
    BY <2>0 DEF PoolInv, PoolTypes, SlotHeldByLiveSession, Registered, Cookie, Active
  <2>6. TestFindableByCookie'
    BY <2>0 DEF PoolInv, PoolTypes, TestFindableByCookie, Active, Conns
  <2> QED BY <2>1, <2>2, <2>4, <2>5, <2>6 DEF PoolInv
<1>5. ASSUME NEW c \in Conns, InsertSession(c) PROVE PoolInv'
  <2>0. /\ pc[c] = "insert"
        /\ sessions' = [sessions EXCEPT ![Cookie(c)] = c]
        /\ pc' = [pc EXCEPT ![c] = "params"] /\ UNCHANGED told
    BY <1>5 DEF InsertSession, Go
  <2>1. PoolTypes'
    BY <2>0, CookieFacts DEF PoolInv, PoolTypes, Labels
  <2>2. ToldProgress'
    BY <2>0 DEF PoolInv, PoolTypes, ToldProgress, Active, Conns
  <2>3. LateStreams'
    BY <2>0 DEF PoolInv, PoolTypes, LateStreams, Active, Conns
  <2>4. SlotHeldByLiveSession'
    BY <2>0, CookieFacts
       DEF PoolInv, PoolTypes, SlotHeldByLiveSession, Registered, Cookie, Active
  <2>5. TestFindableByCookie'
    <3> SUFFICES ASSUME NEW t \in Controls, pc'[t] \in Active PROVE sessions'[t] = t
      BY DEF TestFindableByCookie
    <3>1. CASE t = c
      BY <2>0, <3>1, CookieFacts DEF PoolInv, PoolTypes
    <3>2. CASE t # c
      <4>1. pc[t] \in Active /\ sessions[t] = t
        BY <2>0, <3>2 DEF PoolInv, PoolTypes, TestFindableByCookie, Conns
      <4>2. Cookie(c) # t
        BY <2>0, <3>2, <4>1, CookieFacts DEF PoolInv, LateStreams, Conns, Active
      <4> QED BY <2>0, <4>1, <4>2 DEF PoolInv, PoolTypes
    <3> QED BY <3>1, <3>2
  <2> QED BY <2>1, <2>2, <2>3, <2>4, <2>5 DEF PoolInv
<1>6. ASSUME NEW c \in Conns, RemoveSession(c) PROVE PoolInv'
  <2>0. /\ pc[c] = "remove"
        /\ sessions' = [sessions EXCEPT ![Cookie(c)] = None]
        /\ pc' = [pc EXCEPT ![c] = "ended"] /\ UNCHANGED told
    BY <1>6 DEF RemoveSession, Go
  <2>1. PoolTypes'
    BY <2>0, CookieFacts DEF PoolInv, PoolTypes, Labels
  <2>2. ToldProgress'
    BY <2>0 DEF PoolInv, PoolTypes, ToldProgress, Conns
  <2>3. LateStreams'
    BY <2>0 DEF PoolInv, PoolTypes, LateStreams, Active, Conns
  <2>4. SlotHeldByLiveSession'
    BY <2>0, CookieFacts
       DEF PoolInv, PoolTypes, SlotHeldByLiveSession, Registered, Cookie, Active
  <2>5. TestFindableByCookie'
    <3> SUFFICES ASSUME NEW t \in Controls, pc'[t] \in Active PROVE sessions'[t] = t
      BY DEF TestFindableByCookie
    <3>1. t # c /\ pc[t] \in Active /\ sessions[t] = t
      BY <2>0 DEF PoolInv, PoolTypes, TestFindableByCookie, Conns, Active
    <3>2. Cookie(c) # t
      BY <2>0, <3>1, CookieFacts DEF PoolInv, LateStreams, Conns, Active
    <3> QED BY <2>0, <3>1, <3>2 DEF PoolInv, PoolTypes
  <2> QED BY <2>1, <2>2, <2>3, <2>4, <2>5 DEF PoolInv
<1>7. ASSUME NEW c \in Conns, NEW p \in Params, ReadParams(c, p) PROVE PoolInv'
  <2>0. /\ pc[c] = "params" /\ c \in Controls
        /\ told' = told \cup {c}
        /\ pc' = [pc EXCEPT ![c] = "streams"] /\ UNCHANGED sessions
    BY <1>7 DEF ReadParams, Go
  <2>1. PoolTypes'
    BY <2>0 DEF PoolInv, PoolTypes, Labels
  <2>2. ToldProgress'
    BY <2>0 DEF PoolInv, PoolTypes, ToldProgress, Active, Conns
  <2>3. LateStreams'
    BY <2>0 DEF PoolInv, PoolTypes, LateStreams, Active, Conns
  <2>4. SlotHeldByLiveSession'
    BY <2>0 DEF PoolInv, PoolTypes, SlotHeldByLiveSession, Registered, Cookie, Active
  <2>5. TestFindableByCookie'
    BY <2>0 DEF PoolInv, PoolTypes, TestFindableByCookie, Active, Conns
  <2> QED BY <2>1, <2>2, <2>3, <2>4, <2>5 DEF PoolInv
<1>8. ASSUME NEW c \in Conns, StreamsReady(c) \/ StreamTimeout(c) PROVE PoolInv'
  BY <1>8, QuietStep DEF StreamsReady, StreamTimeout, StartTest, Go, Labels, Active
<1>9. ASSUME NEW c \in Conns, UdpBind(c) \/ UdpDatagram(c) PROVE PoolInv'
  BY <1>9, QuietStep DEF UdpBind, UdpDatagram, StartTest, Go, Labels, Active
<1>10. ASSUME NEW c \in Conns, TestEnd(c) \/ Exchange(c) \/ SendResults(c) \/ IperfDone(c)
       PROVE PoolInv'
  BY <1>10, QuietStep DEF TestEnd, Exchange, SendResults, IperfDone, Go, Labels, Active
<1>11. ASSUME NEW c \in Conns, ReadFails(c) PROVE PoolInv'
  BY <1>11, QuietStep DEF ReadFails, Go, Labels, Active
<1>12. ASSUME UNCHANGED <<pc, sessions, told>> PROVE PoolInv'
  BY <1>12 DEF PoolInv, PoolTypes, ToldProgress, LateStreams, SlotHeldByLiveSession,
     TestFindableByCookie, Registered, Cookie
<1> QED
  BY <1>1, <1>2, <1>3, <1>4, <1>5, <1>6, <1>7, <1>8, <1>9, <1>10, <1>11, <1>12
     DEF Next, ClientNext, ServerNext, Deadline, Disconnect, StopReading, TaskEnds, vars

\* The inductive invariant holds of every reachable state.
THEOREM PoolSafety == Spec => []PoolInv
  BY PoolInvInit, PoolInvNext, PTL DEF Spec

\* handle_session frees its slot on every path.
THEOREM SlotsNotLeaked == Spec => []SlotHeldByLiveSession
<1>1. PoolInv => SlotHeldByLiveSession
  BY DEF PoolInv
<1> QED BY <1>1, PoolSafety, PTL

\* The session of a test is not evicted from the map before it ends.
THEOREM TestsFindable == Spec => []TestFindableByCookie
<1>1. PoolInv => TestFindableByCookie
  BY DEF PoolInv
<1> QED BY <1>1, PoolSafety, PTL

-----------------------------------------------------------------------------
(* Results *)

Testing == {"running", "ending", "results", "display"}

ResultTypes ==
  /\ pc \in [Conns -> Labels]
  /\ streams \in [Conns -> SUBSET Conns]
  /\ got \in [Conns -> Nat]
  /\ busy \in [Conns -> SUBSET Conns]
  /\ DOMAIN params = Conns
  /\ \A c \in Conns : IsFiniteSet(streams[c])
  /\ \A c \in Conns : pc[c] \in Testing \cup {"streams", "udp_wait"} => params[c] \in Params
  /\ \A c \in Conns : pc[c] = "udp_wait" => params[c].udp

\* ResultsFinal, with what it rests on: a test past its set-up has parameters,
\* which nobody changes any more, and its streams only grow.
ResultsInv == ResultTypes /\ ResultsFinal

\* A data stream that comes late does not make their number smaller
\* (session.rs, add_data_stream).
LEMMA MoreStreams ==
  ASSUME NEW S, IsFiniteSet(S), NEW x
  PROVE  /\ IsFiniteSet(S \cup {x})
         /\ Cardinality(S) \in Nat /\ Cardinality(S \cup {x}) \in Nat
         /\ Cardinality(S \cup {x}) >= Cardinality(S)
<1>1. Cardinality(S) \in Nat
  BY FS_CardinalityType
<1>2. IsFiniteSet(S \cup {x}) /\ (x \in S \/ Cardinality(S \cup {x}) = Cardinality(S) + 1)
  BY FS_AddElement
<1>3. x \in S => S \cup {x} = S
  OBVIOUS
<1> QED BY <1>1, <1>2, <1>3

\* A step that moves one connection and touches neither streams, parameters,
\* counts nor tasks keeps the invariant, if it does not enter the test.
LEMMA QuietResults ==
  ASSUME ResultsInv, NEW c \in Conns, NEW label \in Labels,
         pc' = [pc EXCEPT ![c] = label], UNCHANGED <<streams, params, got, busy>>,
         label \in {"running", "ending", "display"} => pc[c] \in Testing,
         label \in {"results", "display"} => busy[c] = {},
         label = "results" => pc[c] \in Testing,
         label = "streams" => params[c] \in Params,
         label = "udp_wait" => params[c] \in Params /\ params[c].udp
  PROVE  ResultsInv'
<1> USE DEF ResultsInv, Testing
<1>1. ResultTypes'
  BY DEF ResultTypes
<1>2. ResultsFinal'
  BY DEF ResultTypes, ResultsFinal
<1> QED BY <1>1, <1>2

\* Every step preserves the invariant.
LEMMA ResultsInvNext == PoolInv /\ ResultsInv /\ [Next]_vars => ResultsInv'
<1> SUFFICES ASSUME PoolInv, ResultsInv, [Next]_vars PROVE ResultsInv'
  OBVIOUS
<1> USE Iperf3Assumption
<1>1. ASSUME NEW c \in Conns, NEW allowed \in BOOLEAN, Connect(c) \/ Accept(c, allowed)
      PROVE ResultsInv'
  BY <1>1, QuietResults DEF Connect, Accept, Go, Labels
<1>2. ASSUME NEW c \in Conns, NewSession(c) \/ InsertSession(c) \/ RemoveSession(c)
      PROVE ResultsInv'
  BY <1>2, QuietResults DEF NewSession, InsertSession, RemoveSession, Go, Labels
<1>3. ASSUME NEW c \in Conns, AddDataStream(c) PROVE ResultsInv'
  <2> DEFINE s == sessions[Cookie(c)]
  <2>1. /\ pc[c] = "cookie" /\ pc' = [pc EXCEPT ![c] = "data"]
        /\ streams' = [streams EXCEPT ![s] = @ \cup {c}]
        /\ UNCHANGED <<params, got, busy>>
    BY <1>3 DEF AddDataStream, Go
  <2>2. s \in Conns
    BY <1>3, CookieFacts DEF AddDataStream, PoolInv, PoolTypes
  <2> HIDE DEF s
  <2>3. \A q \in Conns : /\ streams'[q] \in SUBSET Conns /\ IsFiniteSet(streams'[q])
                         /\ Cardinality(streams[q]) \in Nat /\ Cardinality(streams'[q]) \in Nat
                         /\ Cardinality(streams'[q]) >= Cardinality(streams[q])
    <3> TAKE q \in Conns
    <3>1. streams[q] \in SUBSET Conns /\ IsFiniteSet(streams[q])
      BY DEF ResultsInv, ResultTypes
    <3>2. streams'[q] = streams[q] \/ streams'[q] = streams[q] \cup {c}
      BY <2>1, <2>2 DEF ResultsInv, ResultTypes
    <3>3. Cardinality(streams[q]) \in Nat
      BY <3>1, FS_CardinalityType
    <3>4. /\ IsFiniteSet(streams[q] \cup {c}) /\ Cardinality(streams[q] \cup {c}) \in Nat
          /\ Cardinality(streams[q] \cup {c}) >= Cardinality(streams[q])
      BY <3>1, MoreStreams
    <3>5. CASE streams'[q] = streams[q]
      BY <3>1, <3>3, <3>5
    <3>6. CASE streams'[q] = streams[q] \cup {c}
      BY <3>1, <3>3, <3>4, <3>6
    <3> QED BY <3>2, <3>5, <3>6
  <2>4. ResultTypes'
    BY <2>1, <2>2, <2>3 DEF ResultsInv, ResultTypes, Labels, Testing
  <2>5. ResultsFinal'
    <3> SUFFICES ASSUME NEW q \in Conns, pc'[q] \in Testing
                 PROVE  /\ IF params[q].udp THEN got[q] = params[q].parallel
                                            ELSE Cardinality(streams'[q]) >= params[q].parallel
                        /\ pc'[q] \in {"results", "display"} => busy[q] = {}
      BY <2>1 DEF ResultsFinal, Testing
    <3>1. pc[q] = pc'[q] /\ params[q].parallel \in Nat
      BY <2>1 DEF ResultsInv, ResultTypes, Testing, Params
    <3>2. /\ IF params[q].udp THEN got[q] = params[q].parallel
                              ELSE Cardinality(streams[q]) >= params[q].parallel
          /\ pc'[q] \in {"results", "display"} => busy[q] = {}
      BY <3>1 DEF ResultsInv, ResultsFinal, Testing
    <3> QED BY <2>3, <3>1, <3>2
  <2> QED BY <2>4, <2>5 DEF ResultsInv
<1>4. ASSUME NEW c \in Conns, NEW p \in Params, ReadParams(c, p) PROVE ResultsInv'
  <2>1. /\ pc[c] = "params" /\ pc' = [pc EXCEPT ![c] = "streams"]
        /\ params' = [params EXCEPT ![c] = p] /\ UNCHANGED <<streams, got, busy>>
    BY <1>4 DEF ReadParams, Go
  <2>2. ResultTypes'
    BY <2>1 DEF ResultsInv, ResultTypes, Labels, Testing
  <2>3. ResultsFinal'
    BY <2>1 DEF ResultsInv, ResultTypes, ResultsFinal
  <2> QED BY <2>2, <2>3 DEF ResultsInv
<1>5. ASSUME NEW c \in Conns, StreamTimeout(c) \/ UdpBind(c) PROVE ResultsInv'
  <2>1. pc[c] = "streams" => params[c] \in Params
    BY DEF ResultsInv, ResultTypes
  <2> QED BY <1>5, <2>1, QuietResults DEF StreamTimeout, UdpBind, Go, Labels
<1>6. ASSUME NEW c \in Conns, StreamsReady(c) PROVE ResultsInv'
  <2>1. /\ pc[c] = "streams" /\ ~params[c].udp /\ pc' = [pc EXCEPT ![c] = "running"]
        /\ Cardinality(streams[c]) >= params[c].parallel
        /\ busy' = [busy EXCEPT ![c] = streams[c]] /\ UNCHANGED <<streams, params, got>>
    BY <1>6 DEF StreamsReady, StartTest, Go
  <2>2. ResultTypes'
    BY <2>1 DEF ResultsInv, ResultTypes, Labels, Testing
  <2>3. ResultsFinal'
    BY <2>1 DEF ResultsInv, ResultTypes, ResultsFinal
  <2> QED BY <2>2, <2>3 DEF ResultsInv
<1>7. ASSUME NEW c \in Conns, UdpDatagram(c) PROVE ResultsInv'
  <2>1. /\ pc[c] = "udp_wait" /\ got' = [got EXCEPT ![c] = @ + 1] /\ UNCHANGED <<streams, params>>
        /\ \/ pc' = [pc EXCEPT ![c] = "streams"] /\ UNCHANGED busy
           \/ /\ got[c] + 1 = params[c].parallel /\ pc' = [pc EXCEPT ![c] = "running"]
              /\ busy' = [busy EXCEPT ![c] = IF params[c].udp THEN {c} ELSE streams[c]]
    BY <1>7 DEF UdpDatagram, StartTest, Go
  <2>2. params[c] \in Params /\ params[c].udp
    BY <2>1 DEF ResultsInv, ResultTypes
  <2>3. ResultTypes'
    BY <2>1, <2>2 DEF ResultsInv, ResultTypes, Labels, Testing
  <2>4. ResultsFinal'
    BY <2>1, <2>2 DEF ResultsInv, ResultTypes, ResultsFinal
  <2> QED BY <2>3, <2>4 DEF ResultsInv
<1>8. ASSUME NEW c \in Conns, TestEnd(c) \/ Exchange(c) PROVE ResultsInv'
  BY <1>8, QuietResults DEF TestEnd, Exchange, Go, Labels, Testing
<1>9. ASSUME NEW c \in Conns, SendResults(c) PROVE ResultsInv'
  <2>1. pc[c] = "results" => busy[c] = {}
    BY DEF ResultsInv, ResultsFinal
  <2> QED BY <1>9, <2>1, QuietResults DEF SendResults, Go, Labels, Testing
<1>10. ASSUME NEW c \in Conns, IperfDone(c) \/ ReadFails(c) PROVE ResultsInv'
  BY <1>10, QuietResults DEF IperfDone, ReadFails, Go, Labels
<1>11. ASSUME NEW c \in Conns, NEW d \in Conns, TaskEnds(c, d) PROVE ResultsInv'
  <2>1. busy' = [busy EXCEPT ![c] = @ \ {d}] /\ UNCHANGED <<pc, streams, params, got>>
    BY <1>11 DEF TaskEnds
  <2>2. ResultTypes'
    BY <2>1 DEF ResultsInv, ResultTypes
  <2>3. ResultsFinal'
    BY <2>1 DEF ResultsInv, ResultTypes, ResultsFinal
  <2> QED BY <2>2, <2>3 DEF ResultsInv
<1>12. ASSUME UNCHANGED <<pc, streams, params, got, busy>> PROVE ResultsInv'
  BY <1>12 DEF ResultsInv, ResultTypes, ResultsFinal
<1> QED
  BY <1>1, <1>2, <1>3, <1>4, <1>5, <1>6, <1>7, <1>8, <1>9, <1>10, <1>11, <1>12
     DEF Next, ClientNext, ServerNext, Deadline, Disconnect, StopReading, vars

\* Whatever data connections come late and however tasks and deadlines race, a
\* test runs with all its streams, and reports byte counts only when no task
\* can change them any more (server.rs, run_session_protocol).
THEOREM ResultsAreFinal == Spec => []ResultsFinal
<1>1. Init => ResultsInv
  <2>1. IsFiniteSet({})
    BY FS_EmptySet
  <2> QED BY <2>1 DEF Init, ResultsInv, ResultTypes, ResultsFinal, Labels, Testing
<1>2. ResultsInv => ResultsFinal
  BY DEF ResultsInv
<1> QED BY <1>1, <1>2, ResultsInvNext, PoolSafety, PTL DEF Spec
=============================================================================
