------------------------------ MODULE LoginFlow ------------------------------
(***************************************************************************)
(* The login library: OAuth logins in several tabs of one browser, plain   *)
(* logins, and the sessions they make.  A login stores a temporary state   *)
(* on the server and its id in the one oauth_state_id cookie of the        *)
(* browser, so a later login takes the cookie over; the callback works     *)
(* with whatever state the cookie names at that moment, across the awaits  *)
(* of the token exchange.                                                  *)
(*                                                                         *)
(* A flow is one login, in a tab of its own.  Cookie encryption, tokens    *)
(* and profile data are left out; the provider's checks are external.      *)
(***************************************************************************)
EXTENDS Naturals, FiniteSets

CONSTANTS Flows,           \* OAuth logins; also the ids of their states
          ProviderOf,      \* the provider each flow logs in with
          Users,           \* account names
          UserOf,          \* the account each flow is for
          AllowedUsers,    \* allowed_users; empty means everyone
          SessionTimeout,  \* session.timeout_seconds, in ticks
          Absent

ASSUME LoginAssumption ==
  /\ ProviderOf \in [Flows -> {"bluesky", "github", "google", "linkedin"}]
  /\ UserOf \in [Flows -> Users]
  /\ AllowedUsers \subseteq Users
  /\ SessionTimeout \in Nat
  /\ Absent \notin Flows
  /\ Absent \notin [user : Users, age : Nat]

VARIABLES flow,           \* where each login is
          temp_states,    \* oauth_temp_states
          oauth_cookie,   \* the browser's oauth_state_id
          session_cookie, \* the browser's session: user, ticks since created_at
          held            \* the state a callback fetched before its awaits

loginVars == <<flow, temp_states, oauth_cookie, session_cookie, held>>

FlowStates == {"new", "at provider", "approved", "denied", "exchange", "nonce",
               "granted", "done", "failed"}

LoginTypeOK ==
  /\ flow \in [Flows -> FlowStates]
  /\ temp_states \in SUBSET Flows
  /\ oauth_cookie \in Flows \cup {Absent}
  /\ session_cookie \in [user : Users, age : 0..SessionTimeout + 1] \cup {Absent}
  /\ held \in [Flows -> Flows \cup {Absent}]

LoginInit ==
  /\ flow = [f \in Flows |-> "new"]
  /\ temp_states = {}
  /\ oauth_cookie = Absent
  /\ session_cookie = Absent
  /\ held = [f \in Flows |-> Absent]

-----------------------------------------------------------------------------
(* Starting *)

\* Whether start_auth comes up with a URL.  Only Bluesky asks the network: the
\* handle's DNS record or, failing that, the well-known file, then the DID
\* document, then two pieces of server metadata; any later failure is final.
Discovered(dns, https, did, resource, server) ==
  (dns \/ https) /\ did /\ resource /\ server

StartOutcomes(f) ==
  IF ProviderOf[f] # "bluesky" THEN {TRUE}
  ELSE {Discovered(dns, https, rest, rest, rest) :
          dns \in BOOLEAN, https \in BOOLEAN, rest \in BOOLEAN}

\* *_login: the state is stored under a fresh id, and the cookie overwritten.
Login(f) ==
  /\ flow[f] = "new"
  /\ \E ok \in StartOutcomes(f) :
       IF ok
       THEN /\ flow' = [flow EXCEPT ![f] = "at provider"]
            /\ temp_states' = temp_states \cup {f}
            /\ oauth_cookie' = f
       ELSE /\ flow' = [flow EXCEPT ![f] = "failed"]
            /\ UNCHANGED <<temp_states, oauth_cookie>>
  /\ UNCHANGED <<session_cookie, held>>

\* The account's owner approves or declines at the provider (external).
ProviderDecides(f, approved) ==
  /\ flow[f] = "at provider"
  /\ flow' = [flow EXCEPT ![f] = IF approved THEN "approved" ELSE "denied"]
  /\ UNCHANGED <<temp_states, oauth_cookie, session_cookie, held>>

-----------------------------------------------------------------------------
(* The callback *)

\* *_callback up to its first await on the provider.  Every early return
\* leaves the stored state and the cookie alone.
Callback(f) ==
  /\ flow[f] \in {"approved", "denied"}
  /\ IF flow[f] = "denied" \/ oauth_cookie = Absent \/ oauth_cookie \notin temp_states
     THEN /\ flow' = [flow EXCEPT ![f] = "failed"]
          /\ UNCHANGED held
     ELSE /\ flow' = [flow EXCEPT ![f] = "exchange"]
          /\ held' = [held EXCEPT ![f] = oauth_cookie]
  /\ UNCHANGED <<temp_states, oauth_cookie, session_cookie>>

HasVerifier(g) == ProviderOf[g] # "linkedin"  \* LinkedIn states have no PKCE verifier

AcceptsAny(f) == f \in Flows  \* mutant: the verifier is not sent to the provider

\* Where the login used PKCE, the provider wants the verifier that its code was
\* requested with (external); the callback sends the one in the state it holds.
Accepts(f) == HasVerifier(f) => held[f] = f

\* One answer to the token request.  Bluesky may first want a nonce, and gets
\* exactly one retry with it, unless the state held is not a Bluesky one: then
\* the callback gives up unasked.  A failure leaves the state stored.
CompleteAuth(f, answer) ==
  /\ flow[f] \in {"exchange", "nonce"}
  /\ \/ /\ answer = "granted" /\ Accepts(f)
        /\ flow' = [flow EXCEPT ![f] = "granted"]
     \/ /\ answer = "nonce" /\ ProviderOf[f] = "bluesky" /\ ProviderOf[held[f]] = "bluesky"
        /\ flow' = [flow EXCEPT ![f] = IF flow[f] = "exchange" THEN "nonce" ELSE "failed"]
     \/ /\ answer = "error"
        /\ flow' = [flow EXCEPT ![f] = "failed"]
  /\ UNCHANGED <<temp_states, oauth_cookie, session_cookie, held>>

\* Bluesky takes the account from the state, the others from the code's token.
Identity(f) == IF ProviderOf[f] = "bluesky" THEN UserOf[held[f]] ELSE UserOf[f]

\* The state that was used is removed, the state cookie with it, whichever
\* login it names by now, and the session cookie is set.
Finish(f) ==
  /\ flow[f] = "granted"
  /\ flow' = [flow EXCEPT ![f] = "done"]
  /\ temp_states' = temp_states \ {held[f]}
  /\ oauth_cookie' = Absent
  /\ session_cookie' = [user |-> Identity(f), age |-> 0]
  /\ UNCHANGED held

-----------------------------------------------------------------------------
(* Sessions *)

\* PlainLoginProvider: a known user with the right password.
PlainLogin(u) ==
  /\ session_cookie' = [user |-> u, age |-> 0]
  /\ UNCHANGED <<flow, temp_states, oauth_cookie, held>>

Logout ==
  /\ session_cookie' = Absent
  /\ UNCHANGED <<flow, temp_states, oauth_cookie, held>>

\* The browser drops the state cookie after its ten minutes.
StateCookieExpires ==
  /\ oauth_cookie # Absent
  /\ oauth_cookie' = Absent
  /\ UNCHANGED <<flow, temp_states, session_cookie, held>>

IsExpired(session) == session.age > SessionTimeout

IsUserAllowed(u) == AllowedUsers = {} \/ u \in AllowedUsers

\* A session that lets its owner in: require_auth, and the "full" answer of
\* the status handlers.
SessionValid == /\ session_cookie # Absent
                /\ ~IsExpired(session_cookie)
                /\ IsUserAllowed(session_cookie.user)

-----------------------------------------------------------------------------
LoginNext ==
  \/ \E f \in Flows : Login(f)
  \/ \E f \in Flows, approved \in BOOLEAN : ProviderDecides(f, approved)
  \/ \E f \in Flows : Callback(f)
  \/ \E f \in Flows, answer \in {"granted", "nonce", "error"} : CompleteAuth(f, answer)
  \/ \E f \in Flows : Finish(f)
  \/ \E u \in Users : PlainLogin(u)
  \/ Logout
  \/ StateCookieExpires

-----------------------------------------------------------------------------
(* Properties *)

\* However logins in several tabs overlap, a login that completes makes a
\* session of the account it was for, and a state that carries a PKCE
\* verifier is used by its own login only and gone when that login is done
\* (routes.rs, *_callback).
LoginsDoNotMix ==
  \A f \in Flows :
    /\ flow[f] \in {"granted", "done"} => Identity(f) = UserOf[f]
    /\ HasVerifier(f) /\ flow[f] = "done" => held[f] = f /\ f \notin temp_states
=============================================================================
