------------------------------ MODULE MCServices ------------------------------
(***************************************************************************)
(* The server's in-memory services.  They share no state with one another, *)
(* so every behaviour exercises one of them (focus) and TLC explores the   *)
(* sum of their state spaces instead of the product.                       *)
(***************************************************************************)
EXTENDS DiagnosticStores, AccessControl

CONSTANTS c1, c2, c3, c4, s1, s2, s3, a1, a2, srv, t1, t2, f1, f2, f3, alice, bob,
          w1, w2, v4, mapped

VARIABLE focus

F(proto, whole, type, src, dst, quoted) ==
  [proto |-> proto, whole |-> whole, type |-> type, src |-> src, dst |-> dst, quoted |-> quoted]

MCFrames == {F("udp", TRUE, 0, a1, srv, None),
             F("udp", TRUE, 0, srv, a2, None),
             F("icmp", TRUE, 11, srv, srv, a1),
             F("icmp", TRUE, 0, srv, srv, a1),
             F("udp", FALSE, 0, a1, srv, None)}

MCAddrOf == [c \in Conns |-> IF c \in {c1, c3} THEN a1 ELSE a2]

MCSurveyOf == [c \in Conns |-> CASE c = c1 -> s1 [] c = c2 -> s2 [] c = c3 -> s3 [] OTHER -> s1]

MCProviderOf == [f \in Flows |-> IF f = f3 THEN "linkedin" ELSE "bluesky"]

MCUserOf == [f \in Flows |-> IF f = f1 THEN alice ELSE bob]

MCKeys == {<<"a", "hyphen", "b">>, <<"a", "underscore", "b">>, <<"c">>}

MCMagicKeys == {<<"a", "hyphen", "b">>, <<"a", "underscore", "b">>}

MCUnmapped == [ip \in IPs |-> IF ip = mapped THEN v4 ELSE Absent]

-----------------------------------------------------------------------------
storesVars == vars
authVars == <<loginVars, accessVars>>
servicesVars == <<vars, loginVars, accessVars, focus>>

ServicesInit == Init /\ AccessSpecInit
                /\ focus \in {"capture", "keys", "tracing", "login", "access"}

Capture == \/ \E f \in Frames : CaptureFrame(f)
           \/ StorePacket
           \/ ClearCapture
           \/ \E c \in Conns, known \in BOOLEAN : RegisterSession(c, known)

Keylog == \/ \E c \in Conns, known \in BOOLEAN : RegisterSession(c, known)
         \/ \E c \in Conns, available \in BOOLEAN : CaptureKeys(c, available)
         \/ ClearKeylog

Sync == focus = "access" /\ SyncStep /\ UNCHANGED <<loginVars, storesVars, focus>>

InstallCallback == focus = "access" /\ SetAuthCallback /\ UNCHANGED <<loginVars, storesVars, focus>>

ServicesNext ==
  \/ focus = "capture" /\ Capture /\ UNCHANGED <<authVars, focus>>
  \/ focus = "keys" /\ Keylog /\ UNCHANGED <<authVars, focus>>
  \/ focus = "tracing" /\ TracingNext /\ UNCHANGED <<authVars, focus>>
  \/ focus = "login" /\ LoginNext /\ UNCHANGED <<accessVars, storesVars, focus>>
  \/ focus = "access" /\ Handlers /\ UNCHANGED <<loginVars, storesVars, focus>>
  \/ focus = "access" /\ PlainLogin(alice) /\ UNCHANGED <<accessVars, storesVars, focus>>
  \/ focus = "access" /\ Logout /\ UNCHANGED <<accessVars, storesVars, focus>>
  \/ focus = "access" /\ Tick /\ UNCHANGED <<storesVars, focus>>
  \/ Sync

\* The sync loop and the task that installs the callback are tokio tasks that
\* nothing blocks for good; time and the visitors are not forced.
ServicesSpec == /\ ServicesInit
                /\ [][ServicesNext]_servicesVars
                /\ WF_servicesVars(Sync)
                /\ WF_servicesVars(InstallCallback)
=============================================================================
