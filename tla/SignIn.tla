------------------------------- MODULE SignIn -------------------------------
(***************************************************************************)
(* How a browser gets to the dashboard (Home in dashboard/app/page.tsx):   *)
(* the session and its embedded wallet appear, a probe asks whether the    *)
(* server knows the login, an unknown login signs and is onboarded, and a  *)
(* watchdog offers a way out of every wait.                                *)
(*                                                                         *)
(* React runs the effects after the render that changed what they watch,   *)
(* so a promise may settle in between: Commit is a step of its own, and    *)
(* it sees the values of its render.  Sessions and wallets are those of    *)
(* the Privy SDK, which may take for ever; a signature may hang.           *)
(***************************************************************************)
EXTENDS Naturals, FiniteSets

CONSTANTS
    Login, None,
    Ceremonies,     \* bound: onboarding ceremonies in flight, numbered
    MaxSessions,    \* bound: sessions that begin or end
    MaxRetries      \* bound: presses of Retry

SignInAssumption ==
    /\ None \notin Login
    /\ {MaxSessions, MaxRetries} \subseteq Nat
    /\ Ceremonies \subseteq Nat

ASSUME SignInAssumption

VARIABLES
    ready,      \* the SDK has woken the session
    session,    \* user.id, None while signed out
    wallet,     \* the session's embedded wallet has an address
    signer,     \* embeddedReady: its provider can sign
    onboarded, probed, error, slow,    \* the states of Home
    started,    \* onboardingRef
    attempt,    \* retryNonce
    seen,       \* what the effects saw in their last run
    probe,      \* the probe whose answer still counts
    ceremony,   \* the ceremonies in flight, whoever began them
    known,      \* the server's users.privy_did
    opener,     \* history: whose ceremony opened the dashboard, None if a probe did
    changes     \* counts what MaxSessions bounds

privy == <<ready, session, wallet, signer, changes>>
home == <<onboarded, probed, error, slow, started, attempt, seen, probe, opener>>
vars == <<privy, home, ceremony, known>>

Idle == [login |-> None, by |-> None, at |-> "idle"]

\* user?.id, which the SDK knows once it is awake.
Did == IF ready THEN session ELSE None

Deps ==
    [ready |-> ready, session |-> Did, wallet |-> wallet, signer |-> signer,
     onboarded |-> onboarded, probed |-> probed, attempt |-> attempt]

TypeOK ==
    /\ {ready, wallet, signer, onboarded, probed, error, slow, started} \subseteq BOOLEAN
    /\ {session, opener} \subseteq {None} \cup Login
    /\ attempt \in 0 .. MaxRetries /\ changes \in 0 .. MaxSessions
    /\ probe \in [login : {None} \cup Login, reply : {"none", "asked", "yes", "no"}]
    /\ ceremony \in [Ceremonies -> [login : {None} \cup Login, by : {None} \cup Login,
                                    at : {"idle", "signing", "sent", "stored", "refused"}]]
    /\ known \subseteq Login

NoProbe == [login |-> None, reply |-> "none"]

Blank ==
    [ready |-> FALSE, session |-> None, wallet |-> FALSE, signer |-> FALSE,
     onboarded |-> FALSE, probed |-> FALSE, attempt |-> 0]

Init ==
    /\ ready = FALSE /\ session = None /\ wallet = FALSE /\ signer = FALSE
    /\ onboarded = FALSE /\ probed = FALSE /\ error = FALSE /\ slow = FALSE
    /\ started = FALSE /\ attempt = 0 /\ seen = Blank /\ opener = None
    /\ probe = NoProbe /\ ceremony = [c \in Ceremonies |-> Idle]
    /\ known \in SUBSET Login /\ changes = 0

-----------------------------------------------------------------------------
(* What is on the screen.                                                  *)

SignedOut == ready /\ session = None
Booting == ~ready \/ (session # None /\ (~wallet \/ (~probed /\ ~onboarded)))
Activating == ready /\ session # None /\ wallet /\ ~onboarded /\ probed
OnDashboard == ready /\ session # None /\ wallet /\ onboarded

\* The panel with Reload and Sign Out, on the boot layer and on activation.
Recovery == slow /\ (Booting \/ Activating)

-----------------------------------------------------------------------------
(* The SDK, from how useRemit reads it.                                    *)

Wakes ==
    /\ ~ready
    /\ ready' = TRUE
    /\ UNCHANGED <<session, wallet, signer, changes, home, ceremony, known>>

\* A session begins, ends or gives way to that of another account.
Session(d) ==
    /\ ready /\ d # session /\ changes < MaxSessions
    /\ session' = d /\ wallet' = FALSE /\ signer' = FALSE
    /\ changes' = changes + 1
    /\ UNCHANGED <<ready, home, ceremony, known>>

WalletLands ==
    /\ ready /\ session # None /\ ~signer
    /\ wallet' = TRUE
    /\ signer' = wallet
    /\ UNCHANGED <<ready, session, changes, home, ceremony, known>>

-----------------------------------------------------------------------------
(* The effects.                                                            *)

\* Mutant: no reset on a switch of the login.
MutNoReset == FALSE

\* The identity changed, and it was not the first one.
Switched == seen.session \notin {None, Did}

WatchdogRearms ==
    \E f \in {"ready", "session", "wallet", "onboarded", "probed"} : seen[f] # Deps[f]

ProbeRestarts ==
    \E f \in {"session", "wallet", "onboarded", "probed"} : seen[f] # Deps[f]

MayProbe == Did # None /\ wallet /\ ~onboarded /\ ~probed

CeremonyRestarts ==
    \E f \in {"session", "wallet", "signer", "onboarded", "probed", "attempt"} : seen[f] # Deps[f]

\* The first effect of the same pass has already cleared the ref.
Starts ==
    /\ CeremonyRestarts
    /\ probed /\ Did # None /\ wallet /\ signer /\ ~onboarded
    /\ ~started \/ Switched

Commit ==
    /\ seen # Deps
    /\ seen' = Deps
    /\ slow' = (slow /\ ~WatchdogRearms)
    /\ onboarded' = (onboarded /\ ~Switched)
    /\ probed' = (probed /\ ~Switched)
    /\ error' = (error /\ ~Switched)
    /\ opener' = IF Switched THEN None ELSE opener
    /\ started' = (Starts \/ (started /\ ~Switched))
    /\ probe' = IF ~ProbeRestarts THEN probe
                ELSE IF MayProbe THEN [login |-> Did, reply |-> "asked"] ELSE NoProbe
    /\ IF Starts
       THEN \E c \in Ceremonies :
              /\ ceremony[c] = Idle
              /\ \A b \in Ceremonies : ceremony[b] = Idle => c <= b
              /\ ceremony' = [ceremony EXCEPT ![c] = [login |-> Did, by |-> None, at |-> "signing"]]
       ELSE UNCHANGED ceremony
    /\ UNCHANGED <<privy, attempt, known>>

\* Mutant: the clock runs behind the boot layer only.
MutOnlyOnBoot == ~slow /\ Booting

\* Its clock runs behind every screen.
Armed == ~slow

Watchdog ==
    /\ Armed
    /\ slow' = TRUE
    /\ UNCHANGED <<privy, onboarded, probed, error, started, attempt, seen, probe, opener, ceremony, known>>

-----------------------------------------------------------------------------
(* The probe: api.cards() under the session's token.                       *)

ProbeReads ==
    /\ probe.reply = "asked"
    /\ probe' = [probe EXCEPT !.reply = IF probe.login \in known THEN "yes" ELSE "no"]
    /\ UNCHANGED <<privy, onboarded, probed, error, slow, started, attempt, seen, opener, ceremony, known>>

\* A refusal, a timeout or a lost answer falls through to the ceremony.
ProbeEnds(ok) ==
    /\ probe # NoProbe
    /\ ok => probe.reply = "yes"
    /\ onboarded' = (onboarded \/ ok)
    /\ probed' = TRUE
    /\ probe' = NoProbe
    /\ opener' = IF ok THEN None ELSE opener
    /\ UNCHANGED <<privy, error, slow, started, attempt, seen, ceremony, known>>

-----------------------------------------------------------------------------
(* The ceremony: sign7702, signOnboardProof, api.onboard.                  *)

\* call() takes the token of whoever is signed in by then.
Signs(c) ==
    /\ ceremony[c].at = "signing" /\ session # None
    /\ ceremony' = [ceremony EXCEPT ![c].at = "sent", ![c].by = session]
    /\ UNCHANGED <<privy, home, known>>

\* The proof names the login it was signed for, and the server compares.
ProofHolds(c) == ceremony[c].by = ceremony[c].login

Onboards(c) ==
    /\ ceremony[c].at = "sent"
    /\ ceremony' = [ceremony EXCEPT ![c].at = IF ProofHolds(c) THEN "stored" ELSE "refused"]
    /\ known' = IF ProofHolds(c) THEN known \cup {ceremony[c].login} ELSE known
    /\ UNCHANGED <<privy, home>>

\* setOnboarded(true), whoever is looking at the page by now.
Succeeds(c) ==
    /\ ceremony[c].at = "stored"
    /\ onboarded' = TRUE /\ error' = FALSE
    /\ opener' = ceremony[c].login
    /\ ceremony' = [ceremony EXCEPT ![c] = Idle]
    /\ UNCHANGED <<privy, probed, slow, started, attempt, seen, probe, known>>

\* A declined signature, no token, a refusal, a timeout, a lost answer.
Fails(c) ==
    /\ ceremony[c] # Idle
    /\ error' = TRUE /\ started' = FALSE
    /\ ceremony' = [ceremony EXCEPT ![c] = Idle]
    /\ UNCHANGED <<privy, onboarded, probed, slow, attempt, seen, probe, opener, known>>

Retry ==
    /\ Activating /\ error /\ attempt < MaxRetries
    /\ started' = FALSE /\ error' = FALSE
    /\ attempt' = attempt + 1
    /\ UNCHANGED <<privy, onboarded, probed, slow, seen, probe, opener, ceremony, known>>

-----------------------------------------------------------------------------
(* Reload, and Sign Out and Start Over, which reloads without a session.   *)
(* The page forgets its promises; what they sent may still be served.      *)

Reload(signOut) ==
    /\ Recovery
    /\ ready' = FALSE /\ wallet' = FALSE /\ signer' = FALSE
    /\ session' = IF signOut THEN None ELSE session
    /\ onboarded' = FALSE /\ probed' = FALSE /\ error' = FALSE /\ slow' = FALSE
    /\ started' = FALSE /\ attempt' = 0 /\ seen' = Blank /\ opener' = None
    /\ probe' = NoProbe /\ ceremony' = [c \in Ceremonies |-> Idle]
    /\ \E served \in SUBSET {c \in Ceremonies : ceremony[c].at = "sent" /\ ProofHolds(c)} :
         known' = known \cup {ceremony[c].login : c \in served}
    /\ UNCHANGED changes

SignInNext ==
    \/ Wakes \/ WalletLands \/ Commit \/ Watchdog
    \/ \E d \in {None} \cup Login : Session(d)
    \/ ProbeReads \/ Retry
    \/ \E ok \in BOOLEAN : ProbeEnds(ok) \/ Reload(ok)
    \/ \E c \in Ceremonies : Signs(c) \/ Onboards(c) \/ Succeeds(c) \/ Fails(c)

\* Timers fire, effects run and requests time out; wallets and people may not.
SignInFairness ==
    /\ WF_vars(Commit) /\ WF_vars(Watchdog)
    /\ WF_vars(\E ok \in BOOLEAN : ProbeEnds(ok))

-----------------------------------------------------------------------------
(* Correctness.                                                            *)

\* Once the effects have run, a dashboard is open only for a login the server
\* knows: the identity switch re-arms onboarding (page.tsx 61-74), and probes of
\* an earlier login do not count.  The exception is the ceremony, which no
\* cleanup stops: one that outlives its login opens the dashboard of the next.
OnboardedIsKnown ==
    seen = Deps /\ OnDashboard /\ opener \in {None, session} => session \in known

\* Nothing in the boot path waits for ever (api.ts 30-32, page.tsx 36-48): time
\* and again there is the login, the dashboard, an error with its Retry, or the
\* recovery panel, although wallets, signatures and the SDK may hang.
BootResolves == []<>(SignedOut \/ OnDashboard \/ (Activating /\ error) \/ Recovery)
=============================================================================
