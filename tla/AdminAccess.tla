----------------------------- MODULE AdminAccess -----------------------------
(***************************************************************************)
(* Who may do what in the back office: the session of                      *)
(* internal/admin/session.go, which is a signed cookie and no row, and the *)
(* one-time codes of internal/admin/totp_handler.go and internal/totp,     *)
(* whose two secrets are rows of settings.  Tabs of the admin work on them *)
(* at once; each reading and each writing of a setting is one step.        *)
(***************************************************************************)
EXTENDS Clock

CONSTANTS
  Desk,         \* tabs of the admin
  MaxAge,       \* cookie_max_age_sec
  Period,       \* a time step of the codes, 30 seconds
  MaxSecrets    \* bound: secrets ever generated

ASSUME AdminAssumption == MaxAge \in Nat /\ Period \in Nat \ {0} /\ MaxSecrets \in Nat

VARIABLES
  active,       \* settings totp_secret; 0 is ""
  pending,      \* settings totp_pending_secret
  generated,    \* how many secrets GenerateSecret has made
  expires,      \* when the admin's cookie expires; NoCookie
  desk,         \* the request of each tab
  confirmed     \* history: the secrets a confirm has verified a code of

adminVars == <<active, pending, generated, expires, desk, confirmed>>

NoSecret == 0
NoCookie == -1
Secret == 1 .. generated
IdleDesk == [pc |-> "idle"]

AdminInit ==
  /\ active = NoSecret /\ pending = NoSecret
  /\ generated = 0
  /\ expires = NoCookie
  /\ desk = [d \in Desk |-> IdleDesk]
  /\ confirmed = {}

On(d, pc) == desk[d].pc = pc
Goes(d, pc) == desk' = [desk EXCEPT ![d].pc = pc]
Closed(d) == desk' = [desk EXCEPT ![d] = IdleDesk]

-----------------------------------------------------------------------------
\* HandleLogin with the right name and password, HandleLogout, which clears
\* the cookie and nothing else.
AdminLogin ==
  /\ expires' = now + MaxAge
  /\ UNCHANGED <<active, pending, generated, desk, confirmed>>
AdminLogout ==
  /\ expires # NoCookie /\ expires' = NoCookie
  /\ UNCHANGED <<active, pending, generated, desk, confirmed>>

\* requireSession, DecodeSession.
LoggedIn == expires # NoCookie /\ now <= expires

\* totp.Verify: the code of the step before, of this one and of the next.
StepOf(t) == t \div Period
Verify(secret, code) ==
  code.secret = secret /\ code.step \in StepOf(now) - 1 .. StepOf(now) + 1

\* A request leaves a tab with the code the authenticator shows: none, or the
\* one of a secret that was scanned.
Request(d) ==
  /\ On(d, "idle") /\ LoggedIn
  /\ \E pc \in {"setup", "confirm", "disable", "guarded"}, s \in {NoSecret} \cup Secret :
       desk' = [desk EXCEPT ![d] =
         [pc |-> IF pc \in {"disable", "guarded"} THEN "gate" ELSE pc,
          then |-> pc, code |-> [secret |-> s, step |-> StepOf(now)], read |-> NoSecret]]
  /\ UNCHANGED <<active, pending, generated, expires, confirmed>>

\* RequireTOTP: without an active secret everything passes.
Gate(d) ==
  /\ On(d, "gate")
  /\ IF active = NoSecret \/ Verify(active, desk[d].code)
     THEN Goes(d, desk[d].then)
     ELSE Closed(d)
  /\ UNCHANGED <<active, pending, generated, expires, confirmed>>

\* The handler behind it.
Guarded(d) ==
  /\ On(d, "guarded")
  /\ Closed(d)
  /\ UNCHANGED <<active, pending, generated, expires, confirmed>>

\* HandleTOTPSetup: also while a secret is active.
Setup(d) ==
  /\ On(d, "setup") /\ generated < MaxSecrets
  /\ generated' = generated + 1
  /\ pending' \in {generated', pending}
  /\ Closed(d)
  /\ UNCHANGED <<active, expires, confirmed>>

\* HandleTOTPConfirm: the pending secret is read once and its code verified.
Confirm(d) ==
  /\ On(d, "confirm")
  /\ IF pending # NoSecret /\ Verify(pending, desk[d].code)
     THEN /\ desk' = [desk EXCEPT ![d].pc = "activate", ![d].read = pending]
          /\ confirmed' = confirmed \cup {pending}
     ELSE Closed(d) /\ UNCHANGED confirmed
  /\ UNCHANGED <<active, pending, generated, expires>>

\* A defect of Confirmed: the setting is read a second time.
PendingNow(d) == pending
\* What becomes active: the secret that was verified.
Confirmed(d) == desk[d].read

\* Whether the settings could be written is not looked at.
Activate(d) ==
  /\ On(d, "activate")
  /\ active' \in {Confirmed(d), active}
  /\ Goes(d, "clear")
  /\ UNCHANGED <<pending, generated, expires, confirmed>>
ClearPending(d) ==
  /\ On(d, "clear")
  /\ pending' \in {NoSecret, pending}
  /\ Closed(d)
  /\ UNCHANGED <<active, generated, expires, confirmed>>

\* HandleTOTPDisable: a second reading, a second code, then the write.
Disable(d) ==
  /\ On(d, "disable")
  /\ IF active # NoSecret /\ Verify(active, desk[d].code)
     THEN desk' = [desk EXCEPT ![d].pc = "off", ![d].read = active]
     ELSE Closed(d)
  /\ UNCHANGED <<active, pending, generated, expires, confirmed>>
Off(d) ==
  /\ On(d, "off")
  /\ active' \in {NoSecret, active}
  /\ Closed(d)
  /\ UNCHANGED <<pending, generated, expires, confirmed>>

AdminNext ==
  /\ \/ AdminLogin \/ AdminLogout
     \/ \E d \in Desk :
          \/ Request(d) \/ Gate(d) \/ Guarded(d)
          \/ Setup(d) \/ Confirm(d) \/ Activate(d) \/ ClearPending(d)
          \/ Disable(d) \/ Off(d)
  /\ UNCHANGED now

AdminSpec ==
  /\ ClockInit /\ AdminInit
  /\ [][AdminNext \/ (Tick /\ UNCHANGED adminVars)]_<<now, adminVars>>

-----------------------------------------------------------------------------
AdminTypeOK ==
  /\ generated \in 0 .. MaxSecrets
  /\ {active, pending} \subseteq Secret \cup {NoSecret}
  /\ expires \in {NoCookie} \cup 0 .. MaxTime + MaxAge
  /\ \A d \in Desk : ~ On(d, "idle") =>
       /\ desk[d].read \in Secret \cup {NoSecret}
       /\ desk[d].code.secret \in Secret \cup {NoSecret}
       /\ desk[d].pc \in {"activate", "clear", "off"} => desk[d].read # NoSecret
  /\ confirmed \subseteq Secret

\* However setups, confirmations and deactivations of several tabs overlap, the
\* codes the back office asks for are those of a secret that a confirmation has
\* seen a code of: an admin is never asked for what no authenticator shows.
ActiveWasConfirmed == active # NoSecret => active \in confirmed
=============================================================================
